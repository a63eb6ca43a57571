-------------------------- MODULE DispatchRunProofs ---------------------------
(***************************************************************************)
(* More about the dispatcher, for any number of jobs and slots: a run is   *)
(* started at most once, no more runs hold a slot than there are, what the *)
(* rows have lost sight of is bounded by what went wrong, a window lies    *)
(* before its deadline, nothing is started after it, and no price block is *)
(* booked beyond its cap.                                                  *)
(*                                                                         *)
(* All rest on what one step may do: to the row of a job, to the place the *)
(* tick is at, and to the runs of the provider.                            *)
(***************************************************************************)
EXTENDS DispatchProofs

-----------------------------------------------------------------------------
(* What is true of starts between the steps *)

(* A twin belongs to a job; what the tick is about to start, or has started, is claimed. *)
TwinRight == \A j \in Jobs : twin[j].status # "none" => job[j].status # "new"

(* A row that is not there yet has no window, and no re-plan has one for it. *)
FreshRight == \A j \in Jobs : job[j].win # NoStart \/ replan.win[j] # NoStart => job[j].status # "new"

PlaceRight ==
    /\ disp.pc = "due" => disp.kind = "with"
    /\ disp.pc \in {"start", "save"} /\ disp.kind = "with" => job[disp.cur].began
    /\ disp.pc \in {"start", "save"} /\ disp.kind = "without" =>
          twin[disp.cur].status # "scheduled" /\ job[disp.cur].status # "new"
    /\ disp.kind = "without" => \A j \in disp.todo : job[j].status # "new"

(* One start, after the claim, and never about to be repeated. *)
StartsRight ==
    \A j \in Jobs :
        /\ prov["with"][j].starts = 0
           \/ /\ prov["with"][j].starts = 1 /\ job[j].began
              /\ ~(disp.pc = "start" /\ disp.kind = "with" /\ disp.cur = j)
        /\ prov["without"][j].starts = 0
           \/ /\ prov["without"][j].starts = 1 /\ twin[j].status # "scheduled" /\ job[j].status # "new"
              /\ ~(disp.pc = "start" /\ disp.kind = "without" /\ disp.cur = j)

-----------------------------------------------------------------------------
(* What a step may do to a row *)

RowStep(j) ==
    /\ job[j].began => job'[j].began
    /\ job[j].status # "new" => job'[j].status # "new" /\ job'[j].dur = job[j].dur /\ job'[j].dl = job[j].dl
    /\ job'[j].status = "running" => job[j].status = "running" \/ Claim(j)
    /\ twin'[j].status = "running" => twin[j].status = "running" \/ ClaimTwin(j)
    /\ twin'[j].status = "scheduled" => twin[j].status = "scheduled" \/ job[j].status = "new"
    /\ twin'[j].status # "none" => job'[j].status # "new"
    /\ job'[j].win = job[j].win \/ (\E req \in Requests, at \in Readings : Submit(j, req, at)) \/ (ReplanWrite /\ job'[j] = Flushed(j))
    /\ job'[j].status = "queued" => job[j].status = "queued" \/ (\E req \in Requests, at \in Readings : Submit(j, req, at))
    /\ job'[j].status = "scheduled" => job[j].status = "scheduled" \/ (\E req \in Requests, at \in Readings : Submit(j, req, at)) \/ ReplanWrite

Held == Typed /\ ContractInv /\ TwinRight /\ FreshRight /\ PlaceRight

(* The steps that write rows. *)
LEMMA RowsMove ==
    Next => \/ UNCHANGED <<job, twin>> \/ TickBegin \/ (\E i \in Jobs : Claim(i) \/ ClaimTwin(i)) \/ Save
            \/ (\E i \in Jobs : Poll(i) \/ PollTwin(i)) \/ (\E i \in Jobs, req \in Requests, at \in Readings : Submit(i, req, at))
            \/ ReplanWrite \/ Restart \/ (\E reset \in BOOLEAN : DemoReplay(reset))
  <1>1. FireStep => \/ UNCHANGED <<job, twin>> \/ TickBegin \/ (\E i \in Jobs : Claim(i) \/ ClaimTwin(i)) \/ Save
    BY DEF FireStep, SelectDue, SelectTwins, Start
  <1>2. PollStep => UNCHANGED <<job, twin>> \/ (\E i \in Jobs : Poll(i) \/ PollTwin(i))
    BY DEF PollStep, SelectRunning, SelectRunningTwins, TickEnd
  <1>3. ServiceStep => \/ UNCHANGED <<job, twin>> \/ (\E i \in Jobs, req \in Requests, at \in Readings : Submit(i, req, at)) \/ ReplanWrite
    BY DEF ServiceStep, create_job, ReplanRead, Ingest, Tick
  <1>4. Upset => UNCHANGED <<job, twin>> \/ Restart \/ (\E reset \in BOOLEAN : DemoReplay(reset))
    BY DEF Upset, Crash, TickAborts, ARunEnds, RunEnds, DemoLive
  <1>. QED BY <1>1, <1>2, <1>3, <1>4 DEF Next, Upset

LEMMA RowSteps == Held /\ Next => \A j \in Jobs : RowStep(j)
  <1> SUFFICES ASSUME Typed, ContractInv, TwinRight, PlaceRight, Next, NEW j \in Jobs PROVE RowStep(j)
    BY DEF Held
  <1>d. job \in [Jobs -> Job] /\ twin \in [Jobs -> Twin] /\ job[j] \in Job /\ twin[j] \in Twin
    BY DEF Typed, JobsType, TwinsType
  <1>r. RowRight(job[j]) BY DEF ContractInv, RowsRight
  <1>tw. twin[j].status # "none" => job[j].status # "new" BY DEF TwinRight
  <1>same. ASSUME job'[j] = job[j], twin'[j] = twin[j] PROVE RowStep(j) BY <1>same, <1>tw DEF RowStep, Waiting
  <1>1. CASE UNCHANGED <<job, twin>> BY <1>1, <1>same
  <1>2. CASE TickBegin
    <2>1. UNCHANGED twin /\ job'[j] = IF job[j].status \in Waiting /\ job[j].dl < now
                                     THEN [job[j] EXCEPT !.status = "failed"] ELSE job[j]
      BY <1>2 DEF TickBegin, Expired
    <2>2. CASE job'[j] = [job[j] EXCEPT !.status = "failed"]
      <3>1. job'[j].status = "failed" /\ job'[j].began = job[j].began /\ job'[j].dur = job[j].dur /\ job'[j].dl = job[j].dl /\ job'[j].win = job[j].win
        BY <2>2, <1>d DEF Job
      <3>. QED BY <2>1, <3>1, <1>tw DEF RowStep, Waiting
    <2>. QED BY <2>1, <2>2, <1>same
  <1>3. ASSUME NEW i \in Jobs, Claim(i) PROVE RowStep(j)
    <2>1. UNCHANGED twin BY <1>3 DEF Claim
    <2>2. CASE i # j
      <3>1. job'[j] = job[j] BY <1>3, <2>2, <1>d DEF Claim
      <3>. QED BY <2>1, <3>1, <1>same
    <2>3. CASE i = j /\ job' # job
      <3>1. job'[j] = [job[j] EXCEPT !.status = "running", !.began = TRUE] BY <1>3, <2>3, <1>d DEF Claim
      <3>2. job'[j].status = "running" /\ job'[j].began = TRUE /\ job'[j].dur = job[j].dur /\ job'[j].dl = job[j].dl /\ job'[j].win = job[j].win
        BY <3>1, <1>d DEF Job
      <3>. QED BY <1>3, <2>1, <2>3, <3>2, <1>tw DEF RowStep, Waiting
    <2>. QED BY <2>1, <2>2, <2>3, <1>same
  <1>4. ASSUME NEW i \in Jobs, ClaimTwin(i) PROVE RowStep(j)
    <2>1. UNCHANGED job BY <1>4 DEF ClaimTwin
    <2>2. CASE i # j
      <3>1. twin'[j] = twin[j] BY <1>4, <2>2, <1>d DEF ClaimTwin
      <3>. QED BY <2>1, <3>1, <1>same
    <2>3. CASE i = j /\ twin' # twin
      <3>1. twin[j].status = "scheduled" /\ twin'[j] = [twin[j] EXCEPT !.status = "running"]
        BY <1>4, <2>3, <1>d DEF ClaimTwin
      <3>2. twin'[j].status = "running" BY <3>1, <1>d DEF Twin
      <3>. QED BY <1>4, <2>1, <2>3, <3>1, <3>2, <1>tw DEF RowStep, Waiting
    <2>. QED BY <2>1, <2>2, <2>3, <1>same
  <1>5. CASE Save
    <2>1. job'[j] = job[j] \/ (job'[j] = Saved(job[j]) /\ disp.cur = j /\ disp.pc = "save" /\ disp.kind = "with" /\ job[j].status # "deleted")
      BY <1>5, <1>d DEF Save
    <2>2. twin'[j] = twin[j] \/ twin'[j] = Saved(twin[j]) BY <1>5, <1>d DEF Save
    <2>3. job'[j].began = job[j].began /\ job'[j].status \in {job[j].status, "failed"} /\ job'[j].dur = job[j].dur /\ job'[j].dl = job[j].dl /\ job'[j].win = job[j].win
      BY <2>1, <1>d DEF Saved, Job
    <2>4. twin'[j].status \in {twin[j].status, "failed"} BY <2>2, <1>d DEF Saved, Twin
    <2>5. twin'[j] # twin[j] => disp.pc = "save" /\ disp.kind = "without" /\ disp.cur = j
      <3>1. disp.pc = "save" /\ (disp.kind = "with" => UNCHANGED twin) /\ disp.kind \in Kinds
        BY <1>5 DEF Save, Typed, DispType
      <3>2. twin' = twin \/ twin' = [twin EXCEPT ![disp.cur] = Saved(twin[disp.cur])] BY <1>5 DEF Save
      <3>3. disp.cur # j => twin'[j] = twin[j] BY <3>2, <1>d
      <3>. QED BY <3>1, <3>3 DEF Kinds
    <2>6. twin'[j].status # "none" => job[j].status # "new" BY <2>5, <1>tw DEF PlaceRight
    <2>7. twin'[j].status \in {twin[j].status, "failed"} /\ (job[j].status # "new" => job'[j].status # "new") BY <2>3, <2>4
    <2>. QED BY <2>3, <2>6, <2>7 DEF RowStep, Waiting
  <1>6. ASSUME NEW i \in Jobs, Poll(i) PROVE RowStep(j)
    <2>1. UNCHANGED twin BY <1>6 DEF Poll
    <2>2. \/ job' = job \/ job' = [job EXCEPT ![i] = [job[i] EXCEPT !.status = "failed"]]
          \/ job' = [job EXCEPT ![i] = [job[i] EXCEPT !.status = "done"]]
      BY <1>6 DEF Poll, NotFound, Resolved
    <2>3. \/ job'[j] = job[j]
          \/ job'[j] = [job[j] EXCEPT !.status = "failed"]
          \/ job'[j] = [job[j] EXCEPT !.status = "done"]
      BY <2>2, <1>d
    <2>4. job'[j].began = job[j].began /\ job'[j].status \in {job[j].status, "failed", "done"} /\ job'[j].dur = job[j].dur /\ job'[j].dl = job[j].dl /\ job'[j].win = job[j].win
      BY <2>3, <1>d DEF Job
    <2>. QED BY <2>1, <2>4, <1>tw DEF RowStep, Waiting
  <1>7. ASSUME NEW i \in Jobs, PollTwin(i) PROVE RowStep(j)
    <2>1. UNCHANGED job BY <1>7 DEF PollTwin
    <2>2. twin' = twin \/ \E st \in {"done", "failed"} : i \in disp.todo /\ twin' = [twin EXCEPT ![i] = [twin[i] EXCEPT !.status = st]]
      BY <1>7 DEF PollTwin
    <2>3. CASE i = j /\ twin' # twin
      <3>1. twin'[j].status \in {"done", "failed"} BY <2>2, <2>3, <1>d DEF Twin
      <3>2. job[j].status # "new" BY <1>7, <2>3 DEF PollTwin, PlaceRight
      <3>. QED BY <2>1, <3>1, <3>2 DEF RowStep, Waiting
    <2>4. CASE i # j
      <3>1. twin'[j] = twin[j] BY <2>2, <2>4, <1>d
      <3>. QED BY <2>1, <3>1, <1>same
    <2>. QED BY <2>1, <2>3, <2>4, <1>same
  <1>8. ASSUME NEW i \in Jobs, NEW req \in Requests, NEW at \in Readings, Submit(i, req, at) PROVE RowStep(j)
    <2>1. job[i].status = "new" BY <1>8 DEF Submit
    <2>2. CASE i # j
      <3>1. job'[j] = job[j] /\ twin'[j] = twin[j] BY <1>8, <2>2, <1>d DEF Submit
      <3>. QED BY <3>1, <1>same
    <2>3. CASE i = j
      <3>1. ~job[j].began BY <2>1, <2>3, <1>r DEF RowRight, Pending
      <3>2. job'[j].status \in {"queued", "scheduled"} BY <1>8, <2>3, <1>d DEF Submit
      <3>3. twin'[j].status \in {"scheduled", "none"} BY <1>8, <2>3, <1>d DEF Submit, Twin
      <3>. QED BY <1>8, <2>1, <2>3, <3>1, <3>2, <3>3 DEF RowStep, Waiting
    <2>. QED BY <2>2, <2>3
  <1>9. CASE ReplanWrite
    <2>1. UNCHANGED twin /\ (job'[j] = job[j] \/ job'[j] = Flushed(j)) BY <1>9 DEF ReplanWrite
    <2>2. job'[j].began = job[j].began /\ job'[j].status \in {job[j].status, "scheduled"} /\ job'[j].dur = job[j].dur /\ job'[j].dl = job[j].dl
      BY <2>1, <1>d DEF Flushed, Job
    <2>. QED BY <1>9, <2>1, <2>2, <1>tw DEF RowStep, Waiting
  <1>10. CASE Restart
    <2>1. UNCHANGED twin /\ job'[j] = RecoveredRow(job[j]) BY <1>10 DEF Restart
    <2>2. job'[j].began = job[j].began /\ job'[j].status \in {job[j].status, "failed"} /\ job'[j].dur = job[j].dur /\ job'[j].dl = job[j].dl /\ job'[j].win = job[j].win
      BY <2>1, <1>d DEF RecoveredRow, Job
    <2>. QED BY <2>1, <2>2, <1>tw DEF RowStep, Waiting
  <1>11. ASSUME NEW reset \in BOOLEAN, DemoReplay(reset) PROVE RowStep(j)
    <2>1. \/ UNCHANGED <<job, twin>>
          \/ /\ job'[j] = IF j \in Submitted THEN [job[j] EXCEPT !.status = "deleted"] ELSE job[j]
             /\ twin'[j] = [status |-> "none", ref |-> FALSE]
      BY <1>11 DEF DemoReplay
    <2>2. CASE UNCHANGED <<job, twin>> BY <2>2, <1>same
    <2>3. CASE /\ job'[j] = IF j \in Submitted THEN [job[j] EXCEPT !.status = "deleted"] ELSE job[j]
               /\ twin'[j] = [status |-> "none", ref |-> FALSE]
      <3>1. job'[j].began = job[j].began /\ job'[j].status \in {job[j].status, "deleted"} /\ job'[j].dur = job[j].dur /\ job'[j].dl = job[j].dl /\ job'[j].win = job[j].win
        BY <2>3, <1>d DEF Job
      <3>. QED BY <2>3, <3>1 DEF RowStep, Waiting
    <2>. QED BY <2>1, <2>2, <2>3
  <1>. QED BY <1>1, <1>2, <1>3, <1>4, <1>5, <1>6, <1>7, <1>8, <1>9, <1>10, <1>11, RowsMove

-----------------------------------------------------------------------------
(* What a step may do to the place the tick is at, and to what it has chosen *)

Choosing == {"claim", "start", "save"}

Moved ==
    /\ disp'.pc \notin {"start", "save"} /\ (disp'.pc = "due" => disp'.kind = "with")
    /\ \/ disp'.kind = "with"
       \/ disp.kind = "without" /\ disp'.todo \subseteq disp.todo
       \/ disp'.todo \subseteq {j \in Jobs : twin[j].status # "none"}
    /\ disp'.pc \in Choosing => SelectDue \/ SelectTwins \/ (disp.pc \in Choosing /\ disp'.todo \subseteq disp.todo)

Taken(j) ==
    /\ Claim(j) /\ job[j].status = "scheduled" /\ \A i \in Jobs \ {j} : job'[i] = job[i]
    /\ job'[j].status = "running" /\ job'[j].began
    /\ disp.pc = "claim" /\ j \in disp.todo /\ disp'.todo = disp.todo \ {j}
    /\ disp'.pc = "start" /\ disp'.kind = "with" /\ disp'.cur = j

TakenTwin(j) ==
    /\ ClaimTwin(j) /\ twin[j].status = "scheduled" /\ twin'[j].status = "running" /\ \A i \in Jobs \ {j} : twin'[i] = twin[i]
    /\ disp.kind = "without" /\ disp.pc = "claim" /\ j \in disp.todo /\ disp'.todo = disp.todo \ {j}
    /\ disp'.pc = "start" /\ disp'.kind = "without" /\ disp'.cur = j

Called ==
    /\ disp.pc = "start" /\ disp'.pc = "save"
    /\ disp'.kind = disp.kind /\ disp'.cur = disp.cur /\ disp'.todo = disp.todo

PlaceStep == disp' = disp \/ Moved \/ (\E j \in Jobs : Taken(j) \/ TakenTwin(j)) \/ Called

(* A claim takes the job, or finds that somebody was faster. *)
LEMMA ClaimTakes == Typed => \A j \in Jobs : Claim(j) => Taken(j) \/ (UNCHANGED job /\ disp' = [disp EXCEPT !.todo = @ \ {j}])
  <1> SUFFICES ASSUME Typed, NEW j \in Jobs, Claim(j)
               PROVE  Taken(j) \/ (UNCHANGED job /\ disp' = [disp EXCEPT !.todo = @ \ {j}])
    OBVIOUS
  <1>d. disp \in DispType /\ job \in [Jobs -> Job] BY DEF Typed, JobsType
  <1>1. CASE job[j].status = "scheduled"
    <2>1. /\ disp' = [disp EXCEPT !.pc = "start", !.cur = j, !.todo = @ \ {j}] /\ disp.kind = "with"
          /\ job' = [job EXCEPT ![j] = [job[j] EXCEPT !.status = "running", !.began = TRUE]]
          /\ disp.pc = "claim" /\ j \in disp.todo
      BY <1>1, <1>d DEF Claim
    <2>2. disp'.pc = "start" /\ disp'.kind = "with" /\ disp'.cur = j /\ disp'.todo = disp.todo \ {j} BY <2>1, <1>d DEF DispType
    <2>3. job'[j].status = "running" /\ job'[j].began /\ \A i \in Jobs \ {j} : job'[i] = job[i] BY <2>1, <1>d DEF Job
    <2>. QED BY <1>1, <2>1, <2>2, <2>3 DEF Taken
  <1>2. CASE job[j].status # "scheduled" BY <1>2 DEF Claim
  <1>. QED BY <1>1, <1>2

LEMMA ClaimTwinTakes ==
    Typed => \A j \in Jobs : ClaimTwin(j) => TakenTwin(j) \/ (UNCHANGED twin /\ disp' = [disp EXCEPT !.todo = @ \ {j}])
  <1> SUFFICES ASSUME Typed, NEW j \in Jobs, ClaimTwin(j)
               PROVE  TakenTwin(j) \/ (UNCHANGED twin /\ disp' = [disp EXCEPT !.todo = @ \ {j}])
    OBVIOUS
  <1>d. disp \in DispType /\ twin \in [Jobs -> Twin] BY DEF Typed, TwinsType
  <1>1. CASE twin[j].status = "scheduled"
    <2>1. /\ disp' = [disp EXCEPT !.pc = "start", !.cur = j, !.todo = @ \ {j}] /\ disp.kind = "without"
          /\ twin' = [twin EXCEPT ![j] = [twin[j] EXCEPT !.status = "running"]]
          /\ disp.pc = "claim" /\ j \in disp.todo
      BY <1>1, <1>d DEF ClaimTwin
    <2>2. disp'.pc = "start" /\ disp'.kind = "without" /\ disp'.cur = j /\ disp'.todo = disp.todo \ {j} BY <2>1, <1>d DEF DispType
    <2>3. twin'[j].status = "running" /\ \A i \in Jobs \ {j} : twin'[i] = twin[i] BY <2>1, <1>d DEF Twin
    <2>. QED BY <1>1, <2>1, <2>2, <2>3 DEF TakenTwin
  <1>2. CASE twin[j].status # "scheduled" BY <1>2 DEF ClaimTwin
  <1>. QED BY <1>1, <1>2

LEMMA PlaceSteps == Typed /\ PlaceRight /\ Next => PlaceStep
  <1> SUFFICES ASSUME Typed, PlaceRight, Next PROVE PlaceStep OBVIOUS
  <1>d. disp \in DispType /\ job \in [Jobs -> Job] /\ twin \in [Jobs -> Twin] BY DEF Typed, JobsType, TwinsType
  <1>0. CASE disp' = disp BY <1>0 DEF PlaceStep
  <1>i. CASE disp' = Idle \/ disp' = Down
    <2>1. disp'.pc \in {"idle", "down"} /\ disp'.kind = "with" BY <1>i DEF Idle, Down
    <2>. QED BY <2>1 DEF PlaceStep, Moved, Choosing
  <1>1. CASE TickBegin
    <2>1. disp' = [Idle EXCEPT !.pc = "due", !.t = now] BY <1>1 DEF TickBegin
    <2>2. disp'.pc = "due" /\ disp'.kind = "with" BY <2>1 DEF Idle
    <2>. QED BY <2>2 DEF PlaceStep, Moved, Choosing
  <1>2. CASE SelectDue
    <2>1. disp.pc = "due" /\ \E todo : disp' = [disp EXCEPT !.pc = "claim", !.todo = todo] BY <1>2 DEF SelectDue
    <2>2. disp'.pc = "claim" /\ disp'.kind = disp.kind BY <2>1, <1>d DEF DispType
    <2>. QED BY <1>2, <2>1, <2>2 DEF PlaceStep, Moved, Choosing, PlaceRight
  <1>3. CASE SelectTwins
    <2>1. PICK todo \in SUBSET {j \in Jobs : twin[j].status = "scheduled"} :
             disp.pc = "claim" /\ disp' = [disp EXCEPT !.kind = "without", !.t = 0, !.todo = todo]
      BY <1>3 DEF SelectTwins, FirstOf
    <2>2. disp'.pc = "claim" /\ disp'.todo = todo BY <2>1, <1>d DEF DispType
    <2>. QED BY <1>3, <2>2 DEF PlaceStep, Moved, Choosing
  <1>4. CASE Start
    <2>1. disp' = Idle \/ \E got : disp.pc = "start" /\ disp' = [disp EXCEPT !.pc = "save", !.got = got]
      BY <1>4 DEF Start, Abort
    <2>2. CASE \E got : disp.pc = "start" /\ disp' = [disp EXCEPT !.pc = "save", !.got = got]
      <3>1. Called BY <2>2, <1>d DEF Called, DispType
      <3>. QED BY <3>1 DEF PlaceStep
    <2>. QED BY <2>1, <2>2, <1>i
  <1>5. CASE Save
    <2>1. disp' = Idle \/ disp' = [disp EXCEPT !.pc = "claim", !.cur = 0, !.got = FALSE] BY <1>5 DEF Save, Abort
    <2>2. CASE disp' = [disp EXCEPT !.pc = "claim", !.cur = 0, !.got = FALSE]
      <3>1. disp'.pc = "claim" /\ disp'.kind = disp.kind /\ disp'.todo = disp.todo /\ disp.pc = "save"
        BY <1>5, <2>2, <1>d DEF DispType, Save
      <3>. QED BY <3>1, <1>d DEF PlaceStep, Moved, Choosing, DispType, Kinds
    <2>. QED BY <2>1, <2>2, <1>i
  <1>p. ASSUME NEW j \in Jobs, disp' = [disp EXCEPT !.todo = @ \ {j}], disp.pc \in {"claim", "poll"} PROVE PlaceStep
    <2>1. disp'.pc = disp.pc /\ disp'.kind = disp.kind /\ disp'.todo = disp.todo \ {j} BY <1>p, <1>d DEF DispType
    <2>. QED BY <2>1, <1>p, <1>d DEF PlaceStep, Moved, Choosing, DispType, Kinds
  <1>6. ASSUME NEW j \in Jobs, Claim(j) PROVE PlaceStep
    <2>1. disp.pc = "claim" BY <1>6 DEF Claim
    <2>2. CASE Taken(j) BY <2>2 DEF PlaceStep
    <2>. QED BY <1>6, <1>p, <2>1, <2>2, ClaimTakes
  <1>7. ASSUME NEW j \in Jobs, ClaimTwin(j) PROVE PlaceStep
    <2>1. disp.pc = "claim" BY <1>7 DEF ClaimTwin
    <2>2. CASE TakenTwin(j) BY <2>2 DEF PlaceStep
    <2>. QED BY <1>7, <1>p, <2>1, <2>2, ClaimTwinTakes
  <1>8. ASSUME NEW j \in Jobs, Poll(j) \/ PollTwin(j) PROVE PlaceStep
    <2>1. disp.pc = "poll" /\ (disp' = Idle \/ disp' = [disp EXCEPT !.todo = @ \ {j}])
      BY <1>8 DEF Poll, PollTwin, Passed, Abort
    <2>. QED BY <2>1, <1>i, <1>p
  <1>9. CASE SelectRunning
    <2>1. \E todo : disp' = [disp EXCEPT !.pc = "poll", !.kind = "with", !.todo = todo] BY <1>9 DEF SelectRunning
    <2>2. disp'.pc = "poll" /\ disp'.kind = "with" BY <2>1, <1>d DEF DispType
    <2>. QED BY <2>2 DEF PlaceStep, Moved, Choosing
  <1>10. CASE SelectRunningTwins
    <2>1. disp.pc = "poll" /\ disp' = [disp EXCEPT !.kind = "without", !.todo = {j \in RunningTwins : twin[j].ref}]
      BY <1>10 DEF SelectRunningTwins
    <2>2. disp'.pc = "poll" /\ disp'.todo = {j \in RunningTwins : twin[j].ref} BY <2>1, <1>d DEF DispType
    <2>. QED BY <2>2 DEF PlaceStep, Moved, Choosing, RunningTwins
  <1>11. CASE TickEnd \/ Crash \/ Restart \/ TickAborts
    BY <1>11, <1>i DEF TickEnd, Crash, Restart, TickAborts, Abort
  <1>12. CASE ServiceStep \/ ARunEnds \/ DemoLive \/ (\E reset \in BOOLEAN : DemoReplay(reset))
    BY <1>12, <1>0 DEF ServiceStep, dispatchVars, ARunEnds, RunEnds, DemoLive, DemoReplay, TurnClock
  <1>. QED BY <1>1, <1>2, <1>3, <1>4, <1>5, <1>6, <1>7, <1>8, <1>9, <1>10, <1>11, <1>12 DEF Next, FireStep, PollStep

-----------------------------------------------------------------------------
(* What a step may do to the runs: one is started where the tick is about to start it, and by that step only; *)
(* and one that is live may end.                                                                               *)

StartedHere(k, j) ==
    /\ disp.pc = "start" /\ disp.kind = k /\ disp.cur = j /\ disp'.pc = "save"
    /\ prov'[k][j].starts = prov[k][j].starts + 1

Ended(k, j) == prov[k][j].st = "live" /\ prov'[k][j].st = "over" /\ prov'[k][j].starts = prov[k][j].starts

RunStep(k, j) == prov'[k][j] = prov[k][j] \/ StartedHere(k, j) \/ Ended(k, j)

LEMMA RunSteps == Typed /\ Next => \A k \in Kinds, j \in Jobs : RunStep(k, j)
  <1> SUFFICES ASSUME Typed, Next, NEW k \in Kinds, NEW j \in Jobs PROVE RunStep(k, j) OBVIOUS
  <1>d. disp \in DispType /\ prov \in [Kinds -> [Jobs -> Run]] BY DEF Typed, ProvType
  <1>1. CASE UNCHANGED prov BY <1>1 DEF RunStep
  <1>2. CASE Start
    <2>1. \/ UNCHANGED prov
          \/ \E st, got : /\ prov' = [prov EXCEPT ![disp.kind][disp.cur] = [st |-> st, starts |-> @.starts + 1]]
                          /\ disp' = [disp EXCEPT !.pc = "save", !.got = got]
      BY <1>2 DEF Start
    <2>2. ASSUME NEW st, NEW got, disp' = [disp EXCEPT !.pc = "save", !.got = got],
                 prov' = [prov EXCEPT ![disp.kind][disp.cur] = [st |-> st, starts |-> @.starts + 1]]
          PROVE  RunStep(k, j)
      <3>1. disp.pc = "start" /\ disp'.pc = "save" BY <1>2, <2>2, <1>d DEF Start, DispType
      <3>2. disp.kind \in Kinds /\ disp.cur \in Jobs BY <3>1, <1>d DEF DispType
      <3>3. CASE k = disp.kind /\ j = disp.cur
        <4>1. prov'[k][j] = [st |-> st, starts |-> prov[k][j].starts + 1] BY <2>2, <3>3, <1>d
        <4>. QED BY <3>1, <3>3, <4>1 DEF RunStep, StartedHere
      <3>4. CASE ~(k = disp.kind /\ j = disp.cur)
        <4>1. prov'[k][j] = prov[k][j] BY <2>2, <3>4, <1>d
        <4>. QED BY <4>1 DEF RunStep
      <3>. QED BY <3>3, <3>4
    <2>. QED BY <1>1, <2>1, <2>2
  <1>3. CASE ARunEnds
    <2>1. PICK i \in Kinds, n \in Jobs :
             /\ prov[i][n].st = "live"
             /\ prov' = [prov EXCEPT ![i] = [prov[i] EXCEPT ![n] = [prov[i][n] EXCEPT !.st = "over"]]]
      BY <1>3, <1>d DEF ARunEnds, RunEnds
    <2>2. prov[i][n] \in Run /\ prov[k][j] \in Run BY <1>d
    <2>3. prov'[k][j] = prov[k][j] \/ (k = i /\ j = n /\ prov'[k][j] = [prov[k][j] EXCEPT !.st = "over"]) BY <2>1, <1>d
    <2>4. CASE k = i /\ j = n /\ prov'[k][j] = [prov[k][j] EXCEPT !.st = "over"]
      <3>1. prov'[k][j].starts = prov[k][j].starts /\ prov'[k][j].st = "over" BY <2>2, <2>4 DEF Run
      <3>. QED BY <2>1, <2>4, <3>1 DEF RunStep, Ended
    <2>. QED BY <2>3, <2>4 DEF RunStep
  <1>4. CASE FireStep BY <1>1, <1>2, <1>4 DEF FireStep, TickBegin, SelectDue, SelectTwins, Save, Claim, ClaimTwin
  <1>5. CASE PollStep BY <1>1, <1>5 DEF PollStep, SelectRunning, SelectRunningTwins, TickEnd, Poll, PollTwin
  <1>6. CASE ServiceStep BY <1>1, <1>6 DEF ServiceStep, dispatchVars
  <1>7. CASE Crash \/ Restart \/ TickAborts \/ DemoLive \/ (\E reset \in BOOLEAN : DemoReplay(reset))
    BY <1>1, <1>7 DEF Crash, Restart, TickAborts, DemoLive, DemoReplay, TurnClock
  <1>. QED BY <1>3, <1>4, <1>5, <1>6, <1>7 DEF Next

(* What a step may do to a re-plan under way. *)
LEMMA ReplanSteps == Next => UNCHANGED replan \/ replan' = NoReplan \/ ReplanRead
  <1> SUFFICES ASSUME Next PROVE UNCHANGED replan \/ replan' = NoReplan \/ ReplanRead OBVIOUS
  <1>1. CASE FireStep BY <1>1 DEF FireStep, TickBegin, SelectDue, SelectTwins, Start, Save, Claim, ClaimTwin
  <1>2. CASE PollStep BY <1>2 DEF PollStep, SelectRunning, SelectRunningTwins, TickEnd, Poll, PollTwin
  <1>3. CASE ServiceStep BY <1>3 DEF ServiceStep, create_job, Submit, ReplanWrite, Ingest, Tick
  <1>4. CASE Upset BY <1>4 DEF Upset, Crash, Restart, TickAborts, ARunEnds, RunEnds, DemoReplay, DemoLive, TurnClock
  <1>. QED BY <1>1, <1>2, <1>3, <1>4 DEF Next, Upset

-----------------------------------------------------------------------------
(* A run is started at most once *)

LEMMA HeldStep == Held /\ Next => Held'
  <1> SUFFICES ASSUME Held, Next PROVE Held' OBVIOUS
  <1>h. Typed /\ ContractInv /\ TwinRight /\ FreshRight /\ PlaceRight BY DEF Held
  <1>d. disp \in DispType BY <1>h DEF Typed
  <1>r. \A j \in Jobs : RowStep(j) BY RowSteps
  <1>1. Typed' BY <1>h, FireTyped, PollTyped, ServiceTyped, UpsetTyped DEF Next, Upset
  <1>2. ContractInv' BY <1>h, ContractFire, ContractPoll, ContractService, ContractUpset DEF Next, Upset
  <1>3. TwinRight' BY <1>r DEF TwinRight, RowStep
  <1>4. PlaceRight'
    <2>n. \A j \in Jobs : job[j].status # "new" => job'[j].status # "new" BY <1>r DEF RowStep
    <2>t. disp'.todo \subseteq Jobs /\ (disp'.pc \in {"start", "save"} => disp'.cur \in Jobs)
          /\ (disp.pc \in {"start", "save"} => disp.cur \in Jobs) /\ disp.todo \subseteq Jobs
      BY <1>1, <1>d DEF Typed, DispType
    <2>0. CASE disp' = disp
      <3>1. \A j \in Jobs : job[j].began => job'[j].began BY <1>r DEF RowStep
      <3>2. \A j \in Jobs : job[j].status # "new" /\ twin[j].status # "scheduled" => twin'[j].status # "scheduled" BY <1>r DEF RowStep
      <3>. QED BY <1>h, <2>0, <2>n, <2>t, <3>1, <3>2 DEF PlaceRight
    <2>1. CASE Moved
      <3>1. disp'.kind = "without" => \A j \in disp'.todo : job[j].status # "new"
        BY <1>h, <2>1, <2>t DEF Moved, PlaceRight, TwinRight
      <3>. QED BY <2>1, <3>1, <2>n, <2>t DEF Moved, PlaceRight
    <2>2. ASSUME NEW j \in Jobs, Taken(j) PROVE PlaceRight' BY <2>2 DEF Taken, PlaceRight
    <2>3. ASSUME NEW j \in Jobs, TakenTwin(j) PROVE PlaceRight'
      <3>1. \A i \in disp'.todo : job[i].status # "new" BY <1>h, <2>3 DEF TakenTwin, PlaceRight
      <3>2. job[j].status # "new" BY <1>h, <2>3 DEF TakenTwin, PlaceRight
      <3>. QED BY <2>3, <3>1, <3>2, <2>n, <2>t DEF TakenTwin, PlaceRight
    <2>4. CASE Called
      <3>1. \A j \in Jobs : job[j].began => job'[j].began BY <1>r DEF RowStep
      <3>2. \A j \in Jobs : job[j].status # "new" /\ twin[j].status # "scheduled" => twin'[j].status # "scheduled" BY <1>r DEF RowStep
      <3>. QED BY <1>h, <2>4, <2>n, <2>t, <3>1, <3>2 DEF PlaceRight, Called
    <2>. QED BY <1>h, PlaceSteps, <2>0, <2>1, <2>2, <2>3, <2>4 DEF PlaceStep
  <1>5. FreshRight'
    <2> SUFFICES ASSUME NEW j \in Jobs, job'[j].win # NoStart \/ replan'.win[j] # NoStart PROVE job'[j].status # "new"
      BY DEF FreshRight
    <2>d. job \in [Jobs -> Job] BY <1>h DEF Typed, JobsType
    <2>n. job[j].status # "new" => job'[j].status # "new" BY <1>r DEF RowStep
    <2>1. ASSUME NEW req \in Requests, NEW at \in Readings, Submit(j, req, at) PROVE job'[j].status # "new" BY <2>1, <2>d DEF Submit
    <2>2. CASE job[j].win # NoStart \/ replan.win[j] # NoStart BY <1>h, <2>2, <2>n DEF FreshRight
    <2>3. CASE ReplanWrite /\ job'[j] = Flushed(j) /\ job[j].win = NoStart /\ replan.win[j] = NoStart
      <3>1. job'[j].win = NoStart BY <2>3, <2>d DEF Flushed, Job
      <3>2. replan'.win[j] = NoStart BY <2>3 DEF ReplanWrite, NoReplan
      <3>. QED BY <3>1, <3>2
    <2>4. CASE ReplanRead /\ job[j].win = NoStart /\ replan.win[j] = NoStart
      <3>1. UNCHANGED job BY <2>4 DEF ReplanRead
      <3>2. replan'.win[j] # NoStart => j \in MovableJobs BY <2>4 DEF ReplanRead
      <3>. QED BY <2>4, <3>1, <3>2 DEF MovableJobs
    <2>5. CASE (UNCHANGED replan \/ replan' = NoReplan) /\ job'[j].win = job[j].win BY <2>2, <2>5 DEF NoReplan
    <2>6. ReplanRead => job'[j].win = job[j].win BY DEF ReplanRead
    <2>7. ReplanWrite => replan' = NoReplan BY DEF ReplanWrite
    <2>. QED BY <1>r, <2>1, <2>2, <2>3, <2>4, <2>5, <2>6, <2>7, ReplanSteps DEF RowStep
  <1>. QED BY <1>1, <1>2, <1>3, <1>4, <1>5 DEF Held

LEMMA StartsStep == Held /\ StartsRight /\ Next => StartsRight'
  <1> SUFFICES ASSUME Held, StartsRight, Next, NEW j \in Jobs
               PROVE  /\ prov'["with"][j].starts = 0
                         \/ /\ prov'["with"][j].starts = 1 /\ job'[j].began
                            /\ ~(disp'.pc = "start" /\ disp'.kind = "with" /\ disp'.cur = j)
                      /\ prov'["without"][j].starts = 0
                         \/ /\ prov'["without"][j].starts = 1 /\ twin'[j].status # "scheduled" /\ job'[j].status # "new"
                            /\ ~(disp'.pc = "start" /\ disp'.kind = "without" /\ disp'.cur = j)
    BY DEF StartsRight
  <1>h. Typed /\ ContractInv /\ PlaceRight BY DEF Held
  <1>p. PlaceStep BY <1>h, PlaceSteps
  <1>s. RowStep(j) BY RowSteps
  <1>r. RowRight(job[j]) BY <1>h DEF ContractInv, RowsRight
  <1>1. \/ prov'["with"][j].starts = 0
        \/ /\ prov'["with"][j].starts = 1 /\ job'[j].began
           /\ ~(disp'.pc = "start" /\ disp'.kind = "with" /\ disp'.cur = j)
    <2>1. RunStep("with", j) BY <1>h, RunSteps DEF Kinds
    <2>2. CASE StartedHere("with", j)
      <3>1. prov["with"][j].starts = 0 BY <2>2 DEF StartsRight, StartedHere
      <3>2. job[j].began BY <1>h, <2>2 DEF PlaceRight, StartedHere
      <3>. QED BY <2>2, <3>1, <3>2, <1>s DEF StartedHere, RowStep
    <2>3. CASE prov'["with"][j].starts = prov["with"][j].starts
      <3>1. CASE prov["with"][j].starts = 0 BY <2>3, <3>1
      <3>2. CASE /\ prov["with"][j].starts = 1 /\ job[j].began
                 /\ ~(disp.pc = "start" /\ disp.kind = "with" /\ disp.cur = j)
        <4>1. job'[j].began BY <3>2, <1>s DEF RowStep
        <4>2. \A i \in Jobs : Taken(i) => i # j BY <3>2, <1>r DEF Taken, RowRight, Pending
        <4>3. ~(disp'.pc = "start" /\ disp'.kind = "with" /\ disp'.cur = j)
          BY <1>p, <3>2, <4>2 DEF PlaceStep, Moved, Choosing, Taken, TakenTwin, Called
        <4>. QED BY <2>3, <3>2, <4>1, <4>3
      <3>. QED BY <3>1, <3>2 DEF StartsRight
    <2>. QED BY <2>1, <2>2, <2>3 DEF RunStep, Ended
  <1>2. \/ prov'["without"][j].starts = 0
        \/ /\ prov'["without"][j].starts = 1 /\ twin'[j].status # "scheduled" /\ job'[j].status # "new"
           /\ ~(disp'.pc = "start" /\ disp'.kind = "without" /\ disp'.cur = j)
    <2>1. RunStep("without", j) BY <1>h, RunSteps DEF Kinds
    <2>2. CASE StartedHere("without", j)
      <3>1. prov["without"][j].starts = 0 BY <2>2 DEF StartsRight, StartedHere
      <3>2. twin[j].status # "scheduled" /\ job[j].status # "new" BY <1>h, <2>2 DEF PlaceRight, StartedHere
      <3>. QED BY <2>2, <3>1, <3>2, <1>s DEF StartedHere, RowStep
    <2>3. CASE prov'["without"][j].starts = prov["without"][j].starts
      <3>1. CASE prov["without"][j].starts = 0 BY <2>3, <3>1
      <3>2. CASE /\ prov["without"][j].starts = 1 /\ twin[j].status # "scheduled" /\ job[j].status # "new"
                 /\ ~(disp.pc = "start" /\ disp.kind = "without" /\ disp.cur = j)
        <4>1. twin'[j].status # "scheduled" /\ job'[j].status # "new" BY <3>2, <1>s DEF RowStep
        <4>2. \A i \in Jobs : TakenTwin(i) => i # j BY <3>2 DEF TakenTwin
        <4>3. ~(disp'.pc = "start" /\ disp'.kind = "without" /\ disp'.cur = j)
          BY <1>p, <3>2, <4>2 DEF PlaceStep, Moved, Choosing, Taken, TakenTwin, Called
        <4>. QED BY <2>3, <3>2, <4>1, <4>3
      <3>. QED BY <3>1, <3>2 DEF StartsRight
    <2>. QED BY <2>1, <2>2, <2>3 DEF RunStep, Ended
  <1>. QED BY <1>1, <1>2

LEMMA HeldInit == DispatchInit => Held /\ StartsRight
  <1> SUFFICES ASSUME DispatchInit PROVE Held /\ StartsRight OBVIOUS
  <1>1. Typed /\ ContractInv BY TypeInit, TypedIs, ContractInit
  <1>2. disp.pc = "idle" /\ disp.kind = "with" BY DEF DispatchInit, Idle
  <1>3. \A j \in Jobs : twin[j].status = "none" BY DEF DispatchInit, ServiceInit
  <1>4. \A k \in Kinds, j \in Jobs : prov[k][j].starts = 0 BY DEF DispatchInit
  <1>5. FreshRight BY DEF DispatchInit, ServiceInit, NoJob, NoReplan, FreshRight
  <1>. QED BY <1>1, <1>2, <1>3, <1>4, <1>5 DEF Held, TwinRight, PlaceRight, StartsRight, Kinds

LEMMA HeldSame == (Held /\ StartsRight) /\ UNCHANGED vars => (Held /\ StartsRight)'
  <1> SUFFICES ASSUME Held, StartsRight, UNCHANGED vars PROVE (Held /\ StartsRight)' OBVIOUS
  <1>1. Typed' BY DEF Held, Typed, vars
  <1>2. ContractInv' BY DEF Held, ContractInv, RowsRight, ReplanRight, TickRight, vars
  <1>3. TwinRight' /\ FreshRight' /\ PlaceRight' /\ StartsRight' BY DEF Held, TwinRight, FreshRight, PlaceRight, StartsRight, vars
  <1>. QED BY <1>1, <1>2, <1>3 DEF Held

(* The provider is asked for each run of a job at most once, over any number of crashes, failed calls and resets. *)
THEOREM NeverStartedTwice == Spec => []StartedOnce
  <1>1. DispatchInit => Held /\ StartsRight BY HeldInit
  <1>2. (Held /\ StartsRight) /\ [Next]_vars => (Held /\ StartsRight)' BY HeldStep, StartsStep, HeldSame
  <1>3. StartsRight => StartedOnce
    <2> SUFFICES ASSUME StartsRight, NEW k \in Kinds, NEW j \in Jobs PROVE prov[k][j].starts <= 1 BY DEF StartedOnce
    <2>. QED BY DEF StartsRight, Kinds
  <1>. QED BY <1>1, <1>2, <1>3, PTL DEF Spec

-----------------------------------------------------------------------------
(* No more runs than slots *)

(* The runs that a slot is kept for: chosen, but not claimed yet. *)
Chosen == IF disp.pc \in Choosing THEN disp.todo ELSE {}

Slots == Cardinality(RunningJobs) + Cardinality(RunningTwins) + Cardinality(Chosen)

LEMMA SlotsIs == (SlotsKept <=> Slots <= MAX_RUNNING) /\ (SlotsKept' <=> Slots' <= MAX_RUNNING)
  BY FS_EmptySet DEF SlotsKept, Slots, Chosen, Choosing

LEMMA SlotsFinite ==
    ASSUME Typed
    PROVE  /\ IsFiniteSet(RunningJobs) /\ IsFiniteSet(RunningTwins) /\ IsFiniteSet(Chosen)
           /\ Cardinality(RunningJobs) \in Nat /\ Cardinality(RunningTwins) \in Nat /\ Cardinality(Chosen) \in Nat
  <1>1. IsFiniteSet(Jobs) BY ServiceAssumption, RunningFinite
  <1>2. disp.todo \subseteq Jobs BY DEF Typed, DispType
  <1>3. RunningJobs \subseteq Jobs /\ RunningTwins \subseteq Jobs /\ Chosen \subseteq Jobs
    BY <1>2 DEF RunningJobs, RunningTwins, Chosen
  <1>4. IsFiniteSet(RunningJobs) /\ IsFiniteSet(RunningTwins) /\ IsFiniteSet(Chosen) BY <1>1, <1>3, FS_Subset
  <1>. QED BY <1>4, FS_CardinalityType

(* A query with a limit returns no more than the limit. *)
LEMMA FirstOfBound ==
    ASSUME NEW S, NEW n \in Nat, NEW key, NEW T \in FirstOf(S, n, key), IsFiniteSet(S)
    PROVE  Cardinality(T) <= n
  <1>1. Cardinality(T) = Earliest(n, Cardinality(S)) /\ Cardinality(S) \in Nat BY FS_CardinalityType DEF FirstOf
  <1>. QED BY <1>1 DEF Earliest

(* Runs are chosen for the free slots only. *)
LEMMA SlotsChosen ==
    ASSUME Typed, SlotsKept, SelectDue \/ SelectTwins
    PROVE  SlotsKept'
  <1>1. UNCHANGED <<job, twin>> BY DEF SelectDue, SelectTwins
  <1>2. RunningJobs' = RunningJobs /\ RunningTwins' = RunningTwins BY <1>1 DEF RunningJobs, RunningTwins
  <1>3. RunningCount \in Nat /\ Free \in Nat /\ (RunningCount <= MAX_RUNNING => RunningCount + Free <= MAX_RUNNING)
    BY SlotsFinite, DispatchAssumption DEF RunningCount, Free, Latest
  <1>4. RunningCount <= MAX_RUNNING BY SlotsIs, SlotsFinite, DispatchAssumption DEF RunningCount, Slots
  <1>5. disp'.pc = "claim" /\ Cardinality(disp'.todo) <= Free
    <2>d. disp \in DispType /\ IsFiniteSet(Jobs) BY ServiceAssumption, RunningFinite DEF Typed
    <2>1. CASE SelectDue
      <3> DEFINE due == {j \in Jobs : job[j].status = "scheduled" /\ job[j].win # NoStart /\ job[j].win <= disp.t}
      <3>1. PICK todo \in FirstOf(due, Free, [j \in Jobs |-> job[j].win]) : disp' = [disp EXCEPT !.pc = "claim", !.todo = todo]
        BY <2>1 DEF SelectDue
      <3>2. IsFiniteSet(due) BY <2>d, FS_Subset
      <3>3. Cardinality(todo) <= Free BY <1>3, <3>2, FirstOfBound
      <3>4. disp'.pc = "claim" /\ disp'.todo = todo BY <3>1, <2>d DEF DispType
      <3>. QED BY <3>3, <3>4
    <2>2. CASE SelectTwins
      <3> DEFINE due == {j \in Jobs : twin[j].status = "scheduled"}
      <3>1. PICK todo \in FirstOf(due, Free, [j \in Jobs |-> j]) :
               disp.pc = "claim" /\ disp' = [disp EXCEPT !.kind = "without", !.t = 0, !.todo = todo]
        BY <2>2 DEF SelectTwins
      <3>2. IsFiniteSet(due) BY <2>d, FS_Subset
      <3>3. Cardinality(todo) <= Free BY <1>3, <3>2, FirstOfBound
      <3>4. disp'.pc = "claim" /\ disp'.todo = todo BY <3>1, <2>d DEF DispType
      <3>. QED BY <3>3, <3>4
    <2>. QED BY <2>1, <2>2
  <1>6. Chosen' = disp'.todo BY <1>5 DEF Chosen, Choosing
  <1>7. Typed' BY FireTyped DEF FireStep
  <1>8. Cardinality(Chosen') \in Nat
    <2>1. disp'.todo \subseteq Jobs BY <1>7 DEF Typed, DispType
    <2>. QED BY <1>6, <2>1, ServiceAssumption, RunningFinite, FS_Subset, FS_CardinalityType
  <1>9. Slots' = RunningCount + Cardinality(Chosen') BY <1>2 DEF Slots, RunningCount
  <1>. QED BY <1>3, <1>4, <1>5, <1>6, <1>8, <1>9, SlotsIs, DispatchAssumption

LEMMA SlotsStep == Held /\ SlotsKept /\ Next => SlotsKept'
  <1> SUFFICES ASSUME Held, SlotsKept, Next PROVE SlotsKept' OBVIOUS
  <1>h. Typed /\ PlaceRight BY DEF Held
  <1>r. \A j \in Jobs : RowStep(j) BY RowSteps
  <1>p. PlaceStep BY <1>h, PlaceSteps
  <1>f. /\ IsFiniteSet(RunningJobs) /\ IsFiniteSet(RunningTwins) /\ IsFiniteSet(Chosen)
        /\ Cardinality(RunningJobs) \in Nat /\ Cardinality(RunningTwins) \in Nat /\ Cardinality(Chosen) \in Nat
    BY <1>h, SlotsFinite
  <1>s. Slots <= MAX_RUNNING /\ MAX_RUNNING \in Nat BY SlotsIs, DispatchAssumption
  <1>1. ASSUME NEW j \in Jobs, Taken(j) PROVE SlotsKept'
    <2>1. RunningTwins' \subseteq RunningTwins
      <3>1. UNCHANGED twin BY <1>1 DEF Taken, Claim
      <3>. QED BY <3>1 DEF RunningTwins
    <2>2. RunningJobs' \subseteq RunningJobs \cup {j} BY <1>1 DEF Taken, RunningJobs
    <2>3. Chosen' = Chosen \ {j} /\ j \in Chosen BY <1>1 DEF Taken, Chosen, Choosing
    <2>4. /\ IsFiniteSet(RunningJobs \cup {j}) /\ Cardinality(RunningJobs \cup {j}) <= Cardinality(RunningJobs) + 1
          /\ Cardinality(Chosen') = Cardinality(Chosen) - 1
      <3>1. /\ IsFiniteSet(RunningJobs \cup {j})
            /\ Cardinality(RunningJobs \cup {j}) = IF j \in RunningJobs THEN Cardinality(RunningJobs) ELSE Cardinality(RunningJobs) + 1
        BY <1>f, FS_AddElement
      <3>2. Cardinality(Chosen \ {j}) = Cardinality(Chosen) - 1 BY <1>f, <2>3, FS_RemoveElement
      <3>. QED BY <1>f, <2>3, <3>1, <3>2
    <2>5. Cardinality(RunningJobs') <= Cardinality(RunningJobs \cup {j}) /\ Cardinality(RunningTwins') <= Cardinality(RunningTwins)
      BY <1>f, <2>1, <2>2, <2>4, FS_Subset
    <2>6. Cardinality(RunningJobs') \in Nat /\ Cardinality(RunningTwins') \in Nat /\ Cardinality(RunningJobs \cup {j}) \in Nat
      BY <1>f, <2>1, <2>2, <2>4, FS_Subset, FS_CardinalityType
    <2>. QED BY <1>f, <1>s, <2>4, <2>5, <2>6, SlotsIs DEF Slots
  <1>2. ASSUME NEW j \in Jobs, TakenTwin(j) PROVE SlotsKept'
    <2>1. RunningJobs' \subseteq RunningJobs
      <3>1. UNCHANGED job BY <1>2 DEF TakenTwin, ClaimTwin
      <3>. QED BY <3>1 DEF RunningJobs
    <2>2. RunningTwins' \subseteq RunningTwins \cup {j} BY <1>2 DEF TakenTwin, RunningTwins
    <2>3. Chosen' = Chosen \ {j} /\ j \in Chosen BY <1>2 DEF TakenTwin, Chosen, Choosing
    <2>4. /\ IsFiniteSet(RunningTwins \cup {j}) /\ Cardinality(RunningTwins \cup {j}) <= Cardinality(RunningTwins) + 1
          /\ Cardinality(Chosen') = Cardinality(Chosen) - 1
      <3>1. /\ IsFiniteSet(RunningTwins \cup {j})
            /\ Cardinality(RunningTwins \cup {j}) = IF j \in RunningTwins THEN Cardinality(RunningTwins) ELSE Cardinality(RunningTwins) + 1
        BY <1>f, FS_AddElement
      <3>2. Cardinality(Chosen \ {j}) = Cardinality(Chosen) - 1 BY <1>f, <2>3, FS_RemoveElement
      <3>. QED BY <1>f, <2>3, <3>1, <3>2
    <2>5. Cardinality(RunningTwins') <= Cardinality(RunningTwins \cup {j}) /\ Cardinality(RunningJobs') <= Cardinality(RunningJobs)
      BY <1>f, <2>1, <2>2, <2>4, FS_Subset
    <2>6. Cardinality(RunningJobs') \in Nat /\ Cardinality(RunningTwins') \in Nat /\ Cardinality(RunningTwins \cup {j}) \in Nat
      BY <1>f, <2>1, <2>2, <2>4, FS_Subset, FS_CardinalityType
    <2>. QED BY <1>f, <1>s, <2>4, <2>5, <2>6, SlotsIs DEF Slots
  <1>3. CASE SelectDue \/ SelectTwins BY <1>h, <1>3, SlotsChosen
  <1>4. ASSUME \A j \in Jobs : ~Taken(j) /\ ~TakenTwin(j), ~(SelectDue \/ SelectTwins) PROVE SlotsKept'
    <2>1. RunningJobs' \subseteq RunningJobs
      <3>1. \A j \in Jobs : Claim(j) => UNCHANGED job BY <1>h, <1>4, ClaimTakes
      <3>2. \A j \in Jobs : job'[j].status = "running" => job[j].status = "running" \/ Claim(j) BY <1>r DEF RowStep
      <3>. QED BY <3>1, <3>2 DEF RunningJobs
    <2>2. RunningTwins' \subseteq RunningTwins
      <3>1. \A j \in Jobs : ClaimTwin(j) => UNCHANGED twin BY <1>h, <1>4, ClaimTwinTakes
      <3>2. \A j \in Jobs : twin'[j].status = "running" => twin[j].status = "running" \/ ClaimTwin(j) BY <1>r DEF RowStep
      <3>. QED BY <3>1, <3>2 DEF RunningTwins
    <2>3. Chosen' \subseteq Chosen BY <1>p, <1>4 DEF PlaceStep, Moved, Called, Chosen, Choosing
    <2>4. /\ Cardinality(RunningJobs') <= Cardinality(RunningJobs) /\ Cardinality(RunningTwins') <= Cardinality(RunningTwins)
          /\ Cardinality(Chosen') <= Cardinality(Chosen)
      BY <1>f, <2>1, <2>2, <2>3, FS_Subset
    <2>5. Cardinality(RunningJobs') \in Nat /\ Cardinality(RunningTwins') \in Nat /\ Cardinality(Chosen') \in Nat
      BY <1>f, <2>1, <2>2, <2>3, FS_Subset, FS_CardinalityType
    <2>. QED BY <1>f, <1>s, <2>4, <2>5, SlotsIs DEF Slots
  <1>. QED BY <1>1, <1>2, <1>3, <1>4

LEMMA SlotsInit == DispatchInit => SlotsKept
  <1> SUFFICES ASSUME DispatchInit PROVE SlotsKept OBVIOUS
  <1>1. RunningJobs = {} /\ RunningTwins = {} /\ Chosen = {}
    BY DEF DispatchInit, ServiceInit, NoJob, Idle, RunningJobs, RunningTwins, Chosen, Choosing
  <1>. QED BY <1>1, SlotsIs, FS_EmptySet, DispatchAssumption DEF Slots

(* Jobs and twins together never hold more than MAX_RUNNING slots, for any number of them, and those chosen but *)
(* not yet claimed count, whatever happens between the choice and the claim.                                     *)
THEOREM SlotsAreKept == Spec => []SlotsKept
  <1>1. DispatchInit => Held /\ StartsRight /\ SlotsKept BY HeldInit, SlotsInit
  <1>2. (Held /\ StartsRight /\ SlotsKept) /\ [Next]_vars => (Held /\ StartsRight /\ SlotsKept)'
    <2>1. SlotsKept /\ UNCHANGED vars => SlotsKept' BY DEF SlotsKept, RunningJobs, RunningTwins, vars
    <2>. QED BY <2>1, HeldStep, StartsStep, HeldSame, SlotsStep
  <1>. QED BY <1>1, <1>2, PTL DEF Spec

-----------------------------------------------------------------------------
(* The provider's sessions are bounded, though no row of ours bounds them *)

RowOf(k, j) == IF k = "with" THEN job[j] ELSE twin[j]
Starting(k, j) == disp.pc \in {"start", "save"} /\ disp.kind = k /\ disp.cur = j

(* A run that is live, or about to be asked for. *)
Due(k, j) == prov[k][j].st = "live" \/ (disp.pc = "start" /\ disp.kind = k /\ disp.cur = j)

(* A row that holds a slot and that no tick gives up: it has its handle, or the handle is on its way. *)
InSlot(k, j) ==
    /\ RowOf(k, j).status = "running"
    /\ IF Starting(k, j) THEN disp.pc = "start" \/ disp.got ELSE RowOf(k, j).ref

(* The runs that no slot answers for any more.  Every incident may add those that held one. *)
Strays == {s \in Kinds \X Jobs : Due(s[1], s[2]) /\ ~InSlot(s[1], s[2])}
StraysBounded == Cardinality(Strays) <= MAX_RUNNING * spent

(* A run that was never asked for is none; a job that is deleted has no twin. *)
NotAsked == \A k \in Kinds, j \in Jobs : prov[k][j].starts = 0 => prov[k][j].st = "none"
TwinGone == \A j \in Jobs : job[j].status = "deleted" => twin[j].status = "none"

SessionsInv == NotAsked /\ TwinGone /\ SlotsKept /\ StraysBounded

LEMMA NotAskedStep == Held /\ NotAsked /\ Next => NotAsked'
  <1> SUFFICES ASSUME Held, NotAsked, Next, NEW k \in Kinds, NEW j \in Jobs, prov'[k][j].starts = 0
               PROVE  prov'[k][j].st = "none"
    BY DEF NotAsked
  <1>1. RunStep(k, j) BY RunSteps DEF Held
  <1>2. ~StartedHere(k, j)
    <2>1. prov[k][j].starts \in Nat BY DEF Held, Typed, ProvType, Run
    <2>. QED BY <2>1 DEF StartedHere
  <1>. QED BY <1>1, <1>2 DEF RunStep, Ended, NotAsked

(* Only the demo's reset deletes, and it deletes the twins as well. *)
LEMMA TwinGoneStep == Held /\ TwinGone /\ Next => TwinGone'
  <1> SUFFICES ASSUME Held, TwinGone, Next, NEW j \in Jobs, job'[j].status = "deleted" PROVE twin'[j].status = "none"
    BY DEF TwinGone
  <1>h. Typed /\ ContractInv BY DEF Held
  <1>d. job \in [Jobs -> Job] /\ twin \in [Jobs -> Twin] /\ job[j] \in Job /\ twin[j] \in Twin
    BY <1>h DEF Typed, JobsType, TwinsType
  <1>same. ASSUME job'[j] = job[j], twin'[j] = twin[j] PROVE twin'[j].status = "none" BY <1>same DEF TwinGone
  <1>1. CASE UNCHANGED <<job, twin>> BY <1>1, <1>same
  <1>2. CASE TickBegin
    <2>1. UNCHANGED twin /\ job'[j] \in {job[j], [job[j] EXCEPT !.status = "failed"]} BY <1>2 DEF TickBegin, Expired
    <2>2. [job[j] EXCEPT !.status = "failed"].status = "failed" BY <1>d DEF Job
    <2>. QED BY <2>1, <2>2, <1>same
  <1>3. ASSUME NEW i \in Jobs, Claim(i) PROVE twin'[j].status = "none"
    <2>1. UNCHANGED twin BY <1>3 DEF Claim
    <2>2. job'[j] = job[j] \/ job'[j].status = "running" BY <1>3, <1>h, ClaimTakes DEF Taken
    <2>. QED BY <2>1, <2>2, <1>same
  <1>4. ASSUME NEW i \in Jobs, ClaimTwin(i) PROVE twin'[j].status = "none"
    <2>1. UNCHANGED job BY <1>4 DEF ClaimTwin
    <2>2. twin[j].status = "none" BY <2>1 DEF TwinGone
    <2>3. twin'[j] = twin[j] BY <1>4, <1>h, <2>2, ClaimTwinTakes DEF TakenTwin
    <2>. QED BY <2>2, <2>3
  <1>5. CASE Save
    <2>1. CASE UNCHANGED twin
      <3>1. job' = job \/ job' = [job EXCEPT ![disp.cur] = Saved(job[disp.cur])] BY <1>5 DEF Save
      <3>2. job'[j] \in {job[j], Saved(job[j])} BY <3>1, <1>d
      <3>3. Saved(job[j]).status \in {job[j].status, "failed"} BY <1>d DEF Saved, Job
      <3>4. job[j].status = "deleted" BY <3>2, <3>3
      <3>. QED BY <2>1, <3>4 DEF TwinGone
    <2>2. CASE UNCHANGED job /\ twin' = [twin EXCEPT ![disp.cur] = Saved(twin[disp.cur])] /\ job[disp.cur].status # "deleted"
      <3>1. j # disp.cur BY <2>2
      <3>. QED BY <2>2, <3>1, <1>d, <1>same
    <2>. QED BY <1>5, <2>1, <2>2 DEF Save
  <1>6. ASSUME NEW i \in Jobs, Poll(i) PROVE twin'[j].status = "none"
    <2>1. UNCHANGED twin BY <1>6 DEF Poll
    <2>2. job' = job \/ \E st \in {"failed", "done"} : job' = [job EXCEPT ![i] = [job[i] EXCEPT !.status = st]]
      BY <1>6 DEF Poll, NotFound, Resolved
    <2>3. job'[j] = job[j] \/ \E st \in {"failed", "done"} : job'[j] = [job[j] EXCEPT !.status = st] BY <2>2, <1>d
    <2>4. \A st \in {"failed", "done"} : [job[j] EXCEPT !.status = st].status = st BY <1>d DEF Job
    <2>. QED BY <2>1, <2>3, <2>4, <1>same
  <1>7. ASSUME NEW i \in Jobs, PollTwin(i) PROVE twin'[j].status = "none"
    <2>1. UNCHANGED job BY <1>7 DEF PollTwin
    <2>2. twin' = twin \/ (job[i].status # "deleted" /\ \E st : twin' = [twin EXCEPT ![i] = [twin[i] EXCEPT !.status = st]])
      BY <1>7 DEF PollTwin
    <2>3. twin'[j] = twin[j] BY <2>1, <2>2, <1>d
    <2>. QED BY <2>1, <2>3, <1>same
  <1>8. ASSUME NEW i \in Jobs, NEW req \in Requests, NEW at \in Readings, Submit(i, req, at) PROVE twin'[j].status = "none"
    <2>1. i # j BY <1>8, <1>d DEF Submit
    <2>. QED BY <1>8, <2>1, <1>d, <1>same DEF Submit
  <1>9. CASE ReplanWrite
    <2>1. UNCHANGED twin /\ (job'[j] = job[j] \/ job'[j] = Flushed(j)) BY <1>9 DEF ReplanWrite
    <2>2. Flushed(j).status \in {job[j].status, "scheduled"} BY <1>d DEF Flushed, Job
    <2>3. job[j].status = "deleted" BY <2>1, <2>2
    <2>. QED BY <2>1, <2>3 DEF TwinGone
  <1>10. CASE Restart
    <2>1. UNCHANGED twin /\ job'[j] = RecoveredRow(job[j]) BY <1>10 DEF Restart
    <2>2. RecoveredRow(job[j]).status \in {job[j].status, "failed"} BY <1>d DEF RecoveredRow, Job
    <2>. QED BY <2>1, <2>2 DEF TwinGone
  <1>11. ASSUME NEW reset \in BOOLEAN, DemoReplay(reset) PROVE twin'[j].status = "none"
    BY <1>1, <1>11 DEF DemoReplay
  <1>. QED BY <1>1, <1>2, <1>3, <1>4, <1>5, <1>6, <1>7, <1>8, <1>9, <1>10, <1>11, RowsMove

(* A run that is due is one that was due before, or one that the tick has just claimed; and as long as it is due, *)
(* its row keeps the slot, unless something fails.                                                                *)
LEMMA StraySteps ==
    ASSUME Held, StartsRight, NotAsked, TwinGone, Next, NEW k \in Kinds, NEW j \in Jobs, Due(k, j)', ~InSlot(k, j)'
    PROVE  Due(k, j) /\ (InSlot(k, j) => spent' = spent + 1)
  <1>h. Typed /\ ContractInv /\ TwinRight /\ PlaceRight BY DEF Held
  <1>d. /\ job \in [Jobs -> Job] /\ twin \in [Jobs -> Twin] /\ job[j] \in Job /\ twin[j] \in Twin
        /\ disp \in DispType /\ prov \in [Kinds -> [Jobs -> Run]]
    BY <1>h DEF Typed, JobsType, TwinsType, ProvType
  <1>p. PlaceStep BY <1>h, PlaceSteps
  <1>k. k = "with" \/ k = "without" BY DEF Kinds
  <1>a. Due(k, j)
    <2>1. RunStep(k, j) BY <1>h, RunSteps
    <2>2. CASE prov'[k][j].st = "live" BY <2>1, <2>2 DEF RunStep, StartedHere, Ended, Due
    <2>3. CASE disp'.pc = "start" /\ disp'.kind = k /\ disp'.cur = j
      <3>1. CASE disp' = disp BY <2>3, <3>1 DEF Due
      <3>2. ASSUME NEW i \in Jobs, Taken(i) PROVE FALSE
        BY <2>3, <3>2, <1>k DEF Taken, InSlot, RowOf, Starting
      <3>3. ASSUME NEW i \in Jobs, TakenTwin(i) PROVE FALSE
        BY <2>3, <3>3, <1>k DEF TakenTwin, InSlot, RowOf, Starting
      <3>. QED BY <2>3, <3>1, <3>2, <3>3, <1>p DEF PlaceStep, Moved, Called
    <2>. QED BY <2>2, <2>3 DEF Due
  <1>b. ASSUME InSlot(k, j), spent' # spent + 1 PROVE FALSE
    <2>r. RowOf(k, j).status = "running" BY <1>b DEF InSlot
    <2>n. (k = "without" => job[j].status \notin {"new", "deleted"}) BY <2>r, <1>h DEF RowOf, TwinRight, TwinGone
    \* The row as it was, and the tick not at it.
    <2>row. ASSUME job'[j] = job[j] \/ k = "without", twin'[j] = twin[j] \/ k = "with" PROVE RowOf(k, j)' = RowOf(k, j)
      BY <2>row, <1>k DEF RowOf
    <2>off. ASSUME RowOf(k, j)'.status = "running", RowOf(k, j)'.ref = RowOf(k, j).ref, ~Starting(k, j), ~Starting(k, j)' PROVE FALSE
      BY <2>off, <1>b DEF InSlot
    <2>on. ASSUME RowOf(k, j)'.status = "running", RowOf(k, j)'.ref = RowOf(k, j).ref, UNCHANGED disp PROVE FALSE
      BY <2>on, <1>b DEF InSlot, Starting
    <2>1. CASE TickBegin
      <3>1. job'[j] = job[j] \/ k = "without"
        <4>1. job'[j] = job[j] \/ job[j].status \in Waiting BY <2>1 DEF TickBegin, Expired
        <4>. QED BY <4>1, <2>r, <1>k DEF Waiting, RowOf
      <3>2. RowOf(k, j)' = RowOf(k, j) BY <2>1, <3>1, <2>row DEF TickBegin
      <3>3. disp.pc = "idle" /\ disp'.pc = "due" BY <2>1 DEF TickBegin, Idle
      <3>. QED BY <3>2, <3>3, <2>r, <2>off DEF Starting
    <2>2. CASE SelectDue \/ SelectTwins \/ SelectRunning \/ SelectRunningTwins \/ TickEnd
      <3>1. UNCHANGED <<job, twin>> /\ disp.pc \notin {"start", "save"}
        BY <2>2 DEF SelectDue, SelectTwins, SelectRunning, SelectRunningTwins, TickEnd
      <3>2. disp'.pc \notin {"start", "save"}
        <4>1. disp' # disp => Moved
          BY <2>2, <1>p DEF PlaceStep, Taken, TakenTwin, Called, Claim, ClaimTwin, SelectDue, SelectTwins, SelectRunning,
                            SelectRunningTwins, TickEnd
        <4>. QED BY <3>1, <4>1 DEF Moved
      <3>3. RowOf(k, j)' = RowOf(k, j) BY <3>1, <2>row
      <3>. QED BY <3>1, <3>2, <3>3, <2>r, <2>off DEF Starting
    <2>3. CASE Start
      <3>1. UNCHANGED <<job, twin>> /\ disp.pc = "start" BY <2>3 DEF Start
      <3>2. RowOf(k, j)' = RowOf(k, j) BY <3>1, <2>row
      <3>3. CASE ~(disp.kind = k /\ disp.cur = j)
        <4>1. disp' = Idle \/ (disp'.kind = disp.kind /\ disp'.cur = disp.cur) BY <2>3, <1>d DEF Start, Abort, DispType
        <4>. QED BY <3>2, <3>3, <4>1, <2>r, <2>off DEF Starting, Idle
      <3>4. CASE disp.kind = k /\ disp.cur = j
        <4>1. CASE disp' = [disp EXCEPT !.pc = "save", !.got = TRUE]
          <5>1. disp'.pc = "save" /\ disp'.got /\ Starting(k, j)' BY <4>1, <3>4, <1>d DEF DispType, Starting
          <5>. QED BY <5>1, <3>2, <2>r DEF InSlot
        <4>2. CASE Incident("start") BY <4>2, <1>b DEF Incident
        <4>3. CASE disp' = [disp EXCEPT !.pc = "save", !.got = FALSE] /\ UNCHANGED prov
          <5>1. disp'.pc = "save" BY <4>3, <1>d DEF DispType
          <5>2. prov[k][j].st = "live" BY <4>3, <5>1 DEF Due
          <5>3. prov[k][j].starts # 0 BY <5>2 DEF NotAsked
          <5>. QED BY <3>1, <3>4, <5>3, <1>k DEF StartsRight
        <4>4. job[j].status # "deleted" BY <2>r, <2>n, <1>k DEF RowOf
        <4>. QED BY <2>3, <3>4, <4>1, <4>2, <4>3, <4>4 DEF Start
      <3>. QED BY <3>3, <3>4
    <2>4. CASE Save
      <3>1. disp.pc = "save" /\ disp'.pc \in {"claim", "idle"}
        <4>1. disp.pc = "save" /\ (disp' = Idle \/ disp' = [disp EXCEPT !.pc = "claim", !.cur = 0, !.got = FALSE])
          BY <2>4 DEF Save, Abort
        <4>2. Idle.pc = "idle" /\ [disp EXCEPT !.pc = "claim", !.cur = 0, !.got = FALSE].pc = "claim"
          BY <1>d DEF Idle, DispType
        <4>. QED BY <4>1, <4>2
      <3>2. ~Starting(k, j)' BY <3>1 DEF Starting
      <3>3. CASE ~Starting(k, j)
        <4>1. job'[j] = job[j] \/ k = "without" BY <2>4, <3>1, <3>3, <1>d, <1>k DEF Save, Starting, DispType, Kinds
        <4>2. twin'[j] = twin[j] \/ k = "with" BY <2>4, <3>1, <3>3, <1>d, <1>k DEF Save, Starting, DispType, Kinds
        <4>. QED BY <4>1, <4>2, <3>2, <3>3, <2>r, <2>row, <2>off
      <3>4. CASE Starting(k, j)
        <4>1. disp.got /\ disp.kind = k /\ disp.cur = j BY <1>b, <3>1, <3>4 DEF InSlot, Starting
        <4>2. job[j].status # "deleted" BY <2>r, <2>n, <1>k DEF RowOf
        <4>3. CASE k = "with"
          <5>1. job'[j] = [job[j] EXCEPT !.ref = TRUE] BY <2>4, <4>1, <4>2, <4>3, <1>d DEF Save, Saved
          <5>2. job'[j].status = job[j].status /\ job'[j].ref BY <5>1, <1>d DEF Job
          <5>. QED BY <5>2, <4>3, <3>2, <2>r DEF InSlot, RowOf
        <4>4. CASE k = "without"
          <5>1. twin'[j] = [twin[j] EXCEPT !.ref = TRUE] BY <2>4, <4>1, <4>2, <4>4, <1>d DEF Save, Saved
          <5>2. twin'[j].status = twin[j].status /\ twin'[j].ref BY <5>1, <1>d DEF Twin
          <5>. QED BY <5>2, <4>4, <3>2, <2>r DEF InSlot, RowOf
        <4>. QED BY <4>3, <4>4, <1>k
      <3>. QED BY <3>3, <3>4
    <2>5. ASSUME NEW i \in Jobs, Claim(i) \/ ClaimTwin(i) PROVE FALSE
      <3>1. disp.pc = "claim" BY <2>5 DEF Claim, ClaimTwin
      <3>2. disp'.pc = "claim" \/ Taken(i) \/ TakenTwin(i)
        BY <2>5, <3>1, <1>h, <1>d, ClaimTakes, ClaimTwinTakes DEF DispType
      <3>3. ~Starting(k, j)' BY <3>2, <2>r, <1>k DEF Starting, Taken, TakenTwin, RowOf
      <3>4. job'[j] = job[j] \/ k = "without"
        BY <2>5, <2>r, <1>h, <1>k, ClaimTakes DEF Taken, ClaimTwin, RowOf
      <3>5. twin'[j] = twin[j] \/ k = "with"
        BY <2>5, <2>r, <1>h, <1>k, ClaimTwinTakes DEF TakenTwin, Claim, RowOf
      <3>. QED BY <3>1, <3>3, <3>4, <3>5, <2>r, <2>row, <2>off DEF Starting
    <2>6. ASSUME NEW i \in Jobs, Poll(i) \/ PollTwin(i) PROVE FALSE
      <3>1. disp.pc = "poll" /\ disp'.pc \in {"poll", "idle"}
        BY <2>6, <1>d DEF Poll, PollTwin, Passed, Abort, Idle, DispType
      <3>2. UNCHANGED prov /\ prov[k][j].st = "live"
        <4>1. UNCHANGED prov BY <2>6 DEF Poll, PollTwin
        <4>. QED BY <4>1, <3>1 DEF Due
      <3>3. job'[j] = job[j] \/ k = "without"
        <4>1. CASE i = j /\ k = "with"
          <5>1. UNCHANGED job BY <2>6, <3>2, <4>1, <1>b DEF Poll, PollTwin, Incident
          <5>. QED BY <5>1
        <4>2. CASE i # j
          <5>1. job' = job \/ \E row : job' = [job EXCEPT ![i] = row] BY <2>6 DEF Poll, PollTwin, NotFound, Resolved
          <5>. QED BY <5>1, <4>2, <1>d
        <4>. QED BY <4>1, <4>2, <1>k
      <3>4. twin'[j] = twin[j] \/ k = "with"
        <4>1. CASE i = j /\ k = "without"
          <5>1. UNCHANGED twin BY <2>6, <3>2, <4>1 DEF Poll, PollTwin
          <5>. QED BY <5>1
        <4>2. CASE i # j
          <5>1. twin' = twin \/ \E row : twin' = [twin EXCEPT ![i] = row] BY <2>6 DEF Poll, PollTwin
          <5>. QED BY <5>1, <4>2, <1>d
        <4>. QED BY <4>1, <4>2, <1>k
      <3>. QED BY <3>1, <3>3, <3>4, <2>r, <2>row, <2>off DEF Starting
    <2>7. CASE ServiceStep
      <3>1. UNCHANGED disp BY <2>7 DEF ServiceStep, dispatchVars
      <3>2. ASSUME NEW i \in Jobs, NEW req \in Requests, NEW at \in Readings, Submit(i, req, at) PROVE FALSE
        <4>1. i # j BY <3>2, <2>r, <2>n, <1>k DEF Submit, RowOf
        <4>2. job'[j] = job[j] /\ twin'[j] = twin[j] BY <3>2, <4>1, <1>d DEF Submit
        <4>. QED BY <4>2, <3>1, <2>r, <2>row, <2>on
      <3>3. CASE ReplanWrite
        <4>1. UNCHANGED twin /\ (job'[j] = job[j] \/ job'[j] = Flushed(j)) /\ replan.on BY <3>3 DEF ReplanWrite
        <4>2. k = "with" => j \notin replan.place BY <4>1, <2>r, <1>h DEF ContractInv, ReplanRight, RowOf
        <4>3. k = "with" => job'[j].status = job[j].status /\ job'[j].ref = job[j].ref
          BY <4>1, <4>2, <1>d DEF Flushed, Job
        <4>4. RowOf(k, j)'.status = "running" /\ RowOf(k, j)'.ref = RowOf(k, j).ref BY <4>1, <4>3, <2>r, <1>k DEF RowOf
        <4>. QED BY <4>4, <3>1, <2>on
      <3>4. CASE UNCHANGED <<job, twin>> BY <3>1, <3>4, <2>r, <2>row, <2>on
      <3>. QED BY <2>7, <3>2, <3>3, <3>4 DEF ServiceStep, create_job, ReplanRead, Ingest, Tick
    <2>8. CASE Crash \/ TickAborts \/ DemoLive \/ (\E reset \in BOOLEAN : DemoReplay(reset))
      BY <2>8, <1>b DEF Crash, TickAborts, DemoLive, DemoReplay, TurnClock, Incident
    <2>9. CASE ARunEnds
      <3>1. UNCHANGED <<disp, job, twin>> BY <2>9 DEF ARunEnds, RunEnds
      <3>. QED BY <3>1, <2>r, <2>row, <2>on
    <2>10. CASE Restart
      <3>1. disp.pc = "down" /\ disp'.pc = "idle" /\ UNCHANGED twin /\ job'[j] = RecoveredRow(job[j])
        BY <2>10 DEF Restart, Idle
      <3>2. RowOf(k, j).ref BY <3>1, <1>b DEF InSlot, Starting
      <3>3. job'[j] = job[j] \/ k = "without" BY <3>1, <3>2, <1>k DEF RecoveredRow, RowOf
      <3>. QED BY <3>1, <3>3, <2>r, <2>row, <2>off DEF Starting
    <2>. QED BY <2>1, <2>2, <2>3, <2>4, <2>5, <2>6, <2>7, <2>8, <2>9, <2>10 DEF Next, FireStep, PollStep
  <1>. QED BY <1>a, <1>b

(* Incidents are counted one by one. *)
LEMMA SpentSteps == Next => spent' = spent \/ spent' = spent + 1
  <1> SUFFICES ASSUME Next PROVE spent' = spent \/ spent' = spent + 1 OBVIOUS
  <1>1. CASE FireStep
    BY <1>1 DEF FireStep, TickBegin, SelectDue, SelectTwins, Start, Save, Claim, ClaimTwin, Incident
  <1>2. CASE PollStep BY <1>2 DEF PollStep, SelectRunning, SelectRunningTwins, TickEnd, Poll, PollTwin, Incident
  <1>3. CASE ServiceStep BY <1>3 DEF ServiceStep, dispatchVars
  <1>4. CASE Upset
    BY <1>4 DEF Upset, Crash, Restart, TickAborts, ARunEnds, RunEnds, DemoReplay, DemoLive, TurnClock, Incident
  <1>. QED BY <1>1, <1>2, <1>3, <1>4 DEF Next, Upset

(* The runs whose rows hold a slot. *)
SlotRuns == ({"with"} \X RunningJobs) \cup ({"without"} \X RunningTwins)

LEMMA SlotRunsBounded ==
    ASSUME Typed, SlotsKept
    PROVE  /\ IsFiniteSet(SlotRuns) /\ Cardinality(SlotRuns) \in Nat /\ Cardinality(SlotRuns) <= MAX_RUNNING
           /\ \A k \in Kinds, j \in Jobs : RowOf(k, j).status = "running" => <<k, j>> \in SlotRuns
  <1>f. /\ IsFiniteSet(RunningJobs) /\ IsFiniteSet(RunningTwins)
        /\ Cardinality(RunningJobs) \in Nat /\ Cardinality(RunningTwins) \in Nat /\ Cardinality(Chosen) \in Nat
    BY SlotsFinite
  <1> DEFINE A == {"with"} \X RunningJobs
             B == {"without"} \X RunningTwins
  <1>1. IsFiniteSet(A) /\ Cardinality(A) = Cardinality(RunningJobs)
    <2>1. IsFiniteSet({"with"}) /\ Cardinality({"with"}) = 1 BY FS_Singleton
    <2>2. IsFiniteSet(A) /\ Cardinality(A) = Cardinality({"with"}) * Cardinality(RunningJobs) BY <1>f, <2>1, FS_Product
    <2>. QED BY <1>f, <2>1, <2>2
  <1>2. IsFiniteSet(B) /\ Cardinality(B) = Cardinality(RunningTwins)
    <2>1. IsFiniteSet({"without"}) /\ Cardinality({"without"}) = 1 BY FS_Singleton
    <2>2. IsFiniteSet(B) /\ Cardinality(B) = Cardinality({"without"}) * Cardinality(RunningTwins) BY <1>f, <2>1, FS_Product
    <2>. QED BY <1>f, <2>1, <2>2
  <1>3. A \cap B = {} BY Zenon
  <1>4. IsFiniteSet(A \cup B) /\ Cardinality(A \cup B) = Cardinality(A) + Cardinality(B) - Cardinality(A \cap B)
    BY <1>1, <1>2, FS_Union
  <1>5. Cardinality(A \cap B) = 0 BY <1>3, FS_EmptySet
  <1>6. Cardinality(SlotRuns) = Cardinality(RunningJobs) + Cardinality(RunningTwins)
    BY <1>f, <1>1, <1>2, <1>4, <1>5 DEF SlotRuns
  <1>7. Slots <= MAX_RUNNING BY SlotsIs
  <1>8. \A k \in Kinds, j \in Jobs : RowOf(k, j).status = "running" => <<k, j>> \in SlotRuns
    BY DEF RowOf, Kinds, SlotRuns, RunningJobs, RunningTwins
  <1>. QED BY <1>f, <1>4, <1>6, <1>7, <1>8, DispatchAssumption DEF SlotRuns, Slots

LEMMA RunsFinite ==
    ASSUME NEW S \in SUBSET (Kinds \X Jobs)
    PROVE  IsFiniteSet(S) /\ Cardinality(S) \in Nat
  <1>1. IsFiniteSet(Jobs) BY ServiceAssumption, RunningFinite
  <1>2. IsFiniteSet(Kinds)
    <2>1. IsFiniteSet({"with"}) BY FS_Singleton
    <2>2. IsFiniteSet({"with"} \cup {"without"}) BY <2>1, FS_AddElement
    <2>3. Kinds = {"with"} \cup {"without"} BY DEF Kinds
    <2>. QED BY <2>2, <2>3
  <1>3. IsFiniteSet(Kinds \X Jobs) BY <1>1, <1>2, FS_Product
  <1>. QED BY <1>3, FS_Subset, FS_CardinalityType

LEMMA OneMore == \A n, s \in Nat : n * (s + 1) = n * s + n /\ n * (1 + s) = n * s + n
  OBVIOUS

LEMMA StraysStep == Held /\ StartsRight /\ SessionsInv /\ Next => StraysBounded'
  <1> SUFFICES ASSUME Held, StartsRight, NotAsked, TwinGone, SlotsKept, StraysBounded, Next PROVE StraysBounded'
    BY DEF SessionsInv
  <1>h. Typed BY DEF Held
  <1>f. /\ IsFiniteSet(Strays) /\ Cardinality(Strays) \in Nat /\ Strays' \in SUBSET (Kinds \X Jobs)
        /\ Cardinality(Strays') \in Nat
    <2>1. Strays \in SUBSET (Kinds \X Jobs) /\ Strays' \in SUBSET (Kinds \X Jobs) BY DEF Strays
    <2>. QED BY <2>1, RunsFinite
  <1>s. spent \in Nat /\ MAX_RUNNING \in Nat BY <1>h, DispatchAssumption DEF Typed
  <1>x. \A k \in Kinds, j \in Jobs : <<k, j>> \in Strays' =>
            /\ Due(k, j) /\ (InSlot(k, j) => spent' = spent + 1)
            /\ ~InSlot(k, j) => <<k, j>> \in Strays
    <2> SUFFICES ASSUME NEW k \in Kinds, NEW j \in Jobs, <<k, j>> \in Strays'
                 PROVE  /\ Due(k, j) /\ (InSlot(k, j) => spent' = spent + 1)
                        /\ ~InSlot(k, j) => <<k, j>> \in Strays
      OBVIOUS
    <2>1. Due(k, j)' /\ ~InSlot(k, j)' BY DEF Strays
    <2>2. Due(k, j) /\ (InSlot(k, j) => spent' = spent + 1) BY <2>1, StraySteps
    <2>. QED BY <2>2 DEF Strays
  <1>1. CASE spent' = spent + 1
    <2>1. /\ IsFiniteSet(SlotRuns) /\ Cardinality(SlotRuns) \in Nat /\ Cardinality(SlotRuns) <= MAX_RUNNING
          /\ \A k \in Kinds, j \in Jobs : RowOf(k, j).status = "running" => <<k, j>> \in SlotRuns
      BY <1>h, SlotRunsBounded
    <2>2. Strays' \in SUBSET (Strays \cup SlotRuns)
      <3> SUFFICES ASSUME NEW k \in Kinds, NEW j \in Jobs, <<k, j>> \in Strays' PROVE <<k, j>> \in Strays \cup SlotRuns
        BY <1>f
      <3>1. CASE InSlot(k, j) BY <2>1, <3>1 DEF InSlot
      <3>. QED BY <1>x, <3>1
    <2>3. Cardinality(Strays') <= Cardinality(Strays) + Cardinality(SlotRuns) BY <1>f, <2>1, <2>2, UnionBound
    <2>4. Cardinality(Strays) <= MAX_RUNNING * spent BY DEF StraysBounded
    <2>5. MAX_RUNNING * (spent + 1) = MAX_RUNNING * spent + MAX_RUNNING /\ MAX_RUNNING * spent \in Nat BY <1>s, OneMore
    <2>6. Cardinality(Strays') <= MAX_RUNNING * (spent + 1) BY <1>f, <1>s, <2>1, <2>3, <2>4, <2>5
    <2>. QED BY <1>1, <2>6 DEF StraysBounded
  <1>2. CASE spent' = spent
    <2>1. \A k \in Kinds, j \in Jobs : <<k, j>> \in Strays' => <<k, j>> \in Strays BY <1>x, <1>2, <1>s
    <2>2. Strays' \subseteq Strays BY <1>f, <2>1
    <2>3. Cardinality(Strays') <= Cardinality(Strays) BY <1>f, <2>2, FS_Subset
    <2>4. MAX_RUNNING * spent \in Nat BY <1>s
    <2>5. Cardinality(Strays') <= MAX_RUNNING * spent BY <1>f, <2>3, <2>4 DEF StraysBounded
    <2>. QED BY <1>2, <2>5 DEF StraysBounded
  <1>. QED BY <1>1, <1>2, SpentSteps

(* The GPU sessions the provider has open are as many as there are slots, and those once more for every incident, for *)
(* any number of jobs: no crash, failed call or reset costs more than the runs that held a slot when it came.          *)
THEOREM SessionsAreKept == Spec => []SessionsKept
  <1>1. DispatchInit => Held /\ StartsRight /\ SessionsInv
    <2> SUFFICES ASSUME DispatchInit PROVE SessionsInv BY HeldInit
    <2>1. NotAsked /\ TwinGone BY DEF DispatchInit, ServiceInit, NoJob, NotAsked, TwinGone
    <2>2. Strays = {} BY DEF DispatchInit, Idle, Strays, Due
    <2>3. StraysBounded
      <3>1. MAX_RUNNING * 0 = 0 BY DispatchAssumption
      <3>. QED BY <2>2, <3>1, FS_EmptySet DEF StraysBounded, DispatchInit
    <2>. QED BY <2>1, <2>3, SlotsInit DEF SessionsInv
  <1>2. (Held /\ StartsRight /\ SessionsInv) /\ [Next]_vars => (Held /\ StartsRight /\ SessionsInv)'
    <2>1. SessionsInv /\ UNCHANGED vars => SessionsInv'
      <3> SUFFICES ASSUME SessionsInv, UNCHANGED vars PROVE SessionsInv' OBVIOUS
      <3>1. Strays' = Strays BY DEF Strays, Due, InSlot, RowOf, Starting, vars
      <3>2. SlotsKept' BY DEF SessionsInv, SlotsKept, RunningJobs, RunningTwins, vars
      <3>. QED BY <3>1, <3>2 DEF SessionsInv, NotAsked, TwinGone, StraysBounded, vars
    <2>2. Held /\ StartsRight /\ SessionsInv /\ Next => SessionsInv'
      BY NotAskedStep, TwinGoneStep, SlotsStep, StraysStep DEF SessionsInv
    <2>. QED BY <2>1, <2>2, HeldStep, StartsStep, HeldSame
  <1>3. Held /\ SessionsInv => SessionsKept
    <2> SUFFICES ASSUME Typed, SessionsInv PROVE SessionsKept BY DEF Held
    <2>f. /\ IsFiniteSet(Strays) /\ Cardinality(Strays) \in Nat /\ Sessions \in SUBSET (Kinds \X Jobs)
          /\ Cardinality(Sessions) \in Nat
      <3>1. Strays \in SUBSET (Kinds \X Jobs) /\ Sessions \in SUBSET (Kinds \X Jobs) BY DEF Strays, Sessions
      <3>. QED BY <3>1, RunsFinite
    <2>1. /\ IsFiniteSet(SlotRuns) /\ Cardinality(SlotRuns) \in Nat /\ Cardinality(SlotRuns) <= MAX_RUNNING
          /\ \A k \in Kinds, j \in Jobs : RowOf(k, j).status = "running" => <<k, j>> \in SlotRuns
      BY SlotRunsBounded DEF SessionsInv
    <2>2. Sessions \in SUBSET (Strays \cup SlotRuns)
      <3> SUFFICES ASSUME NEW k \in Kinds, NEW j \in Jobs, <<k, j>> \in Sessions PROVE <<k, j>> \in Strays \cup SlotRuns
        BY <2>f
      <3>1. CASE InSlot(k, j) BY <2>1, <3>1 DEF InSlot
      <3>2. CASE ~InSlot(k, j) BY <3>2 DEF Strays, Sessions, Due
      <3>. QED BY <3>1, <3>2
    <2>3. Cardinality(Sessions) <= Cardinality(Strays) + Cardinality(SlotRuns) BY <2>f, <2>1, <2>2, UnionBound
    <2>s. spent \in Nat /\ MAX_RUNNING \in Nat BY DispatchAssumption DEF Typed
    <2>4. MAX_RUNNING * (1 + spent) = MAX_RUNNING * spent + MAX_RUNNING /\ MAX_RUNNING * spent \in Nat BY <2>s, OneMore
    <2>. QED BY <2>f, <2>s, <2>1, <2>3, <2>4 DEF SessionsKept, SessionsInv, StraysBounded
  <1>. QED BY <1>1, <1>2, <1>3, PTL DEF Spec

-----------------------------------------------------------------------------
(* Windows lie before their deadlines *)

(* What a re-plan is about to write fits as well. *)
ReplanFits == \A j \in Jobs : replan.win[j] # NoStart => replan.win[j] + job[j].dur <= job[j].dl

(* Every window that a re-plan computes ends in time: it is the allocator's, or the one the job has. *)
LEMMA WindowFits ==
    ASSUME WindowsFit, NEW j \in Jobs, NEW win, Window(j, win) # NoStart
    PROVE  Window(j, win) + job[j].dur <= job[j].dl
  <1>1. CASE Window(j, win) = job[j].win BY <1>1 DEF WindowsFit
  <1>2. CASE Window(j, win) = Found(j, win)
    <2>1. Found(j, win) # NoStart BY <1>2
    <2>2. Found(j, win) + job[j].dur <= job[j].dl BY <2>1, AllocateInTime DEF Found
    <2>. QED BY <1>2, <2>2
  <1>. QED BY <1>1, <1>2 DEF Window

LEMMA WindowsStep == Held /\ WindowsFit /\ ReplanFits /\ Next => (WindowsFit /\ ReplanFits)'
  <1> SUFFICES ASSUME Held, WindowsFit, ReplanFits, Next PROVE (WindowsFit /\ ReplanFits)' OBVIOUS
  <1>h. Typed BY DEF Held
  <1>d. job \in [Jobs -> Job] BY <1>h DEF Typed, JobsType
  <1>r. \A j \in Jobs : RowStep(j) BY RowSteps
  <1>1. WindowsFit'
    <2> SUFFICES ASSUME NEW j \in Jobs, job'[j].win # NoStart PROVE job'[j].win + job'[j].dur <= job'[j].dl BY DEF WindowsFit
    <2>1. ASSUME NEW req \in Requests, NEW at \in Readings, Submit(j, req, at) PROVE job'[j].win + job'[j].dur <= job'[j].dl
      <3> DEFINE deadline == at + req.dur + req.slack
                 start == Placed(j, at, req.dur, deadline, Ledger(Bookings(Booked)))
      <3>1. job'[j].win = start /\ job'[j].dur = req.dur /\ job'[j].dl = deadline BY <2>1, <1>d DEF Submit
      <3>2. start + req.dur <= deadline
        <4>1. start # NoStart BY <3>1
        <4>2. start = allocate(Jitter[j], req.dur, at, deadline, PricesIn(rate, at, deadline), Ledger(Bookings(Booked)), CAP, 1)
          BY <4>1 DEF Placed
        <4> HIDE DEF start, deadline
        <4>. QED BY <4>1, <4>2, AllocateInTime
      <3>. QED BY <3>1, <3>2
    <2>2. CASE ReplanWrite /\ job'[j] = Flushed(j)
      <3>1. CASE replan.win[j] # NoStart
        <4>1. job'[j].win = replan.win[j] /\ job'[j].dur = job[j].dur /\ job'[j].dl = job[j].dl
          BY <2>2, <3>1, <1>d DEF Flushed, Job
        <4>. QED BY <3>1, <4>1 DEF ReplanFits
      <3>2. CASE replan.win[j] = NoStart
        <4>1. job'[j].win = job[j].win /\ job'[j].dur = job[j].dur /\ job'[j].dl = job[j].dl
          BY <2>2, <3>2, <1>d DEF Flushed, Job
        <4>. QED BY <4>1 DEF WindowsFit
      <3>. QED BY <3>1, <3>2
    <2>3. ASSUME job'[j].win = job[j].win, \A req \in Requests, at \in Readings : ~Submit(j, req, at)
          PROVE  job'[j].win + job'[j].dur <= job'[j].dl
      <3>1. job[j].status # "new" => job'[j].dur = job[j].dur /\ job'[j].dl = job[j].dl BY <1>r DEF RowStep
      <3>2. job[j].status # "new" BY <1>h, <2>3 DEF Held, FreshRight
      <3>. QED BY <2>3, <3>1, <3>2 DEF WindowsFit
    <2>. QED BY <1>r, <2>1, <2>2, <2>3 DEF RowStep
  <1>2. ReplanFits'
    <2>1. CASE UNCHANGED replan
      <3>1. \A j \in Jobs : job[j].status # "new" => job'[j].status # "new" /\ job'[j].dur = job[j].dur /\ job'[j].dl = job[j].dl
        BY <1>r DEF RowStep
      <3>. QED BY <2>1, <3>1 DEF Held, FreshRight, ReplanFits
    <2>2. CASE replan' = NoReplan BY <2>2 DEF NoReplan, ReplanFits
    <2>3. CASE ReplanRead
      <3>1. UNCHANGED job BY <2>3 DEF ReplanRead
      <3>2. ASSUME NEW j \in Jobs, replan'.win[j] # NoStart, replan' # replan
            PROVE  replan'.win[j] + job[j].dur <= job[j].dl
        <4>0. Replanned[j] = Window(j, Replanned) BY ReplannedIs DEF Held
        <4>1. j \in MovableJobs /\ replan'.win[j] = Replanned[j] /\ Replanned[j] = Window(j, Replanned)
          BY <2>3, <3>2, <4>0 DEF ReplanRead
        <4>2. Window(j, Replanned) + job[j].dur <= job[j].dl BY <3>2, <4>1, WindowFits
        <4>. QED BY <4>1, <4>2
      <3>. QED BY <2>1, <3>1, <3>2 DEF ReplanFits
    <2>. QED BY <2>1, <2>2, <2>3, ReplanSteps
  <1>. QED BY <1>1, <1>2

(* A window lies before the deadline of its job, for any prices, and also after a re-plan whose reads are older *)
(* than the rows it writes.                                                                                     *)
THEOREM WindowsAlwaysFit == Spec => []WindowsFit
  <1>1. DispatchInit => Held /\ StartsRight /\ WindowsFit /\ ReplanFits
    BY HeldInit DEF DispatchInit, ServiceInit, NoJob, NoReplan, WindowsFit, ReplanFits
  <1>2. (Held /\ StartsRight /\ WindowsFit /\ ReplanFits) /\ [Next]_vars => (Held /\ StartsRight /\ WindowsFit /\ ReplanFits)'
    <2>1. WindowsFit /\ ReplanFits /\ UNCHANGED vars => (WindowsFit /\ ReplanFits)' BY DEF WindowsFit, ReplanFits, vars
    <2>. QED BY <2>1, HeldStep, StartsStep, HeldSame, WindowsStep
  <1>. QED BY <1>1, <1>2, PTL DEF Spec

-----------------------------------------------------------------------------
(* Nothing is started after its deadline *)

(* From the expiry to the last claim of a job, the tick's reading of the clock is an old one, but the jobs that wait *)
(* were all placed after it.                                                                                          *)
Firing == disp.pc \in {"due", "claim", "start", "save"} /\ disp.kind = "with"

DueRight ==
    Firing /\ ~odd.turned =>
        /\ disp.t <= now
        /\ \A j \in Jobs : job[j].status \in Waiting => disp.t <= job[j].dl \/ j \in hist.revived

(* A tick that fires keeps its reading. *)
LEMMA FiringSteps == Typed /\ PlaceRight /\ Next => (Firing' => TickBegin \/ (Firing /\ disp'.t = disp.t))
  <1> SUFFICES ASSUME Typed, PlaceRight, Next PROVE Firing' => TickBegin \/ (Firing /\ disp'.t = disp.t) OBVIOUS
  <1>d. disp \in DispType BY DEF Typed
  <1>0. CASE disp' = disp BY <1>0 DEF Firing
  <1>i. CASE disp' = Idle \/ disp' = Down
    <2>1. disp'.pc \in {"idle", "down"} BY <1>i DEF Idle, Down
    <2>. QED BY <2>1 DEF Firing
  <1>1. CASE SelectDue
    <2>1. disp.pc = "due" /\ \E todo : disp' = [disp EXCEPT !.pc = "claim", !.todo = todo] BY <1>1 DEF SelectDue
    <2>2. disp'.t = disp.t BY <2>1, <1>d DEF DispType
    <2>. QED BY <2>1, <2>2 DEF Firing, PlaceRight
  <1>2. CASE SelectTwins \/ SelectRunningTwins
    <2>1. (\E todo : disp' = [disp EXCEPT !.kind = "without", !.t = 0, !.todo = todo])
          \/ (\E todo : disp' = [disp EXCEPT !.kind = "without", !.todo = todo])
      BY <1>2 DEF SelectTwins, SelectRunningTwins
    <2>2. disp'.kind = "without" BY <2>1, <1>d DEF DispType
    <2>. QED BY <2>2 DEF Firing
  <1>3. CASE Start \/ Save
    <2>1. /\ disp.pc \in {"start", "save"}
          /\ \/ disp' = Idle \/ (\E got : disp' = [disp EXCEPT !.pc = "save", !.got = got])
             \/ disp' = [disp EXCEPT !.pc = "claim", !.cur = 0, !.got = FALSE]
      BY <1>3 DEF Start, Save, Abort
    <2>2. CASE disp' # Idle
      <3>1. disp'.kind = disp.kind /\ disp'.t = disp.t BY <2>1, <2>2, <1>d DEF DispType
      <3>. QED BY <2>1, <3>1 DEF Firing
    <2>. QED BY <2>2, <1>i
  <1>p. ASSUME NEW j \in Jobs, disp' = [disp EXCEPT !.todo = @ \ {j}] PROVE Firing' => Firing /\ disp'.t = disp.t
    <2>1. disp'.pc = disp.pc /\ disp'.kind = disp.kind /\ disp'.t = disp.t BY <1>p, <1>d DEF DispType
    <2>. QED BY <2>1 DEF Firing
  <1>4. ASSUME NEW j \in Jobs, Claim(j) \/ ClaimTwin(j) PROVE Firing' => Firing /\ disp'.t = disp.t
    <2>1. /\ disp.pc = "claim"
          /\ \/ disp' = [disp EXCEPT !.todo = @ \ {j}]
             \/ disp' = [disp EXCEPT !.pc = "start", !.cur = j, !.todo = @ \ {j}]
      BY <1>4 DEF Claim, ClaimTwin
    <2>2. disp'.kind = disp.kind /\ disp'.t = disp.t BY <2>1, <1>d DEF DispType
    <2>. QED BY <2>1, <2>2 DEF Firing
  <1>5. ASSUME NEW j \in Jobs, Poll(j) \/ PollTwin(j) PROVE Firing' => Firing /\ disp'.t = disp.t
    <2>1. disp' = Idle \/ disp' = [disp EXCEPT !.todo = @ \ {j}] BY <1>5 DEF Poll, PollTwin, Passed, Abort
    <2>2. disp' = Idle => ~Firing' BY DEF Idle, Firing
    <2>. QED BY <2>1, <2>2, <1>p
  <1>6. CASE SelectRunning
    <2>1. \E todo : disp' = [disp EXCEPT !.pc = "poll", !.kind = "with", !.todo = todo] BY <1>6 DEF SelectRunning
    <2>2. disp'.pc = "poll" BY <2>1, <1>d DEF DispType
    <2>. QED BY <2>2 DEF Firing
  <1>7. CASE TickEnd \/ Crash \/ Restart \/ TickAborts BY <1>7, <1>i DEF TickEnd, Crash, Restart, TickAborts, Abort
  <1>8. CASE ServiceStep \/ ARunEnds \/ DemoLive \/ (\E reset \in BOOLEAN : DemoReplay(reset))
    BY <1>8, <1>0 DEF ServiceStep, dispatchVars, ARunEnds, RunEnds, DemoLive, DemoReplay, TurnClock
  <1>. QED BY <1>1, <1>2, <1>3, <1>4, <1>5, <1>6, <1>7, <1>8 DEF Next, FireStep, PollStep

(* Time goes on, but for a turned clock and a restart; what was revived is remembered. *)
LEMMA TimeSteps ==
    Typed /\ Next => /\ ~odd'.turned => odd.turned = FALSE \/ TickBegin
                     /\ now' >= now \/ odd'.turned \/ ~Firing'
                     /\ hist.revived \subseteq hist'.revived
  <1> SUFFICES ASSUME Typed, Next
               PROVE  /\ ~odd'.turned => odd.turned = FALSE \/ TickBegin
                      /\ now' >= now \/ odd'.turned \/ ~Firing'
                      /\ hist.revived \subseteq hist'.revived
    OBVIOUS
  <1>t. now \in Int /\ odd \in OddType /\ hist \in HistType /\ odd.turned \in BOOLEAN BY DEF Typed, Times, OddType
  <1>1. CASE UNCHANGED <<now, hist, odd>> BY <1>1, <1>t
  <1>2. CASE FireStep
    <2>1. UNCHANGED <<now, hist>> /\ (UNCHANGED odd \/ TickBegin)
      BY <1>2 DEF FireStep, TickBegin, SelectDue, SelectTwins, Start, Save, Claim, ClaimTwin
    <2>. QED BY <2>1, <1>t
  <1>3. CASE PollStep BY <1>1, <1>3 DEF PollStep, SelectRunning, SelectRunningTwins, TickEnd, Poll, PollTwin
  <1>4. CASE ServiceStep
    <2>1. UNCHANGED odd BY <1>4 DEF ServiceStep, dispatchVars
    <2>2. now' = now \/ now' = now + 1 BY <1>4 DEF ServiceStep, create_job, Submit, ReplanRead, ReplanWrite, Ingest, Tick
    <2>3. hist.revived \subseteq hist'.revived
      <3>1. \A kept, free : Noted(kept, free).revived = hist.revived BY <1>t DEF Noted, HistType
      <3>2. CASE UNCHANGED hist BY <3>2
      <3>3. CASE ReplanWrite
        <4>1. hist' = hist \/ \E set : hist' = [Noted(replan.kept, replan.free) EXCEPT !.revived = @ \cup set]
          BY <3>3 DEF ReplanWrite
        <4>2. ASSUME NEW set, hist' = [Noted(replan.kept, replan.free) EXCEPT !.revived = @ \cup set]
              PROVE  hist'.revived = hist.revived \cup set
          BY <4>2, <1>t DEF Noted, HistType
        <4>. QED BY <4>1, <4>2
      <3>4. CASE ReplanRead BY <3>1, <3>2, <3>4 DEF ReplanRead
      <3>. QED BY <1>4, <3>2, <3>3, <3>4 DEF ServiceStep, create_job, Submit, Ingest, Tick
    <2>. QED BY <2>1, <2>2, <2>3, <1>t
  <1>5. CASE Crash \/ ARunEnds BY <1>1, <1>5 DEF Crash, ARunEnds, RunEnds
  <1>6. CASE Restart
    <2>1. UNCHANGED hist /\ odd' = [odd EXCEPT !.cut = {}] /\ disp' = Idle BY <1>6 DEF Restart
    <2>2. odd'.turned = odd.turned BY <2>1, <1>t DEF OddType
    <2>3. ~Firing' BY <2>1 DEF Firing, Idle
    <2>. QED BY <2>1, <2>2, <2>3, <1>t
  <1>7. CASE TickAborts
    <2>1. UNCHANGED <<now, hist>> /\ \E cut : odd' = [odd EXCEPT !.cut = cut] BY <1>7 DEF TickAborts
    <2>2. odd'.turned = odd.turned BY <2>1, <1>t DEF OddType
    <2>. QED BY <2>1, <2>2, <1>t
  <1>8. CASE DemoLive \/ \E reset \in BOOLEAN : DemoReplay(reset)
    <2>1. UNCHANGED hist /\ odd' = [odd EXCEPT !.turned = TRUE] BY <1>8 DEF DemoLive, DemoReplay, TurnClock
    <2>2. odd'.turned BY <2>1, <1>t DEF OddType
    <2>. QED BY <2>1, <2>2
  <1>. QED BY <1>2, <1>3, <1>4, <1>5, <1>6, <1>7, <1>8 DEF Next

LEMMA DueStep == Held /\ DueRight /\ Next => DueRight'
  <1> SUFFICES ASSUME Held, DueRight, Next, Firing', ~odd'.turned
               PROVE  /\ disp'.t <= now'
                      /\ \A j \in Jobs : job'[j].status \in Waiting => disp'.t <= job'[j].dl \/ j \in hist'.revived
    BY DEF DueRight
  <1>h. Typed /\ ContractInv /\ PlaceRight BY DEF Held
  <1>d. /\ job \in [Jobs -> Job] /\ now \in Int /\ disp \in DispType /\ disp.t \in Int
        /\ \A j \in Jobs : job[j] \in Job /\ job[j].dl \in Int
    BY <1>h DEF Typed, JobsType, Times, DispType, Job
  <1>1. CASE TickBegin
    <2>1. disp' = [Idle EXCEPT !.pc = "due", !.t = now] /\ job' = Expired(now) /\ now' = now BY <1>1 DEF TickBegin
    <2>2. disp'.t = now BY <2>1 DEF Idle
    <2>3. ASSUME NEW j \in Jobs, job'[j].status \in Waiting PROVE now <= job'[j].dl
      <3>1. job'[j] = IF job[j].status \in Waiting /\ job[j].dl < now THEN [job[j] EXCEPT !.status = "failed"] ELSE job[j]
        BY <2>1 DEF Expired
      <3>2. [job[j] EXCEPT !.status = "failed"].status \notin Waiting BY <1>d DEF Waiting, Job
      <3>3. job'[j] = job[j] /\ ~(job[j].dl < now) BY <2>3, <3>1, <3>2
      <3>. QED BY <3>3, <1>d
    <2>. QED BY <2>1, <2>2, <2>3, <1>d
  <1>2. CASE ~TickBegin
    <2>1. Firing /\ disp'.t = disp.t BY <1>h, <1>2, FiringSteps
    <2>2. ~odd.turned /\ now' >= now /\ hist.revived \subseteq hist'.revived BY <1>h, <1>2, TimeSteps
    <2>3. disp.t <= now /\ \A j \in Jobs : job[j].status \in Waiting => disp.t <= job[j].dl \/ j \in hist.revived
      BY <2>1, <2>2 DEF DueRight
    <2>4. disp'.t <= now'
      <3>1. Typed' BY HeldStep DEF Held
      <3>2. now' \in Int BY <3>1 DEF Typed, Times
      <3>. QED BY <2>1, <2>2, <2>3, <3>2, <1>d
    <2>5. ASSUME NEW j \in Jobs, job'[j].status \in Waiting PROVE disp.t <= job'[j].dl \/ j \in hist'.revived
      <3>r. RowStep(j) BY RowSteps
      <3>1. CASE job[j].status \in Waiting
        <4>1. job'[j].dl = job[j].dl BY <3>1, <3>r DEF RowStep, Waiting
        <4>. QED BY <2>2, <2>3, <3>1, <4>1
      <3>2. ASSUME NEW req \in Requests, NEW at \in Readings, Submit(j, req, at) PROVE disp.t <= job'[j].dl
        <4>1. job'[j].dl = at + req.dur + req.slack BY <3>2, <1>d DEF Submit
        <4>2. req.dur \in Int /\ req.slack \in Int /\ req.dur >= 1 /\ req.slack >= 0
          BY <3>2, ServiceAssumption DEF Submit, validate
        <4>3. at \in Int /\ now - 1 <= at BY <1>h, ReadingsAre DEF Times
        <4>. QED BY <2>3, <4>1, <4>2, <4>3, <1>d
      <3>3. CASE ReplanWrite /\ job[j].status \notin Waiting
        <4>1. job'[j] = Flushed(j) /\ j \in replan.place
              /\ hist' = [Noted(replan.kept, replan.free) EXCEPT !.revived = @ \cup {i \in replan.place : job[i].status = "failed"}]
              /\ ~(\E i \in Jobs : replan.win[i] # NoStart /\ job[i].status = "deleted")
          <5>1. job' # job BY <2>5, <3>3
          <5>2. job'[j] = Flushed(j) BY <3>3, <5>1 DEF ReplanWrite
          <5>3. j \notin replan.place => Flushed(j).status = job[j].status BY <1>d DEF Flushed, Job
          <5>. QED BY <2>5, <3>3, <5>1, <5>2, <5>3 DEF ReplanWrite
        <4>2. job[j].status = "failed" BY <1>h, <3>3, <4>1 DEF ContractInv, ReplanRight, ReplanWrite, Waiting
        <4>3. hist'.revived = hist.revived \cup {i \in replan.place : job[i].status = "failed"}
          BY <1>h, <4>1 DEF Typed, Noted, HistType
        <4>. QED BY <4>1, <4>2, <4>3
      <3>. QED BY <2>5, <3>r, <3>1, <3>2, <3>3 DEF RowStep, Waiting
    <2>. QED BY <2>1, <2>4, <2>5
  <1>. QED BY <1>1, <1>2

(* A job is never started after its deadline, by the clock as the tick read it, for any deadlines, prices and order *)
(* of the threads; the two exceptions are those of OverdueNotRun.                                                    *)
THEOREM OverdueIsNotRun == Spec => OverdueNotRun
  <1>1. DispatchInit => Held /\ StartsRight /\ DueRight
    <2>1. DispatchInit => ~Firing BY DEF DispatchInit, Idle, Firing
    <2>. QED BY <2>1, HeldInit DEF DueRight
  <1>2. (Held /\ StartsRight /\ DueRight) /\ [Next]_vars => (Held /\ StartsRight /\ DueRight)'
    <2>1. DueRight /\ UNCHANGED vars => DueRight' BY DEF DueRight, Firing, vars
    <2>. QED BY <2>1, HeldStep, StartsStep, HeldSame, DueStep
  <1>3. Held /\ DueRight /\ [Next]_vars =>
           [\A j \in Jobs : job'[j].status = "running" /\ job[j].status # "running" =>
                disp.t <= job[j].dl \/ j \in hist.revived \/ odd.turned]_vars
    <2> SUFFICES ASSUME Held, DueRight, Next, NEW j \in Jobs, job'[j].status = "running", job[j].status # "running"
                 PROVE  disp.t <= job[j].dl \/ j \in hist.revived \/ odd.turned
      OBVIOUS
    <2>1. Claim(j) BY RowSteps DEF RowStep
    <2>2. Taken(j) BY <2>1, ClaimTakes DEF Held
    <2>3. Firing /\ job[j].status \in Waiting BY <2>1, <2>2 DEF Taken, Claim, Firing, Waiting
    <2>. QED BY <2>3 DEF DueRight
  <1>. QED BY <1>1, <1>2, <1>3, PTL DEF Spec, OverdueNotRun

-----------------------------------------------------------------------------
(* No block is booked beyond the cap *)

(* Bookings of some jobs: their rows say how long each runs, win where. *)
Entries(rows, win, T) == {[job |-> j, win |-> win[j], dur |-> rows[j].dur, weight |-> 1] : j \in T}
WithinCap(rows, win, T) == \A b \in Blocks : Load(Entries(rows, win, T), b) <= CAP

(* What will be noted as kept, and booked at which window, once the re-plan under way has written. *)
KeptAfter == (hist.kept \ replan.free) \cup replan.kept
Rebooked == {j \in Jobs : Flushed(j).status \in {"scheduled", "running"} /\ Flushed(j).win # NoStart}

RowWin == [j \in Jobs |-> job[j].win]
FlushedWin == [j \in Jobs |-> Flushed(j).win]

(* Neither the rows nor what a re-plan is about to make of them exceed the cap, but for what is kept; and a job that *)
(* waits in the queue has no window until a re-plan places it.                                                       *)
LedgerKept == WithinCap(job, RowWin, Booked \ hist.kept)
PlanKept == replan.on => WithinCap(job, FlushedWin, Rebooked \ KeptAfter)
QueuedRight == \A j \in Jobs : job[j].status = "queued" => job[j].win = NoStart /\ (replan.win[j] # NoStart => j \in replan.place)
BlocksInv == LedgerKept /\ PlanKept /\ QueuedRight

LEMMA EntriesOk ==
    ASSUME NEW rows \in JobsType, NEW win, NEW T \in SUBSET Jobs, \A j \in T : win[j] \in MaybeMinute /\ win[j] # NoStart
    PROVE  Bookables(Entries(rows, win, T))
  <1> DEFINE E == Entries(rows, win, T)
             f == [j \in T |-> [job |-> j, win |-> win[j], dur |-> rows[j].dur, weight |-> 1]]
  <1>1. f \in Surjection(T, E) BY DEF Surjection, Entries
  <1>2. IsFiniteSet(T) BY RunningFinite, ServiceAssumption, FS_Subset
  <1>3. IsFiniteSet(E)
    <2> HIDE DEF E, f
    <2>. QED BY <1>1, <1>2, FS_Surjection
  <1>4. \A j \in T : win[j] \in Int /\ rows[j].dur \in Nat
    <2>1. \A j \in Jobs : rows[j].dur \in Nat BY DEF JobsType, Job
    <2>2. \A w \in MaybeMinute : w # NoStart => w \in Int BY AllocatorAssumption DEF MaybeMinute, Minute
    <2>. QED BY <2>1, <2>2
  <1>. QED BY <1>3, <1>4 DEF Bookables, Bookable, Entries

(* Fewer bookings of the same jobs take no more. *)
LEMMA FewerFit ==
    ASSUME NEW rows \in JobsType, NEW win, NEW T \in SUBSET Jobs, \A j \in T : win[j] \in MaybeMinute /\ win[j] # NoStart,
           NEW rows2 \in JobsType, NEW win2, NEW T2 \in SUBSET Jobs,
           \A j \in T2 : j \in T /\ win2[j] = win[j] /\ rows2[j].dur = rows[j].dur,
           WithinCap(rows, win, T)
    PROVE  WithinCap(rows2, win2, T2)
  <1> SUFFICES ASSUME NEW b \in Blocks PROVE Load(Entries(rows2, win2, T2), b) <= CAP BY DEF WithinCap
  <1>1. Bookables(Entries(rows, win, T)) BY EntriesOk
  <1>2. Bookables(Entries(rows2, win2, T2))
    <2>1. \A j \in T2 : win2[j] \in MaybeMinute /\ win2[j] # NoStart OBVIOUS
    <2>. QED BY <2>1, EntriesOk
  <1>3. \A k \in Entries(rows2, win2, T2) : k \in Entries(rows, win, T) BY DEF Entries
  <1>4. Load(Entries(rows2, win2, T2), b) <= Load(Entries(rows, win, T), b) BY <1>1, <1>2, <1>3, LoadWithin
  <1>5. Load(Entries(rows2, win2, T2), b) \in Nat /\ Load(Entries(rows, win, T), b) \in Nat /\ Load(Entries(rows, win, T), b) <= CAP
    BY <1>1, <1>2, LoadFinite DEF WithinCap
  <1>. QED BY <1>4, <1>5, ServiceAssumption

(* What allocate returns has room in every block. *)
LEMMA AllocateRoom ==
    ASSUME NEW jitter, NEW dur, NEW earliest, NEW deadline, NEW r, NEW bookings, NEW start,
           start = allocate(jitter, dur, earliest, deadline, r, Ledger(bookings), CAP, 1), start # NoStart
    PROVE  \A b \in Spans(start, dur) : Load(bookings, b) + MinutesIn(b, start, dur) * 1 <= CAP
  <1>1. start \in Starts(jitter, dur, earliest, deadline, r, Ledger(bookings), CAP, 1) BY AllocateIn
  <1>2. Spans(start, dur) \subseteq Blocks BY DEF Spans
  <1>. QED BY <1>1, <1>2 DEF Starts, Ledger

(* Submitting: the job is booked where there is room beside all that is booked. *)
LEMMA SubmitFits ==
    ASSUME Held, BlocksInv, NEW j \in Jobs, NEW req \in Requests, NEW at \in Readings, Submit(j, req, at), Typed'
    PROVE  LedgerKept'
  <1>d. job \in JobsType /\ job' \in JobsType /\ \A i \in Jobs : job[i] \in Job BY DEF Held, Typed, JobsType
  <1> DEFINE deadline == at + req.dur + req.slack
             start == Placed(j, at, req.dur, deadline, Ledger(Bookings(Booked)))
             old == Entries(job, RowWin, Booked)
             new == Entries(job', RowWin', (Booked \ hist.kept)')
  <1>1. /\ \A i \in Jobs \ {j} : job'[i] = job[i]
        /\ job'[j].win = start /\ job'[j].dur = req.dur /\ UNCHANGED hist /\ job[j].status = "new" /\ start \in MaybeMinute
    <2>1. /\ \A i \in Jobs \ {j} : job'[i] = job[i]
          /\ job'[j].win = start /\ job'[j].dur = req.dur /\ UNCHANGED hist /\ job[j].status = "new"
      BY <1>d DEF Submit, JobsType
    <2>2. job'[j] \in Job BY <1>d DEF JobsType
    <2> HIDE DEF start
    <2>. QED BY <2>1, <2>2 DEF Job
  <1>2. Bookings(Booked) = old BY DEF Bookings, BookingOf, Entries, RowWin, Booked
  <1>w. \A i \in Booked : RowWin[i] \in MaybeMinute /\ RowWin[i] # NoStart BY <1>d DEF RowWin, Booked, Job
  <1>w2. \A i \in (Booked \ hist.kept)' : RowWin'[i] \in MaybeMinute /\ RowWin'[i] # NoStart
    BY <1>d DEF RowWin, Booked, Job, JobsType
  <1>3. Bookables(old) /\ Bookables(new)
    <2>1. Bookables(old) BY <1>d, <1>w, EntriesOk DEF Booked
    <2>2. (Booked \ hist.kept)' \in SUBSET Jobs BY DEF Booked
    <2>3. Bookables(new)
      <3> HIDE DEF new
      <3>. QED BY <1>d, <1>w2, <2>2, EntriesOk DEF new
    <2>. QED BY <2>1, <2>3
  <1>4. \A i \in (Booked \ hist.kept)' : i # j => i \in Booked \ hist.kept /\ RowWin'[i] = RowWin[i] /\ job'[i].dur = job[i].dur
    BY <1>1 DEF Booked, RowWin
  <1>5. CASE j \notin (Booked \ hist.kept)'
    <2>1. \A i \in (Booked \ hist.kept)' : i \in Booked \ hist.kept /\ RowWin'[i] = RowWin[i] /\ job'[i].dur = job[i].dur BY <1>4, <1>5
    <2>2. (Booked \ hist.kept)' \in SUBSET Jobs /\ Booked \ hist.kept \in SUBSET Jobs BY DEF Booked
    <2>3. WithinCap(job, RowWin, Booked \ hist.kept) BY DEF BlocksInv, LedgerKept
    <2>4. \A i \in Booked \ hist.kept : RowWin[i] \in MaybeMinute /\ RowWin[i] # NoStart BY <1>w
    <2>5. WithinCap(job', RowWin', (Booked \ hist.kept)') BY <1>d, <2>1, <2>2, <2>3, <2>4, FewerFit
    <2>. QED BY <2>5 DEF LedgerKept
  <1>6. CASE j \in (Booked \ hist.kept)'
    <2> DEFINE k == [job |-> j, win |-> start, dur |-> req.dur, weight |-> 1]
               was == Entries(job, RowWin, Booked \ hist.kept)
    <2>0. start # NoStart BY <1>1, <1>6 DEF Booked
    <2>1. start = allocate(Jitter[j], req.dur, at, deadline, PricesIn(rate, at, deadline), Ledger(old), CAP, 1)
      BY <1>2, <2>0 DEF Placed
    <2> HIDE DEF start
    <2>2. \A i \in new : i \in was \/ i = k
      BY <1>1, <1>4, <1>d DEF Entries, RowWin
    <2>3. \A i \in was : i \in old BY DEF Entries
    <2>4. Bookable(k) BY <1>1, <1>3, <1>6 DEF Bookables, Entries, RowWin, Booked
    <2>5. Bookables(was)
      <3>1. Booked \ hist.kept \in SUBSET Jobs BY DEF Booked
      <3>. QED BY <1>d, <1>w, <3>1, EntriesOk
    <2> HIDE DEF was, old, new, deadline
    <2>6. \A b \in Spans(start, req.dur) : Load(old, b) + MinutesIn(b, start, req.dur) * 1 <= CAP
      BY <2>0, <2>1, AllocateRoom
    <2>7. \A b \in Blocks : Load(was, b) <= CAP BY DEF BlocksInv, LedgerKept, WithinCap, was
    <2>8. ASSUME NEW b \in Blocks PROVE Load(new, b) <= CAP
      <3>n. Load(new, b) \in Nat /\ Load(was, b) \in Nat /\ Load(old, b) \in Nat BY <1>3, <2>5, LoadFinite
      <3>1. CASE b \in Spans(start, req.dur)
        <4>1. Load(new, b) <= Load(old, b) + MinutesIn(b, k.win, k.dur) * k.weight
          <5>1. b \in Spans(k.win, k.dur) BY <3>1
          <5>2. \A i \in new : i \in old \/ i = k BY <2>2, <2>3
          <5> HIDE DEF k
          <5>. QED BY <1>3, <2>4, <5>1, <5>2, LoadAdded
        <4>2. Load(old, b) + MinutesIn(b, start, req.dur) * 1 <= CAP BY <2>6, <3>1
        <4>3. MinutesIn(b, start, req.dur) \in Int
          BY <2>4, BlockIs, AllocatorAssumption DEF Bookable, MinutesIn, Earliest, Latest
        <4>. QED BY <3>n, <4>1, <4>2, <4>3, ServiceAssumption
      <3>2. CASE b \notin Spans(start, req.dur)
        <4>1. \A i \in new : b \in Spans(i.win, i.dur) => i \in was BY <2>2, <3>2
        <4>2. Load(new, b) <= Load(was, b) BY <1>3, <2>5, <4>1, LoadWithin
        <4>. QED BY <2>7, <3>n, <4>2, ServiceAssumption
      <3>. QED BY <3>1, <3>2
    <2>. QED BY <2>8 DEF LedgerKept, WithinCap, new
  <1>. QED BY <1>5, <1>6

(* The jobs that a re-plan finds a window for, and the windows of all. *)
Placeable(win) == {j \in MovableJobs : Found(j, win) # NoStart /\ win[j] # NoStart}
Mixed(win) == [j \in Jobs |-> IF j \in MovableJobs THEN win[j] ELSE job[j].win]

(* A window that is computed is the allocator's, but for a job that nothing was found for. *)
LEMMA PlaceableIs ==
    ASSUME NEW win, NEW j \in Placeable(win), win[j] = Window(j, win)
    PROVE  win[j] = Found(j, win)
  BY DEF Placeable, Window

(* A re-plan: the jobs it does not move, and those it finds a window for, fit together. *)
LEMMA ReplanFitsIn ==
    ASSUME Held, BlocksInv, NEW win \in [Jobs -> MaybeMinute], \A j \in Jobs : win[j] = Window(j, win)
    PROVE  WithinCap(job, Mixed(win), (PinnedJobs \ hist.kept) \cup Placeable(win))
  <1>d. job \in JobsType /\ \A i \in Jobs : job[i] \in Job BY DEF Held, Typed, JobsType
  <1> DEFINE M == Placeable(win)
             Q == PinnedJobs \ hist.kept
             P == Entries(job, Mixed(win), Q)
             S == Entries(job, Mixed(win), M)
  <1>m. MovableJobs \subseteq Jobs /\ M \subseteq MovableJobs /\ Q \in SUBSET Jobs /\ M \in SUBSET Jobs /\ PinnedJobs \in SUBSET Jobs
    BY DEF MovableJobs, Placeable, PinnedJobs
  <1>p. \A j \in PinnedJobs : j \notin MovableJobs /\ j \in Booked /\ Mixed(win)[j] = job[j].win
    BY DEF PinnedJobs, Active, MovableJobs, Booked, Mixed
  <1>w. /\ \A j \in Q : Mixed(win)[j] \in MaybeMinute /\ Mixed(win)[j] # NoStart
        /\ \A j \in M : Mixed(win)[j] = win[j] /\ win[j] \in MaybeMinute /\ win[j] # NoStart
    BY <1>d, <1>m, <1>p DEF Job, Placeable, PinnedJobs, Mixed
  <1>1. Bookables(P) /\ Bookables(S) BY <1>d, <1>m, <1>w, EntriesOk
  <1>2. WithinCap(job, Mixed(win), Q)
    <2>1. WithinCap(job, RowWin, Booked \ hist.kept) BY DEF BlocksInv, LedgerKept
    <2>2. \A j \in Q : j \in Booked \ hist.kept /\ Mixed(win)[j] = RowWin[j] BY <1>p, <1>m DEF RowWin
    <2>3. Booked \ hist.kept \in SUBSET Jobs
          /\ \A j \in Booked \ hist.kept : RowWin[j] \in MaybeMinute /\ RowWin[j] # NoStart
      BY <1>d DEF Booked, RowWin, Job
    <2> HIDE DEF Q
    <2>. QED BY <1>d, <1>m, <2>1, <2>2, <2>3, FewerFit
  <1>3. Entries(job, Mixed(win), Q \cup M) = P \cup S BY DEF Entries
  <1>4. (\A k \in S : k.job \in Int) /\ (\A k, i \in S : k.job = i.job => k = i)
    <2>1. Jobs \subseteq Int BY ServiceAssumption DEF Jobs
    <2>2. ASSUME NEW k \in S PROVE k.job \in M /\ k = [job |-> k.job, win |-> Mixed(win)[k.job], dur |-> job[k.job].dur, weight |-> 1]
      <3>1. PICK j \in M : k = [job |-> j, win |-> Mixed(win)[j], dur |-> job[j].dur, weight |-> 1] BY DEF Entries
      <3> HIDE DEF M
      <3>. QED BY <3>1
    <2>3. \A k \in S : k.job \in Int
      <3> HIDE DEF S, M
      <3>. QED BY <1>m, <2>1, <2>2 DEF M
    <2>4. ASSUME NEW k \in S, NEW i \in S, k.job = i.job PROVE k = i
      <3> HIDE DEF S, M
      <3>. QED BY <2>2, <2>4
    <2>. QED BY <2>3, <2>4
  <1>5. ASSUME NEW b \in Blocks, NEW k \in S, b \in Spans(k.win, k.dur)
        PROVE  Load(P \cup {i \in S : i.job < k.job}, b) + MinutesIn(b, k.win, k.dur) * k.weight <= CAP
    <2>1. PICK j \in M : k = [job |-> j, win |-> win[j], dur |-> job[j].dur, weight |-> 1] BY <1>w DEF Entries
    <2> DEFINE before == {i \in MovableJobs : i < j /\ win[i] # NoStart}
               others == Bookings(PinnedJobs) \cup {BookingOf(i, win[i]) : i \in before}
               here == P \cup {i \in S : i.job < k.job}
    <2>2. win[j] = Found(j, win) /\ win[j] # NoStart BY <1>m, PlaceableIs, <1>w
    <2>3. win[j] = allocate(Jitter[j], job[j].dur, now, job[j].dl, Known, Ledger(others), CAP, 1) BY <2>2 DEF Found
    <2> HIDE DEF before, others
    <2>4. Load(others, b) + MinutesIn(b, win[j], job[j].dur) * 1 <= CAP BY <1>5, <2>1, <2>2, <2>3, AllocateRoom
    <2>5. here \subseteq others
      <3>1. P \subseteq Bookings(PinnedJobs) BY <1>p, <1>m DEF Entries, Bookings, BookingOf
      <3>2. {i \in S : i.job < k.job} \subseteq {BookingOf(i, win[i]) : i \in before}
        BY <2>1, <1>w, <1>m DEF Entries, BookingOf, before
      <3>. QED BY <3>1, <3>2 DEF others
    <2>6. Bookables(others)
      <3> DEFINE T == PinnedJobs \cup before
      <3>1. T \in SUBSET Jobs /\ before \subseteq MovableJobs BY <1>m DEF before
      <3>2. others = Entries(job, Mixed(win), T)
        <4>1. \A i \in before : Mixed(win)[i] = win[i] BY <1>m, <3>1 DEF Mixed
        <4> HIDE DEF before
        <4>. QED BY <1>p, <4>1 DEF others, Bookings, BookingOf, Entries
      <3>3. \A i \in T : Mixed(win)[i] \in MaybeMinute /\ Mixed(win)[i] # NoStart
        BY <1>d, <1>m, <1>p DEF before, Mixed, PinnedJobs, Job
      <3> HIDE DEF T
      <3>. QED BY <1>d, <3>1, <3>2, <3>3, EntriesOk
    <2>7. Bookables(here)
      <3>1. here \subseteq P \cup S OBVIOUS
      <3>2. IsFiniteSet(P \cup S) BY <1>1, FS_Union DEF Bookables
      <3> HIDE DEF P, S
      <3>. QED BY <1>1, <3>1, <3>2, FS_Subset DEF Bookables
    <2>8. Load(here, b) <= Load(others, b) BY <2>5, <2>6, <2>7, LoadWithin
    <2>9. Load(here, b) \in Nat /\ Load(others, b) \in Nat BY <2>6, <2>7, LoadFinite
    <2>10. MinutesIn(b, win[j], job[j].dur) \in Int
      <3>1. k.win \in Int /\ k.dur \in Nat BY <1>1 DEF Bookables, Bookable
      <3>2. win[j] \in Int /\ job[j].dur \in Nat BY <2>1, <3>1
      <3>. QED BY <3>2, BlockIs, AllocatorAssumption DEF MinutesIn, Earliest, Latest
    <2>11. MinutesIn(b, k.win, k.dur) * k.weight = MinutesIn(b, win[j], job[j].dur) * 1 BY <2>1
    <2> HIDE DEF here
    <2>. QED BY <2>4, <2>8, <2>9, <2>10, <2>11, ServiceAssumption DEF here
  <1> HIDE DEF P, S, Q, M
  <1>6. ASSUME NEW b \in Blocks PROVE Load(P \cup S, b) <= CAP
    <2>1. Load(P, b) <= CAP BY <1>2 DEF WithinCap, P
    <2>2. CAP \in Int BY ServiceAssumption
    <2>3. \A k \in S : b \in Spans(k.win, k.dur) =>
              Load(P \cup {i \in S : i.job < k.job}, b) + MinutesIn(b, k.win, k.dur) * k.weight <= CAP
      BY <1>5
    <2>. QED BY <1>1, <1>4, <2>1, <2>2, <2>3, LastBooked
  <1>. QED BY <1>3, <1>6 DEF WithinCap, Q, M

LEMMA HistSteps == Next => UNCHANGED hist \/ ReplanRead \/ ReplanWrite
  <1> SUFFICES ASSUME Next PROVE UNCHANGED hist \/ ReplanRead \/ ReplanWrite OBVIOUS
  <1>1. CASE FireStep BY <1>1 DEF FireStep, TickBegin, SelectDue, SelectTwins, Start, Save, Claim, ClaimTwin
  <1>2. CASE PollStep BY <1>2 DEF PollStep, SelectRunning, SelectRunningTwins, TickEnd, Poll, PollTwin
  <1>3. CASE ServiceStep BY <1>3 DEF ServiceStep, create_job, Submit, Ingest, Tick
  <1>4. CASE Upset BY <1>4 DEF Upset, Crash, Restart, TickAborts, ARunEnds, RunEnds, DemoReplay, DemoLive, TurnClock
  <1>. QED BY <1>1, <1>2, <1>3, <1>4 DEF Next, Upset

(* But for a submission and the end of a re-plan, nothing is booked that was not, and no window changes. *)
LEMMA BookedSteps ==
    ASSUME Held, Next, ~ReplanWrite, NEW j \in Jobs, \A req \in Requests, at \in Readings : ~Submit(j, req, at)
    PROVE  /\ job'[j].status \in {"scheduled", "running"} => job[j].status \in {"scheduled", "running"} /\ job'[j].dur = job[j].dur
           /\ job'[j].win = job[j].win
  <1>1. RowStep(j) BY RowSteps
  <1>2. job'[j].status = "running" => job[j].status \in {"scheduled", "running"}
    <2>1. Claim(j) => job[j].status = "scheduled" \/ UNCHANGED job BY ClaimTakes DEF Held, Taken
    <2>. QED BY <1>1, <2>1 DEF RowStep
  <1>. QED BY <1>1, <1>2 DEF RowStep

LEMMA QueuedStep == Held /\ QueuedRight /\ Next => QueuedRight'
  <1> SUFFICES ASSUME Held, QueuedRight, Next, NEW j \in Jobs, job'[j].status = "queued"
               PROVE  job'[j].win = NoStart /\ (replan'.win[j] # NoStart => j \in replan'.place)
    BY DEF QueuedRight
  <1>d. job \in [Jobs -> Job] BY DEF Held, Typed, JobsType
  <1>r. RowStep(j) BY RowSteps
  <1>1. ASSUME NEW req \in Requests, NEW at \in Readings, Submit(j, req, at)
        PROVE  job'[j].win = NoStart /\ replan'.win[j] = NoStart
    <2>1. UNCHANGED replan /\ job[j].status = "new" BY <1>1 DEF Submit
    <2>2. replan.win[j] = NoStart BY <2>1 DEF Held, FreshRight
    <2> DEFINE start == Placed(j, at, req.dur, at + req.dur + req.slack, Ledger(Bookings(Booked)))
    <2>3. /\ job'[j].win = start
          /\ job'[j].status = IF start = NoStart THEN "queued" ELSE "scheduled"
      BY <1>1, <1>d DEF Submit
    <2> HIDE DEF start
    <2>. QED BY <2>1, <2>2, <2>3
  <1>2. CASE job[j].status = "queued"
    <2>1. job[j].win = NoStart /\ (replan.win[j] # NoStart => j \in replan.place) BY <1>2 DEF QueuedRight
    <2>2. CASE ReplanWrite
      <3>1. replan' = NoReplan /\ (job'[j] = job[j] \/ job'[j] = Flushed(j)) BY <2>2 DEF ReplanWrite
      <3>2. Flushed(j).win = IF replan.win[j] # NoStart THEN replan.win[j] ELSE job[j].win BY <1>d DEF Flushed, Job
      <3>3. Flushed(j).status = IF j \in replan.place THEN "scheduled" ELSE job[j].status BY <1>d DEF Flushed, Job
      <3>. QED BY <2>1, <3>1, <3>2, <3>3 DEF NoReplan
    <2>3. CASE ReplanRead
      <3>1. UNCHANGED job BY <2>3 DEF ReplanRead
      <3>2. replan' # replan /\ replan'.win[j] # NoStart => j \in replan'.place BY <1>2, <2>3 DEF ReplanRead
      <3>. QED BY <2>1, <3>1, <3>2
    <2>4. CASE ~ReplanWrite /\ ~ReplanRead /\ \A req \in Requests, at \in Readings : ~Submit(j, req, at)
      <3>1. job'[j].win = job[j].win BY <2>4, BookedSteps
      <3>2. UNCHANGED replan \/ replan' = NoReplan BY <2>4, ReplanSteps
      <3>. QED BY <2>1, <3>1, <3>2 DEF NoReplan
    <2>. QED BY <1>1, <2>2, <2>3, <2>4
  <1>. QED BY <1>1, <1>2, <1>r DEF RowStep

(* What a re-plan has read: the jobs that are booked then fit, where they are and where it is to move them. *)
LEMMA ReadFits == Held /\ BlocksInv /\ Next /\ ReplanRead => LedgerKept' /\ PlanKept'
  <1> SUFFICES ASSUME Held, BlocksInv, Next, ReplanRead PROVE LedgerKept' /\ PlanKept' OBVIOUS
  <1>d. job \in JobsType /\ (\A i \in Jobs : job[i] \in Job) /\ hist \in HistType BY DEF Held, Typed, JobsType
  <1>q. \A j \in Jobs : job[j].status = "queued" => job[j].win = NoStart BY DEF BlocksInv, QueuedRight
  <1> DEFINE win == Replanned
             changed == {j \in MovableJobs : win[j] # NoStart /\ (win[j] # job[j].win \/ job[j].status = "queued")}
             kept == {j \in MovableJobs : job[j].status = "scheduled" /\ Found(j, win) = NoStart}
             new == [j \in Jobs |-> IF j \in changed THEN win[j] ELSE NoStart]
             placed == {j \in changed : job[j].status = "queued"}
             fit == (PinnedJobs \ hist.kept) \cup Placeable(win)
  <1>0. win \in [Jobs -> MaybeMinute] /\ \A j \in Jobs : win[j] = Window(j, win) BY ReplannedIs DEF Held
  <1>1. /\ win \in [Jobs -> MaybeMinute] /\ \A j \in Jobs : win[j] = Window(j, win)
        /\ UNCHANGED job
        /\ \/ changed = {} /\ hist' = Noted(kept, MovableJobs) /\ UNCHANGED replan /\ ~replan.on
           \/ UNCHANGED hist /\ replan' = [on |-> TRUE, win |-> new, place |-> placed, kept |-> kept, free |-> MovableJobs]
    BY <1>0 DEF ReplanRead
  <1> HIDE DEF win
  <1>m. MovableJobs \subseteq Jobs /\ fit \in SUBSET Jobs BY DEF MovableJobs, Placeable, PinnedJobs
  <1>2. WithinCap(job, Mixed(win), fit) BY <1>1, ReplanFitsIn
  <1>3. \A j \in fit : Mixed(win)[j] \in MaybeMinute /\ Mixed(win)[j] # NoStart
    BY <1>1, <1>d, <1>m DEF Mixed, Placeable, PinnedJobs, Job
  <1>4. \A j \in Jobs : job[j].status \in {"scheduled", "running"} /\ job[j].win # NoStart =>
            \/ j \notin MovableJobs /\ j \in PinnedJobs /\ Mixed(win)[j] = job[j].win
            \/ j \in kept
            \/ j \in Placeable(win) /\ j \in MovableJobs /\ Mixed(win)[j] = win[j]
               /\ (win[j] # job[j].win => j \in changed) /\ (j \in changed => win[j] # NoStart)
    <2> SUFFICES ASSUME NEW j \in Jobs, job[j].status \in {"scheduled", "running"}, job[j].win # NoStart,
                        j \in MovableJobs, j \notin kept
                 PROVE  j \in Placeable(win) /\ Mixed(win)[j] = win[j] /\ (win[j] # job[j].win => j \in changed)
      BY DEF PinnedJobs, Active, Mixed
    <2>1. job[j].status = "scheduled" /\ Found(j, win) # NoStart BY DEF MovableJobs
    <2>2. win[j] = Found(j, win) BY <1>1, <2>1 DEF Window
    <2>. QED BY <2>1, <2>2 DEF Placeable, Mixed
  <1>5. CASE changed = {} /\ hist' = Noted(kept, MovableJobs) /\ UNCHANGED replan /\ ~replan.on
    <2>1. hist'.kept = (hist.kept \ MovableJobs) \cup kept BY <1>5, <1>d DEF Noted, HistType
    <2>2. \A j \in (Booked \ hist.kept)' : j \in fit /\ RowWin'[j] = Mixed(win)[j] /\ job'[j].dur = job[j].dur
      <3> SUFFICES ASSUME NEW j \in (Booked \ hist.kept)' PROVE j \in fit /\ job[j].win = Mixed(win)[j]
        BY <1>1 DEF RowWin, Booked
      <3>1. j \in Jobs /\ job[j].status \in {"scheduled", "running"} /\ job[j].win # NoStart /\ j \notin kept
            /\ (j \in MovableJobs \/ j \notin hist.kept)
        BY <1>1, <2>1 DEF Booked
      <3> HIDE DEF kept
      <3>. QED BY <1>4, <1>5, <3>1
    <2>3. (Booked \ hist.kept)' \in SUBSET Jobs BY DEF Booked
    <2>4. job' \in JobsType BY <1>1, <1>d
    <2> HIDE DEF fit
    <2>5. WithinCap(job', RowWin', (Booked \ hist.kept)') BY <1>d, <1>m, <1>2, <1>3, <2>2, <2>3, <2>4, FewerFit
    <2>. QED BY <1>5, <2>5 DEF LedgerKept, PlanKept
  <1>6. CASE UNCHANGED hist /\ replan' = [on |-> TRUE, win |-> new, place |-> placed, kept |-> kept, free |-> MovableJobs]
    <2>1. LedgerKept' BY <1>1, <1>6 DEF BlocksInv, LedgerKept, RowWin, Booked
    <2>2. KeptAfter' = (hist.kept \ MovableJobs) \cup kept BY <1>6 DEF KeptAfter
    <2>3. \A j \in Jobs : /\ Flushed(j)'.win = IF j \in changed THEN win[j] ELSE job[j].win
                          /\ Flushed(j)'.status = IF j \in placed THEN "scheduled" ELSE job[j].status
                          /\ Flushed(j)'.dur = job[j].dur
      <3> SUFFICES ASSUME NEW j \in Jobs
                   PROVE  /\ Flushed(j)'.win = IF j \in changed THEN win[j] ELSE job[j].win
                          /\ Flushed(j)'.status = IF j \in placed THEN "scheduled" ELSE job[j].status
                          /\ Flushed(j)'.dur = job[j].dur
        OBVIOUS
      <3>1. replan'.win[j] = IF j \in changed THEN win[j] ELSE NoStart BY <1>6
      <3>2. replan'.place = placed BY <1>6
      <3>3. j \in changed => win[j] # NoStart OBVIOUS
      <3>4. job[j] \in Job /\ job' = job BY <1>1, <1>d
      <3> HIDE DEF changed, placed, new, kept
      <3>5. Flushed(j)' = [job[j] EXCEPT !.win = IF replan'.win[j] # NoStart THEN replan'.win[j] ELSE @,
                                         !.status = IF j \in placed THEN "scheduled" ELSE @]
        BY <3>2, <3>4 DEF Flushed
      <3>. QED BY <3>1, <3>3, <3>4, <3>5 DEF Job
    <2>4. \A j \in (Rebooked \ KeptAfter)' : j \in fit /\ FlushedWin'[j] = Mixed(win)[j] /\ job'[j].dur = job[j].dur
      <3> SUFFICES ASSUME NEW j \in (Rebooked \ KeptAfter)'
                   PROVE  j \in fit /\ Flushed(j)'.win = Mixed(win)[j]
        BY <1>1 DEF FlushedWin, Rebooked
      <3>1. j \in Jobs /\ Flushed(j)'.status \in {"scheduled", "running"} /\ Flushed(j)'.win # NoStart /\ j \notin kept
            /\ (j \in MovableJobs \/ j \notin hist.kept)
        BY <2>2 DEF Rebooked
      <3>2. CASE job[j].status = "queued"
        <4>1. job[j].win = NoStart BY <1>q, <3>1, <3>2
        <4>2. j \in placed /\ j \in changed /\ j \in MovableJobs BY <2>3, <3>1, <3>2
        <4>3. Found(j, win) # NoStart
          <5>1. win[j] = Window(j, win) /\ win[j] # NoStart BY <1>1, <3>1, <4>2
          <5>. QED BY <4>1, <5>1 DEF Window
        <4>. QED BY <2>3, <3>1, <4>2, <4>3 DEF Placeable, Mixed
      <3>3. CASE job[j].status # "queued"
        <4>1. j \notin placed BY <3>3
        <4>2. job[j].status \in {"scheduled", "running"} BY <2>3, <3>1, <4>1
        <4>3. job[j].win # NoStart
          <5>1. j \in MovableJobs => job[j].win # NoStart BY <3>3 DEF MovableJobs
          <5>2. j \notin changed => job[j].win # NoStart BY <2>3, <3>1
          <5>3. changed \subseteq MovableJobs OBVIOUS
          <5> HIDE DEF changed
          <5>. QED BY <5>1, <5>2, <5>3
        <4>4. changed \subseteq MovableJobs OBVIOUS
        <4> HIDE DEF changed, kept, placed, new
        <4>. QED BY <1>4, <2>3, <3>1, <4>2, <4>3, <4>4
      <3>. QED BY <3>2, <3>3
    <2>5. (Rebooked \ KeptAfter)' \in SUBSET Jobs BY DEF Rebooked
    <2>6. job' \in JobsType BY <1>1, <1>d
    <2> HIDE DEF fit
    <2>7. WithinCap(job', FlushedWin', (Rebooked \ KeptAfter)') BY <1>d, <1>m, <1>2, <1>3, <2>4, <2>5, <2>6, FewerFit
    <2>. QED BY <2>1, <2>7 DEF PlanKept
  <1>. QED BY <1>1, <1>5, <1>6

LEMMA BookedFits ==
    ASSUME Held
    PROVE  /\ Booked \ hist.kept \in SUBSET Jobs
           /\ \A j \in Booked \ hist.kept : RowWin[j] \in MaybeMinute /\ RowWin[j] # NoStart
           /\ Rebooked \ KeptAfter \in SUBSET Jobs
           /\ \A j \in Rebooked \ KeptAfter : FlushedWin[j] \in MaybeMinute /\ FlushedWin[j] # NoStart
  <1>1. job \in [Jobs -> Job] /\ replan \in ReplanType BY DEF Held, Typed, JobsType
  <1>2. \A j \in Jobs : Flushed(j).win \in MaybeMinute BY <1>1 DEF Flushed, Job, ReplanType
  <1>. QED BY <1>1, <1>2 DEF Booked, RowWin, Rebooked, FlushedWin, Job

LEMMA BlocksStep == Held /\ BlocksInv /\ Next => BlocksInv'
  <1> SUFFICES ASSUME Held, BlocksInv, Next PROVE BlocksInv' OBVIOUS
  <1>t. Typed' BY HeldStep DEF Held
  <1>d. job \in JobsType /\ job' \in JobsType /\ (\A j \in Jobs : job[j] \in Job /\ job'[j] \in Job) /\ hist \in HistType
    BY <1>t DEF Held, Typed, JobsType
  <1>q. QueuedRight' BY QueuedStep DEF BlocksInv
  <1>b. (Booked \ hist.kept)' \in SUBSET Jobs /\ (Rebooked \ KeptAfter)' \in SUBSET Jobs BY DEF Booked, Rebooked
  <1>1. CASE ReplanRead BY <1>1, <1>q, ReadFits DEF BlocksInv
  <1>2. CASE ReplanWrite
    <2>1. replan' = NoReplan /\ replan.on BY <1>2 DEF ReplanWrite
    <2>2. PlanKept' BY <2>1 DEF PlanKept, NoReplan
    <2>3. CASE UNCHANGED <<job, hist>> BY <1>q, <2>2, <2>3 DEF BlocksInv, LedgerKept, RowWin, Booked
    <2>4. CASE ~UNCHANGED <<job, hist>>
      <3>1. /\ job' = [j \in Jobs |-> Flushed(j)]
            /\ hist' = [Noted(replan.kept, replan.free) EXCEPT !.revived = @ \cup {j \in replan.place : job[j].status = "failed"}]
        BY <1>2, <2>4 DEF ReplanWrite
      <3>2. hist'.kept = KeptAfter BY <3>1, <1>d DEF Noted, HistType, KeptAfter
      <3>3. \A j \in Jobs : Flushed(j).dur = job[j].dur BY <1>d DEF Flushed, Job
      <3>4. \A j \in (Booked \ hist.kept)' :
               j \in Rebooked \ KeptAfter /\ RowWin'[j] = FlushedWin[j] /\ job'[j].dur = job[j].dur
        BY <3>1, <3>2, <3>3 DEF Booked, Rebooked, RowWin, FlushedWin
      <3>5. WithinCap(job, FlushedWin, Rebooked \ KeptAfter) BY <2>1 DEF BlocksInv, PlanKept
      <3>6. WithinCap(job', RowWin', (Booked \ hist.kept)') BY <1>d, <1>b, <3>4, <3>5, BookedFits, FewerFit
      <3>. QED BY <1>q, <2>2, <3>6 DEF BlocksInv, LedgerKept
    <2>. QED BY <2>3, <2>4
  <1>3. ASSUME NEW j \in Jobs, NEW req \in Requests, NEW at \in Readings, Submit(j, req, at) PROVE BlocksInv'
    <2>1. LedgerKept' BY <1>3, <1>t, SubmitFits
    <2>2. ~replan.on /\ UNCHANGED replan BY <1>3 DEF Submit
    <2>. QED BY <1>q, <2>1, <2>2 DEF BlocksInv, PlanKept
  <1>4. CASE ~ReplanRead /\ ~ReplanWrite /\ \A j \in Jobs, req \in Requests, at \in Readings : ~Submit(j, req, at)
    <2>1. UNCHANGED hist BY <1>4, HistSteps
    <2>2. \A j \in Jobs : /\ job'[j].status \in {"scheduled", "running"} =>
                                job[j].status \in {"scheduled", "running"} /\ job'[j].dur = job[j].dur
                          /\ job'[j].win = job[j].win
      BY <1>4, BookedSteps
    <2>3. LedgerKept'
      <3>1. \A j \in (Booked \ hist.kept)' : j \in Booked \ hist.kept /\ RowWin'[j] = RowWin[j] /\ job'[j].dur = job[j].dur
        BY <2>1, <2>2 DEF Booked, RowWin
      <3>2. WithinCap(job, RowWin, Booked \ hist.kept) BY DEF BlocksInv, LedgerKept
      <3>3. WithinCap(job', RowWin', (Booked \ hist.kept)') BY <1>d, <1>b, <3>1, <3>2, BookedFits, FewerFit
      <3>. QED BY <3>3 DEF LedgerKept
    <2>4. PlanKept'
      <3>1. CASE replan' = NoReplan BY <3>1 DEF PlanKept, NoReplan
      <3>2. CASE UNCHANGED replan /\ replan.on
        <4>1. \A j \in Jobs : /\ Flushed(j).win = IF replan.win[j] # NoStart THEN replan.win[j] ELSE job[j].win
                              /\ Flushed(j).status = IF j \in replan.place THEN "scheduled" ELSE job[j].status
                              /\ Flushed(j)'.win = IF replan.win[j] # NoStart THEN replan.win[j] ELSE job'[j].win
                              /\ Flushed(j)'.status = IF j \in replan.place THEN "scheduled" ELSE job'[j].status
          BY <1>d, <3>2 DEF Flushed, Job
        <4>2. \A j \in Jobs : Flushed(j)'.status \in {"scheduled", "running"} => Flushed(j).status \in {"scheduled", "running"}
          BY <2>2, <4>1
        <4>3. \A j \in Jobs : Flushed(j)'.win = Flushed(j).win BY <2>2, <4>1
        <4>4. KeptAfter' = KeptAfter BY <2>1, <3>2 DEF KeptAfter
        <4>5. \A j \in Rebooked : job[j].status # "new"
          <5> SUFFICES ASSUME NEW j \in Rebooked, job[j].status = "new" PROVE FALSE OBVIOUS
          <5>1. Flushed(j).status \in {"scheduled", "running"} /\ Flushed(j).win # NoStart /\ j \in Jobs BY DEF Rebooked
          <5>. QED BY <4>1, <5>1 DEF Held, FreshRight
        <4>6. \A j \in (Rebooked \ KeptAfter)' : j \in Rebooked \ KeptAfter /\ FlushedWin'[j] = FlushedWin[j] /\ job'[j].dur = job[j].dur
          <5> SUFFICES ASSUME NEW j \in (Rebooked \ KeptAfter)'
                       PROVE  j \in Rebooked \ KeptAfter /\ FlushedWin'[j] = FlushedWin[j] /\ job'[j].dur = job[j].dur
            OBVIOUS
          <5>1. j \in Jobs /\ Flushed(j)'.status \in {"scheduled", "running"} /\ Flushed(j)'.win # NoStart /\ j \notin KeptAfter
            BY <4>4 DEF Rebooked
          <5>2. j \in Rebooked BY <4>2, <4>3, <5>1 DEF Rebooked
          <5>3. job'[j].dur = job[j].dur BY <4>5, <5>1, <5>2, RowSteps DEF RowStep
          <5>4. FlushedWin'[j] = FlushedWin[j] BY <4>3, <5>1 DEF FlushedWin
          <5>. QED BY <5>1, <5>2, <5>3, <5>4
        <4>7. WithinCap(job, FlushedWin, Rebooked \ KeptAfter) BY <3>2 DEF BlocksInv, PlanKept
        <4>8. WithinCap(job', FlushedWin', (Rebooked \ KeptAfter)') BY <1>d, <1>b, <4>6, <4>7, BookedFits, FewerFit
        <4>. QED BY <4>8 DEF PlanKept
      <3>3. CASE UNCHANGED replan /\ ~replan.on BY <3>3 DEF PlanKept
      <3>. QED BY <1>4, <3>1, <3>2, <3>3, ReplanSteps
    <2>. QED BY <1>q, <2>3, <2>4 DEF BlocksInv
  <1>. QED BY <1>1, <1>2, <1>3, <1>4

LEMMA BlocksInit == DispatchInit => BlocksInv
  <1> SUFFICES ASSUME DispatchInit PROVE BlocksInv OBVIOUS
  <1>1. Booked = {} /\ replan = NoReplan /\ \A j \in Jobs : job[j].status = "new"
    BY DEF DispatchInit, ServiceInit, NoJob, Booked
  <1>2. LedgerKept
    <2> SUFFICES ASSUME NEW b \in Blocks PROVE Load({}, b) <= CAP
      BY <1>1 DEF LedgerKept, WithinCap, Entries
    <2>1. UNION {Units(k, b) : k \in {}} = {} OBVIOUS
    <2>2. Load({}, b) = 0 BY <2>1, FS_EmptySet DEF Load
    <2>. QED BY <2>2, ServiceAssumption
  <1>. QED BY <1>1, <1>2 DEF BlocksInv, PlanKept, QueuedRight, NoReplan

(* Where no kept job runs, only the others count. *)
LEMMA CapKept == Held /\ BlocksInv => BlocksKept
  <1> SUFFICES ASSUME Held, BlocksInv, NEW b \in Blocks, \A j \in Booked \cap hist.kept : b \notin Spans(job[j].win, job[j].dur)
               PROVE  ~(LoadAt(b) > CAP)
    BY DEF BlocksKept
  <1> DEFINE all == Entries(job, RowWin, Booked)
             rest == Entries(job, RowWin, Booked \ hist.kept)
  <1>1. job \in JobsType /\ Booked \in SUBSET Jobs /\ \A j \in Booked : RowWin[j] \in MaybeMinute /\ RowWin[j] # NoStart
    BY DEF Held, Typed, JobsType, Booked, RowWin, Job
  <1>2. Bookables(all) /\ Bookables(rest) BY <1>1, BookedFits, EntriesOk
  <1>3. Bookings(Booked) = all BY DEF Bookings, BookingOf, Entries, RowWin, Booked
  <1>4. \A k \in all : b \in Spans(k.win, k.dur) => k \in rest BY DEF Entries, RowWin, Booked
  <1> HIDE DEF all, rest
  <1>5. Load(all, b) <= Load(rest, b) BY <1>2, <1>4, LoadWithin
  <1>6. Load(all, b) \in Nat /\ Load(rest, b) \in Nat BY <1>2, LoadFinite
  <1>7. Load(rest, b) <= CAP BY DEF BlocksInv, LedgerKept, WithinCap, rest
  <1>. QED BY <1>3, <1>5, <1>6, <1>7, ServiceAssumption DEF LoadAt

(* No block is booked beyond the cap, but by a job that a re-plan could not place again: for any jobs, prices, lengths *)
(* of blocks and caps, and whatever happens between the reads of a re-plan and its commit.                            *)
THEOREM BlocksAreKept == Spec => []BlocksKept
  <1>1. DispatchInit => Held /\ StartsRight /\ BlocksInv BY HeldInit, BlocksInit
  <1>2. (Held /\ StartsRight /\ BlocksInv) /\ [Next]_vars => (Held /\ StartsRight /\ BlocksInv)'
    <2>1. BlocksInv /\ UNCHANGED vars => BlocksInv'
      BY DEF BlocksInv, LedgerKept, PlanKept, QueuedRight, Booked, Rebooked, KeptAfter, RowWin, FlushedWin, Flushed, vars
    <2>. QED BY <2>1, HeldStep, StartsStep, HeldSame, BlocksStep
  <1>. QED BY <1>1, <1>2, CapKept, PTL DEF Spec
=============================================================================
