---------------------------- MODULE DispatchProofs ----------------------------
(***************************************************************************)
(* Proofs about the job service and its dispatcher, for any number of jobs *)
(* and slots, any prices, and any number of incidents of every kind.       *)
(***************************************************************************)
EXTENDS Dispatch, AllocatorProofs

LEMMA RunningFinite == NumJobs \in Nat => IsFiniteSet(Jobs)
  BY FS_Interval DEF Jobs

-----------------------------------------------------------------------------
(* Types *)

LEMMA RowTyped ==
    ASSUME NEW row \in Job, NEW st \in JobStatus
    PROVE  /\ [row EXCEPT !.status = st] \in Job
           /\ [row EXCEPT !.status = st, !.began = TRUE] \in Job
           /\ [row EXCEPT !.ref = TRUE] \in Job
           /\ \A win \in MaybeMinute : [row EXCEPT !.win = win, !.status = st] \in Job
  BY DEF Job

LEMMA TwinTyped ==
    ASSUME NEW row \in Twin, NEW st \in TwinStatus
    PROVE  [row EXCEPT !.status = st] \in Twin /\ [row EXCEPT !.ref = TRUE] \in Twin
  BY DEF Twin

LEMMA TypeInit == DispatchInit => DispatchTypeOK
  <1> SUFFICES ASSUME DispatchInit PROVE DispatchTypeOK OBVIOUS
  <1>1. ServiceTypeOK
    <2>1. NoJob \in Job BY ServiceAssumption DEF NoJob, Job, JobStatus, PROVIDERS, MaybeMinute, Minute
    <2>2. job \in [Jobs -> Job] BY <2>1 DEF DispatchInit, ServiceInit
    <2>3. twin \in [Jobs -> Twin] BY DEF DispatchInit, ServiceInit, Twin, TwinStatus
    <2>4. replan \in [on : BOOLEAN, win : [Jobs -> MaybeMinute], place : SUBSET Jobs, kept : SUBSET Jobs, free : SUBSET Jobs]
      BY DEF DispatchInit, ServiceInit, NoReplan, MaybeMinute
    <2>5. hist \in [kept : SUBSET Jobs, revived : SUBSET Jobs] /\ rate \in Curves
      BY DEF DispatchInit, ServiceInit
    <2>6. now \in 0 .. MaxTime BY ServiceAssumption DEF DispatchInit, ServiceInit, Minute
    <2>. QED BY <2>2, <2>3, <2>4, <2>5, <2>6 DEF ServiceTypeOK
  <1>2. prov \in [Kinds -> [Jobs -> Run]] BY DEF DispatchInit, Run
  <1>3. disp \in [pc : Phases, kind : Kinds, t : 0 .. MaxTime, todo : SUBSET Jobs, cur : Jobs \cup {0}, got : BOOLEAN]
    BY ServiceAssumption DEF DispatchInit, Idle, Phases, Kinds, Minute
  <1>8. ~(disp.pc \in {"start", "save"}) BY DEF DispatchInit, Idle
  <1>4. misses \in [Jobs -> 0 .. GRACE - 1] BY DispatchAssumption DEF DispatchInit
  <1>5. odd \in [turned : BOOLEAN, cut : SUBSET Jobs] BY DEF DispatchInit
  <1>6. spent \in 0 .. Budget BY DispatchAssumption DEF DispatchInit
  <1>7. logged \subseteq Jobs /\ providers \in Registries /\ sim \in BOOLEAN BY DEF DispatchInit
  <1>. QED BY <1>1, <1>2, <1>3, <1>4, <1>5, <1>6, <1>7, <1>8 DEF DispatchTypeOK

(* The types by name, so that a step has to open only those it touches. *)
Times == 0 .. MaxTime
DispType ==
    {d \in [pc : Phases, kind : Kinds, t : Times, todo : SUBSET Jobs, cur : Jobs \cup {0}, got : BOOLEAN] :
        d.pc \in {"start", "save"} => d.cur # 0}
JobsType == [Jobs -> Job]
TwinsType == [Jobs -> Twin]
ReplanType == [on : BOOLEAN, win : [Jobs -> MaybeMinute], place : SUBSET Jobs, kept : SUBSET Jobs, free : SUBSET Jobs]
HistType == [kept : SUBSET Jobs, revived : SUBSET Jobs]
MissesType == [Jobs -> 0 .. GRACE - 1]
ProvType == [Kinds -> [Jobs -> Run]]
OddType == [turned : BOOLEAN, cut : SUBSET Jobs]

Typed ==
    /\ now \in Times /\ rate \in Curves /\ job \in JobsType /\ twin \in TwinsType
    /\ replan \in ReplanType /\ hist \in HistType /\ disp \in DispType /\ misses \in MissesType
    /\ logged \subseteq Jobs /\ prov \in ProvType /\ providers \in Registries /\ sim \in BOOLEAN
    /\ odd \in OddType /\ spent \in 0 .. Budget

LEMMA TypedIs == (DispatchTypeOK <=> Typed) /\ (DispatchTypeOK' <=> Typed')
  BY DEF DispatchTypeOK, ServiceTypeOK, Typed, Times, DispType, JobsType, TwinsType, ReplanType, HistType, MissesType,
         ProvType, OddType

LEMMA Zero == 0 \in Times
  BY ServiceAssumption DEF Times, Minute

LEMMA IdleTyped == Idle \in DispType /\ Down \in DispType
  <1>1. Idle \in DispType BY Zero DEF Idle, DispType, Phases, Kinds
  <1>. QED BY <1>1 DEF Down, DispType, Phases

(* A request reads the clock less than a minute before it is let in. *)
LEMMA ReadingsAre == Typed => \A at \in Readings : at \in Times /\ at <= now /\ now - 1 <= at
  BY ServiceAssumption DEF Typed, Readings, Latest, Times, Minute

(* What a submission or a re-plan computes is a window, or none. *)
LEMMA PlacedTyped ==
    ASSUME Typed, NEW j \in Jobs, NEW at \in Times, NEW dur \in Nat, NEW deadline \in Times, NEW ledger
    PROVE  Placed(j, at, dur, deadline, ledger) \in MaybeMinute
  <1> DEFINE start == allocate(Jitter[j], dur, at, deadline, PricesIn(rate, at, deadline), ledger, CAP, 1)
  <1>1. at \in Nat /\ deadline \in Minute /\ Jitter[j] \in Nat BY ServiceAssumption, AllocatorAssumption DEF Times, Minute
  <1>2. DOMAIN PricesIn(rate, at, deadline) \subseteq Blocks BY ServiceAssumption DEF Typed, PricesIn
  <1>3. start \in MaybeMinute BY <1>1, <1>2, AllocateTyped
  <1>4. Placed(j, at, dur, deadline, ledger) \in {start, NoStart} BY DEF Placed
  <1>. QED BY <1>3, <1>4 DEF MaybeMinute

LEMMA WindowTyped ==
    ASSUME Typed, NEW j \in Jobs, NEW win
    PROVE  Window(j, win) \in MaybeMinute
  <1>1. now \in Nat /\ job[j].dl \in Minute /\ job[j].dur \in Nat /\ job[j].win \in MaybeMinute /\ Jitter[j] \in Nat
    <2>1. job[j] \in Job BY DEF Typed, JobsType
    <2>. QED BY <2>1, ServiceAssumption, AllocatorAssumption DEF Typed, Times, Job, Minute
  <1>2. DOMAIN Known \subseteq Blocks BY ServiceAssumption DEF Typed, Known, PricesIn
  <1>3. Found(j, win) \in MaybeMinute BY <1>1, <1>2, AllocateTyped DEF Found
  <1>4. Window(j, win) \in {job[j].win, NoStart, Found(j, win)} BY DEF Window
  <1>. QED BY <1>1, <1>3, <1>4 DEF MaybeMinute

(* The windows of a re-plan: each is what its turn makes of those before it. *)
WindowAfter == [j \in Jobs |-> [win \in [Jobs -> MaybeMinute] |-> Window(j, win)]]

LEMMA WindowsStepwise == Typed => Stepwise(Jobs, MaybeMinute, WindowAfter)
  <1> SUFFICES ASSUME Typed PROVE Stepwise(Jobs, MaybeMinute, WindowAfter) OBVIOUS
  <1>1. \A j \in Jobs, win \in [Jobs -> MaybeMinute] : WindowAfter[j][win] \in MaybeMinute
    BY WindowTyped DEF WindowAfter
  <1>2. ASSUME NEW j \in Jobs, NEW f \in [Jobs -> MaybeMinute], NEW g \in [Jobs -> MaybeMinute],
               \A i \in Jobs : i < j => f[i] = g[i]
        PROVE  WindowAfter[j][f] = WindowAfter[j][g]
    <2> DEFINE before(win) == {i \in MovableJobs : i < j /\ win[i] # NoStart}
               entries(win) == {BookingOf(i, win[i]) : i \in before(win)}
    <2>1. MovableJobs \subseteq Jobs BY DEF MovableJobs
    <2>2. before(f) = before(g) /\ \A i \in before(f) : f[i] = g[i] BY <1>2, <2>1
    <2>3. entries(f) = entries(g) BY <2>2
    <2>4. Found(j, f) = Found(j, g) BY <2>3 DEF Found
    <2>5. Window(j, f) = Window(j, g) BY <2>4 DEF Window
    <2>. QED BY <2>5 DEF WindowAfter
  <1>. QED BY <1>1, <1>2 DEF Stepwise

LEMMA ReplannedIs ==
    ASSUME Typed
    PROVE  Replanned \in [Jobs -> MaybeMinute] /\ \A j \in Jobs : Replanned[j] = Window(j, Replanned)
  <1>1. PICK f \in [Jobs -> MaybeMinute] : \A j \in Jobs : f[j] = WindowAfter[j][f]
    <2>1. Jobs \in SUBSET Nat /\ MaybeMinute # {} BY DEF Jobs, MaybeMinute
    <2>. QED BY <2>1, WindowsStepwise, ThereIsOne
  <1> DEFINE IsReplan(win) == win = [j \in Jobs |-> Window(j, win)]
  <1>2. IsReplan(f)
    <2>1. \A j \in Jobs : f[j] = Window(j, f) BY <1>1 DEF WindowAfter
    <2>. QED BY <2>1
  <1>3. Replanned = CHOOSE win : IsReplan(win) BY DEF Replanned
  <1> HIDE DEF IsReplan
  <1>4. IsReplan(Replanned) BY <1>2, <1>3
  <1>5. Replanned = [j \in Jobs |-> Window(j, Replanned)] BY <1>4 DEF IsReplan
  <1>6. \A j \in Jobs : Replanned[j] = Window(j, Replanned) BY <1>5
  <1>. QED BY <1>5, <1>6, WindowTyped

LEMMA SpentTyped ==
    ASSUME spent \in 0 .. Budget, NEW kind, Incident(kind)
    PROVE  spent' \in 0 .. Budget
  BY DispatchAssumption DEF Incident

LEMMA FireTyped == Typed /\ FireStep => Typed'
  <1> SUFFICES ASSUME Typed, FireStep PROVE Typed' OBVIOUS
  <1>d. disp \in DispType /\ \A j \in Jobs : job[j] \in Job /\ twin[j] \in Twin BY DEF Typed, JobsType, TwinsType
  <1>1. CASE TickBegin
    <2>1. job' \in JobsType
      <3>1. \A j \in Jobs : Expired(now)[j] \in Job
        <4> SUFFICES ASSUME NEW j \in Jobs PROVE Expired(now)[j] \in Job OBVIOUS
        <4>1. [job[j] EXCEPT !.status = "failed"] \in Job BY <1>d, RowTyped DEF JobStatus
        <4>. QED BY <4>1, <1>d DEF Expired
      <3>2. job' = Expired(now) BY <1>1 DEF TickBegin
      <3>3. Expired(now) = [j \in Jobs |-> Expired(now)[j]] BY DEF Expired
      <3>. QED BY <3>1, <3>2, <3>3 DEF JobsType
    <2>2. disp' \in DispType
      <3>1. disp' = [Idle EXCEPT !.pc = "due", !.t = now] /\ now \in Times /\ "due" \in Phases
        BY <1>1 DEF TickBegin, Typed, Phases
      <3>. QED BY <3>1, IdleTyped DEF DispType
    <2>3. odd' \in OddType BY <1>1 DEF TickBegin, OddType, Typed
    <2>. QED BY <1>1, <2>1, <2>2, <2>3 DEF TickBegin, Typed
  <1>2. CASE SelectDue
    <2>1. disp' \in DispType
      <3>1. \E todo \in SUBSET Jobs : disp' = [disp EXCEPT !.pc = "claim", !.todo = todo]
        BY <1>2 DEF SelectDue, FirstOf
      <3>. QED BY <3>1, <1>d DEF DispType, Phases
    <2>. QED BY <1>2, <2>1 DEF SelectDue, Typed
  <1>3. CASE SelectTwins
    <2>1. disp' \in DispType
      <3>1. \E todo \in SUBSET Jobs : disp' = [disp EXCEPT !.kind = "without", !.t = 0, !.todo = todo]
        BY <1>3 DEF SelectTwins, FirstOf
      <3>. QED BY <3>1, <1>d, Zero DEF DispType, Kinds
    <2>. QED BY <1>3, <2>1 DEF SelectTwins, Typed
  <1>4. ASSUME NEW j \in Jobs, Claim(j) PROVE Typed'
    <2>1. disp' \in DispType
      <3>0. j # 0 BY DEF Jobs
      <3>1. disp.todo \ {j} \in SUBSET Jobs BY <1>d DEF DispType
      <3>2. \/ disp' = [disp EXCEPT !.pc = "start", !.cur = j, !.todo = disp.todo \ {j}]
            \/ disp' = [disp EXCEPT !.todo = disp.todo \ {j}]
        BY <1>4, <1>d DEF Claim, DispType
      <3>3. [disp EXCEPT !.pc = "start", !.cur = j, !.todo = disp.todo \ {j}] \in DispType
        BY <3>0, <3>1, <1>d DEF DispType, Phases
      <3>4. [disp EXCEPT !.todo = disp.todo \ {j}] \in DispType BY <3>1, <1>d DEF DispType
      <3>. QED BY <3>2, <3>3, <3>4
    <2>2. job' \in JobsType
      <3>1. [job[j] EXCEPT !.status = "running", !.began = TRUE] \in Job BY <1>d, RowTyped DEF JobStatus
      <3>2. job' = job \/ job' = [job EXCEPT ![j] = [job[j] EXCEPT !.status = "running", !.began = TRUE]]
        BY <1>4 DEF Claim, Typed, JobsType
      <3>. QED BY <3>1, <3>2 DEF JobsType, Typed
    <2>. QED BY <1>4, <2>1, <2>2 DEF Claim, Typed
  <1>5. ASSUME NEW j \in Jobs, ClaimTwin(j) PROVE Typed'
    <2>1. disp' \in DispType
      <3>0. j # 0 BY DEF Jobs
      <3>1. disp.todo \ {j} \in SUBSET Jobs BY <1>d DEF DispType
      <3>2. \/ disp' = [disp EXCEPT !.pc = "start", !.cur = j, !.todo = disp.todo \ {j}]
            \/ disp' = [disp EXCEPT !.todo = disp.todo \ {j}]
        BY <1>5, <1>d DEF ClaimTwin, DispType
      <3>3. [disp EXCEPT !.pc = "start", !.cur = j, !.todo = disp.todo \ {j}] \in DispType
        BY <3>0, <3>1, <1>d DEF DispType, Phases
      <3>4. [disp EXCEPT !.todo = disp.todo \ {j}] \in DispType BY <3>1, <1>d DEF DispType
      <3>. QED BY <3>2, <3>3, <3>4
    <2>2. twin' \in TwinsType
      <3>1. [twin[j] EXCEPT !.status = "running"] \in Twin BY <1>d, TwinTyped DEF TwinStatus
      <3>2. twin' = twin \/ twin' = [twin EXCEPT ![j] = [twin[j] EXCEPT !.status = "running"]]
        BY <1>5 DEF ClaimTwin, Typed, TwinsType
      <3>. QED BY <3>1, <3>2 DEF TwinsType, Typed
    <2>. QED BY <1>5, <2>1, <2>2 DEF ClaimTwin, Typed
  <1>6. CASE Start
    <2>1. disp' \in DispType
      <3>1. disp' = Idle \/ \E got \in BOOLEAN : disp.pc = "start" /\ disp' = [disp EXCEPT !.pc = "save", !.got = got]
        BY <1>6 DEF Start, Abort
      <3>. QED BY <3>1, <1>d, IdleTyped DEF DispType, Phases
    <2>2. prov' \in ProvType
      <3>1. ASSUME NEW st \in {"none", "live"}, prov' = [prov EXCEPT ![disp.kind][disp.cur] = [st |-> st, starts |-> @.starts + 1]]
            PROVE  prov' \in ProvType
        <4>1. \A k \in Kinds, j \in Jobs : prov[k][j] \in Run BY DEF Typed, ProvType
        <4>2. \A k \in Kinds, j \in Jobs : [st |-> st, starts |-> prov[k][j].starts + 1] \in Run BY <4>1 DEF Run
        <4>. QED BY <3>1, <4>1, <4>2 DEF Typed, ProvType
      <3>2. prov' = prov \/ \E st \in {"none", "live"} :
               prov' = [prov EXCEPT ![disp.kind][disp.cur] = [st |-> st, starts |-> @.starts + 1]]
        BY <1>6 DEF Start
      <3>. QED BY <3>1, <3>2 DEF Typed
    <2>3. spent' \in 0 .. Budget
      <3>1. spent' = spent \/ Incident("start") BY <1>6 DEF Start
      <3>. QED BY <3>1, SpentTyped DEF Typed
    <2>4. UNCHANGED <<now, rate, job, twin, replan, hist, misses, logged, providers, sim, odd>> BY <1>6 DEF Start
    <2>. QED BY <2>1, <2>2, <2>3, <2>4 DEF Typed
  <1>7. CASE Save
    <2>1. disp' \in DispType
      <3>1. disp' = Idle \/ disp' = [disp EXCEPT !.pc = "claim", !.cur = 0, !.got = FALSE] BY <1>7 DEF Save, Abort
      <3>. QED BY <3>1, <1>d, IdleTyped DEF DispType, Phases
    <2>2. job' \in JobsType
      <3>1. ASSUME disp.cur \in Jobs PROVE Saved(job[disp.cur]) \in Job BY <3>1, <1>d, RowTyped DEF Saved, JobStatus
      <3>2. job' = job \/ job' = [job EXCEPT ![disp.cur] = Saved(job[disp.cur])] BY <1>7 DEF Save, Typed, JobsType
      <3>. QED BY <3>1, <3>2 DEF Typed, JobsType
    <2>3. twin' \in TwinsType
      <3>1. ASSUME disp.cur \in Jobs PROVE Saved(twin[disp.cur]) \in Twin BY <3>1, <1>d, TwinTyped DEF Saved, TwinStatus
      <3>2. twin' = twin \/ twin' = [twin EXCEPT ![disp.cur] = Saved(twin[disp.cur])] BY <1>7 DEF Save, Typed, TwinsType
      <3>. QED BY <3>1, <3>2 DEF Typed, TwinsType
    <2>. QED BY <1>7, <2>1, <2>2, <2>3 DEF Save, Typed
  <1>. QED BY <1>1, <1>2, <1>3, <1>4, <1>5, <1>6, <1>7 DEF FireStep

LEMMA PollTyped == Typed /\ PollStep => Typed'
  <1> SUFFICES ASSUME Typed, PollStep PROVE Typed' OBVIOUS
  <1>d. disp \in DispType /\ \A j \in Jobs : job[j] \in Job /\ twin[j] \in Twin BY DEF Typed, JobsType, TwinsType
  <1>1. CASE SelectRunning
    <2>1. disp' \in DispType BY <1>1, <1>d DEF SelectRunning, RunningJobs, DispType, Phases, Kinds
    <2>. QED BY <1>1, <2>1 DEF SelectRunning, Typed
  <1>2. CASE SelectRunningTwins
    <2>1. disp' \in DispType BY <1>2, <1>d DEF SelectRunningTwins, RunningTwins, DispType, Phases, Kinds
    <2>. QED BY <1>2, <2>1 DEF SelectRunningTwins, Typed
  <1>3. CASE TickEnd
    <2>. QED BY <1>3, IdleTyped DEF TickEnd, Typed
  <1>4. ASSUME NEW j \in Jobs, Poll(j) PROVE Typed'
    <2>1. disp' \in DispType
      <3>1. disp' = Idle \/ disp' = [disp EXCEPT !.todo = @ \ {j}] BY <1>4 DEF Poll, Passed, Abort
      <3>. QED BY <3>1, <1>d, IdleTyped DEF DispType
    <2>2. job' \in JobsType
      <3>1. \A st \in JobStatus : [job[j] EXCEPT !.status = st] \in Job BY <1>d, RowTyped
      <3>2. \/ job' = job \/ \E st \in JobStatus : job' = [job EXCEPT ![j] = [job[j] EXCEPT !.status = st]]
        <4>1. "done" \in JobStatus /\ "failed" \in JobStatus BY DEF JobStatus
        <4>2. \/ job' = job \/ job' = [job EXCEPT ![j].status = "failed"] \/ job' = [job EXCEPT ![j].status = "done"]
          BY <1>4 DEF Poll, NotFound, Resolved
        <4>. QED BY <4>1, <4>2
      <3>. QED BY <3>1, <3>2 DEF Typed, JobsType
    <2>3. misses' \in MissesType
      <3>1. \/ misses' = misses \/ misses' = [misses EXCEPT ![j] = 0]
            \/ ~(misses[j] + 1 >= GRACE) /\ misses' = [misses EXCEPT ![j] = @ + 1]
        BY <1>4 DEF Poll, NotFound, Resolved
      <3>2. misses \in [Jobs -> 0 .. GRACE - 1] BY DEF Typed, MissesType
      <3>. QED BY <3>1, <3>2, DispatchAssumption DEF MissesType
    <2>4. logged' = logged \/ logged' = logged \cup {j} BY <1>4 DEF Poll, Resolved
    <2>5. spent' \in 0 .. Budget
      <3>1. spent' = spent \/ Incident("status") BY <1>4 DEF Poll
      <3>. QED BY <3>1, SpentTyped DEF Typed
    <2>6. UNCHANGED <<now, rate, twin, replan, hist, prov, providers, sim, odd>> BY <1>4 DEF Poll
    <2>. QED BY <2>1, <2>2, <2>3, <2>4, <2>5, <2>6 DEF Typed
  <1>5. ASSUME NEW j \in Jobs, PollTwin(j) PROVE Typed'
    <2>1. disp' \in DispType
      <3>1. disp' = Idle \/ disp' = [disp EXCEPT !.todo = @ \ {j}] BY <1>5 DEF PollTwin, Passed, Abort
      <3>. QED BY <3>1, <1>d, IdleTyped DEF DispType
    <2>2. twin' \in TwinsType
      <3>1. \A st \in {"done", "failed"} : [twin[j] EXCEPT !.status = st] \in Twin BY <1>d, TwinTyped DEF TwinStatus
      <3>2. \/ twin' = twin \/ \E st \in {"done", "failed"} : twin' = [twin EXCEPT ![j] = [twin[j] EXCEPT !.status = st]]
        BY <1>5 DEF PollTwin
      <3>. QED BY <3>1, <3>2 DEF Typed, TwinsType
    <2>3. spent' \in 0 .. Budget
      <3>1. spent' = spent \/ Incident("status") BY <1>5 DEF PollTwin
      <3>. QED BY <3>1, SpentTyped DEF Typed
    <2>4. UNCHANGED <<now, rate, job, replan, hist, misses, logged, prov, providers, sim, odd>> BY <1>5 DEF PollTwin
    <2>. QED BY <2>1, <2>2, <2>3, <2>4 DEF Typed
  <1>. QED BY <1>1, <1>2, <1>3, <1>4, <1>5 DEF PollStep

LEMMA ServiceTyped == Typed /\ ServiceStep => Typed'
  <1> SUFFICES ASSUME Typed, ServiceStep PROVE Typed' OBVIOUS
  <1>d. \A j \in Jobs : job[j] \in Job /\ twin[j] \in Twin BY DEF Typed, JobsType, TwinsType
  <1>r. replan \in ReplanType /\ hist \in HistType BY DEF Typed
  <1>u. UNCHANGED dispatchVars BY DEF ServiceStep
  <1>1. ASSUME NEW j \in Jobs, NEW req \in Requests, NEW at \in Readings, Submit(j, req, at) PROVE Typed'
    <2>1. job' \in JobsType
      <3> DEFINE start == Placed(j, at, req.dur, at + req.dur + req.slack, Ledger(Bookings(Booked)))
                 row == [status |-> IF start = NoStart THEN "queued" ELSE "scheduled", win |-> start,
                         dl |-> at + req.dur + req.slack, dur |-> req.dur, provider |-> req.provider,
                         began |-> FALSE, ref |-> FALSE]
      <3>1. job' = [job EXCEPT ![j] = row] /\ at + req.dur + req.slack < MaxTime BY <1>1 DEF Submit
      <3>2. req.dur \in Nat /\ req.slack \in Nat /\ req.provider \in PROVIDERS BY <1>1, ServiceAssumption DEF Submit, validate
      <3>3. at \in Times /\ at + req.dur + req.slack \in Times BY <3>1, <3>2, ReadingsAre, ServiceAssumption DEF Times, Minute
      <3>4. start \in MaybeMinute BY <3>2, <3>3, PlacedTyped
      <3> HIDE DEF start
      <3>5. row \in Job BY <3>2, <3>3, <3>4 DEF Job, JobStatus, Times
      <3>. QED BY <3>1, <3>5 DEF JobsType, Typed
    <2>2. twin' \in TwinsType
      <3>1. \A st \in {"scheduled", "none"} : [twin[j] EXCEPT !.status = st] \in Twin BY <1>d, TwinTyped DEF TwinStatus
      <3>2. \E st \in {"scheduled", "none"} : twin' = [twin EXCEPT ![j] = [twin[j] EXCEPT !.status = st]]
        BY <1>1 DEF Submit
      <3>. QED BY <3>1, <3>2 DEF Typed, TwinsType
    <2>3. UNCHANGED <<now, rate, replan, hist>> BY <1>1 DEF Submit
    <2>. QED BY <2>1, <2>2, <2>3, <1>u DEF Typed, dispatchVars
  <1>2. CASE ReplanRead
    <2> DEFINE win == Replanned
               changed == {j \in MovableJobs : win[j] # NoStart /\ (win[j] # job[j].win \/ job[j].status = "queued")}
               kept == {j \in MovableJobs : job[j].status = "scheduled" /\ Found(j, win) = NoStart}
               new == [j \in Jobs |-> IF j \in changed THEN win[j] ELSE NoStart]
               placed == {j \in changed : job[j].status = "queued"}
    <2>0. win \in [Jobs -> MaybeMinute] BY ReplannedIs
    <2>1. /\ \/ hist' = Noted(kept, MovableJobs) /\ UNCHANGED replan
             \/ /\ UNCHANGED hist
                /\ replan' = [on |-> TRUE, win |-> new, place |-> placed, kept |-> kept, free |-> MovableJobs]
          /\ UNCHANGED <<now, rate, job, twin>>
      BY <1>2 DEF ReplanRead
    <2>2. MovableJobs \in SUBSET Jobs BY DEF MovableJobs
    <2>3. kept \in SUBSET Jobs /\ placed \in SUBSET Jobs BY <2>2
    <2>4. new \in [Jobs -> MaybeMinute] BY <2>0 DEF MaybeMinute
    <2> HIDE DEF win, changed, kept, new, placed
    <2>5. hist' \in HistType BY <2>1, <2>2, <2>3, <1>r DEF Noted, HistType
    <2>6. replan' \in ReplanType
      <3>1. CASE UNCHANGED replan BY <3>1, <1>r
      <3>2. CASE replan' = [on |-> TRUE, win |-> new, place |-> placed, kept |-> kept, free |-> MovableJobs]
        BY <3>2, <2>2, <2>3, <2>4 DEF ReplanType
      <3>. QED BY <2>1, <3>1, <3>2
    <2>. QED BY <2>1, <2>5, <2>6, <1>u DEF Typed, dispatchVars
  <1>3. CASE ReplanWrite
    <2>1. job' \in JobsType
      <3>1. \A j \in Jobs : Flushed(j) \in Job
        <4> SUFFICES ASSUME NEW j \in Jobs PROVE Flushed(j) \in Job OBVIOUS
        <4> DEFINE win == IF replan.win[j] # NoStart THEN replan.win[j] ELSE job[j].win
                   st == IF j \in replan.place THEN "scheduled" ELSE job[j].status
        <4>1. win \in MaybeMinute /\ st \in JobStatus BY <1>d, <1>r DEF Job, ReplanType, JobStatus
        <4>2. Flushed(j) = [job[j] EXCEPT !.win = win, !.status = st] BY DEF Flushed
        <4> HIDE DEF win, st
        <4>. QED BY <4>1, <4>2, <1>d DEF Job
      <3>2. job' = job \/ job' = [j \in Jobs |-> Flushed(j)] BY <1>3 DEF ReplanWrite
      <3>. QED BY <3>1, <3>2 DEF Typed, JobsType
    <2>2. hist' \in HistType
      <3> DEFINE again == {j \in replan.place : job[j].status = "failed"}
                 noted == Noted(replan.kept, replan.free)
      <3>1. noted \in HistType BY <1>r DEF Noted, HistType, ReplanType
      <3>2. again \in SUBSET Jobs BY <1>r DEF ReplanType
      <3>3. hist' = hist \/ hist' = [noted EXCEPT !.revived = @ \cup again] BY <1>3 DEF ReplanWrite
      <3> HIDE DEF again, noted
      <3>. QED BY <3>1, <3>2, <3>3, <1>r DEF HistType
    <2>3. replan' \in ReplanType BY <1>3 DEF ReplanWrite, NoReplan, MaybeMinute, ReplanType
    <2>4. UNCHANGED <<now, rate, twin>> BY <1>3 DEF ReplanWrite
    <2>. QED BY <2>1, <2>2, <2>3, <2>4, <1>u DEF Typed, dispatchVars
  <1>4. CASE Ingest BY <1>4, <1>u DEF Ingest, Typed, dispatchVars
  <1>5. CASE Tick
    <2>1. now' \in Times BY <1>5, ServiceAssumption DEF Tick, Minute, Times, Typed
    <2>. QED BY <1>5, <1>u, <2>1 DEF Tick, Typed, dispatchVars
  <1>. QED BY <1>1, <1>2, <1>3, <1>4, <1>5 DEF ServiceStep, create_job

Upset == Crash \/ Restart \/ TickAborts \/ ARunEnds \/ (\E reset \in BOOLEAN : DemoReplay(reset)) \/ DemoLive

LEMMA UpsetTyped == Typed /\ Upset => Typed'
  <1> SUFFICES ASSUME Typed, Upset PROVE Typed' OBVIOUS
  <1>d. disp \in DispType /\ \A j \in Jobs : job[j] \in Job /\ twin[j] \in Twin BY DEF Typed, JobsType, TwinsType
  <1>t. Anchors \subseteq Times /\ RealTimes \subseteq Times /\ Sample \in Curves BY DispatchAssumption DEF Times
  <1>1. CASE Crash
    <2>1. replan' \in ReplanType BY <1>1 DEF Crash, NoReplan, MaybeMinute, ReplanType
    <2>2. misses' \in MissesType BY <1>1, DispatchAssumption DEF Crash, MissesType
    <2>3. spent' \in 0 .. Budget BY <1>1, SpentTyped DEF Crash, Typed
    <2>. QED BY <1>1, <2>1, <2>2, <2>3, IdleTyped DEF Crash, Typed
  <1>2. CASE Restart
    <2>1. job' \in JobsType
      <3>1. \A j \in Jobs : RecoveredRow(job[j]) \in Job BY <1>d, RowTyped DEF RecoveredRow, JobStatus
      <3>. QED BY <1>2, <3>1 DEF Restart, JobsType
    <2>2. now' \in Times /\ rate' \in Curves BY <1>2, <1>t DEF Restart, Typed
    <2>3. odd' \in OddType BY <1>2 DEF Restart, OddType, Typed
    <2>. QED BY <1>2, <2>1, <2>2, <2>3, IdleTyped DEF Restart, Typed
  <1>3. CASE TickAborts
    <2>1. odd' \in OddType
      <3>1. \E cut \in SUBSET Jobs : odd' = [odd EXCEPT !.cut = cut]
        <4>1. odd.cut \in SUBSET Jobs BY DEF Typed, OddType
        <4>2. disp.pc \in {"start", "save"} => odd.cut \cup {disp.cur} \in SUBSET Jobs BY <4>1, <1>d DEF DispType
        <4>. QED BY <1>3, <4>1, <4>2 DEF TickAborts
      <3>. QED BY <3>1 DEF OddType, Typed
    <2>2. spent' \in 0 .. Budget BY <1>3, SpentTyped DEF TickAborts, Typed
    <2>. QED BY <1>3, <2>1, <2>2, IdleTyped DEF TickAborts, Abort, Typed
  <1>4. CASE ARunEnds
    <2>1. prov' \in ProvType
      <3>1. PICK k \in Kinds, j \in Jobs : prov' = [prov EXCEPT ![k][j].st = "over"] BY <1>4 DEF ARunEnds, RunEnds
      <3>2. prov[k][j] \in Run /\ prov' = [prov EXCEPT ![k] = [prov[k] EXCEPT ![j] = [prov[k][j] EXCEPT !.st = "over"]]]
        BY <3>1 DEF Typed, ProvType
      <3>3. [prov[k][j] EXCEPT !.st = "over"] \in Run BY <3>2 DEF Run
      <3>. QED BY <3>2, <3>3 DEF Typed, ProvType
    <2>. QED BY <1>4, <2>1 DEF ARunEnds, RunEnds, Typed
  <1>5. ASSUME NEW reset \in BOOLEAN, DemoReplay(reset) PROVE Typed'
    <2>1. job' \in JobsType
      <3>1. \A j \in Jobs : [job[j] EXCEPT !.status = "deleted"] \in Job BY <1>d, RowTyped DEF JobStatus
      <3>2. \/ job' = job
            \/ job' = [j \in Jobs |-> IF j \in Submitted THEN [job[j] EXCEPT !.status = "deleted"] ELSE job[j]]
        BY <1>5 DEF DemoReplay
      <3>. QED BY <3>1, <3>2, <1>d DEF JobsType, Typed
    <2>2. twin' \in TwinsType
      <3>1. [status |-> "none", ref |-> FALSE] \in Twin BY DEF Twin, TwinStatus
      <3>. QED BY <1>5, <3>1 DEF DemoReplay, TwinsType, Typed
    <2>3. logged' \subseteq Jobs /\ now' \in Times /\ rate' \in Curves BY <1>5, <1>t DEF DemoReplay, Typed
    <2>4. TurnClock(TRUE) BY <1>5 DEF DemoReplay
    <2>5. odd' \in OddType BY <2>4 DEF TurnClock, OddType, Typed
    <2>6. spent' \in 0 .. Budget BY <2>4, SpentTyped DEF TurnClock, Typed
    <2>. QED BY <2>1, <2>2, <2>3, <2>4, <2>5, <2>6 DEF TurnClock, Typed
  <1>6. CASE DemoLive
    <2>1. TurnClock(FALSE) BY <1>6 DEF DemoLive
    <2>2. odd' \in OddType BY <2>1 DEF TurnClock, OddType, Typed
    <2>3. spent' \in 0 .. Budget BY <2>1, SpentTyped DEF TurnClock, Typed
    <2>. QED BY <1>6, <1>t, <2>1, <2>2, <2>3 DEF DemoLive, TurnClock, Typed
  <1>. QED BY <1>1, <1>2, <1>3, <1>4, <1>5, <1>6 DEF Upset

(* Every variable keeps its type, whatever is submitted, re-planned, fails, crashes or is reset. *)
THEOREM DispatchTypeInvariant == Spec => []DispatchTypeOK
  <1>1. DispatchInit => DispatchTypeOK BY TypeInit
  <1>2. DispatchTypeOK /\ [Next]_vars => DispatchTypeOK'
    <2>1. DispatchTypeOK /\ Next => DispatchTypeOK'
      BY FireTyped, PollTyped, ServiceTyped, UpsetTyped, TypedIs DEF Next, Upset
    <2>2. DispatchTypeOK /\ UNCHANGED vars => DispatchTypeOK' BY DEF DispatchTypeOK, ServiceTypeOK, vars
    <2>. QED BY <2>1, <2>2
  <1>. QED BY <1>1, <1>2, PTL DEF Spec

-----------------------------------------------------------------------------
(* One outcome for every job: the implementation of JobContract *)

Pending == {"new", "queued", "scheduled"}

(* A row says that its job began exactly from when it is claimed; but failed and deleted rows may be of either kind. *)
RowRight(row) ==
    /\ row.status \in Pending => ~row.began
    /\ row.status \in {"running", "done"} => row.began

RowsRight == \A j \in Jobs : RowRight(job[j])

(* What a re-plan is about to schedule has not begun, though it may have expired or been deleted by now. *)
ReplanRight ==
    replan.on => \A j \in replan.place :
        /\ replan.win[j] # NoStart
        /\ job[j].status \in {"queued", "failed", "deleted"}
        /\ job[j].status # "deleted" => ~job[j].began

(* The jobs that the tick is at are running, unless they were deleted. *)
TickRight ==
    /\ disp.pc \in {"start", "save"} /\ disp.kind = "with" => job[disp.cur].status \in {"running", "deleted"}
    /\ disp.pc = "poll" /\ disp.kind = "with" => \A j \in disp.todo : job[j].status \in {"running", "deleted"}

ContractInv == RowsRight /\ ReplanRight /\ TickRight

Phase == [j \in Jobs |-> PhaseOf(job[j])]
ContractStep == Contract!ContractNext \/ UNCHANGED <<Phase, logged>>

LEMMA PhaseSame ==
    ASSUME \A j \in Jobs : PhaseOf(job'[j]) = PhaseOf(job[j])
    PROVE  UNCHANGED Phase
  BY DEF Phase

LEMMA PhaseOne ==
    ASSUME Typed, NEW j \in Jobs, NEW row, job' = [job EXCEPT ![j] = row]
    PROVE  Phase' = [Phase EXCEPT ![j] = PhaseOf(row)]
  <1>1. job \in [Jobs -> Job] BY DEF Typed, JobsType
  <1>2. job'[j] = row /\ \A i \in Jobs \ {j} : job'[i] = job[i] BY <1>1
  <1>3. Phase' = [i \in Jobs |-> PhaseOf(job'[i])] BY DEF Phase
  <1>4. \A i \in Jobs : PhaseOf(job'[i]) = IF i = j THEN PhaseOf(row) ELSE Phase[i] BY <1>2 DEF Phase
  <1>5. DOMAIN Phase = Jobs /\ Phase = [i \in Jobs |-> Phase[i]] BY DEF Phase
  <1> HIDE DEF Phase
  <1>. QED BY <1>3, <1>4, <1>5

(* What PhaseOf makes of a row. *)
LEMMA PhaseCases ==
    ASSUME NEW row, RowRight(row)
    PROVE  /\ row.status \in Pending => PhaseOf(row) = "idle"
           /\ row.status = "running" => PhaseOf(row) = "started"
           /\ row.status = "done" => PhaseOf(row) = "done"
           /\ row.status = "deleted" => PhaseOf(row) = "forgotten"
           /\ row.status = "failed" /\ row.began => PhaseOf(row) = "failed"
           /\ row.status = "failed" /\ ~row.began => PhaseOf(row) = "idle"
  BY DEF RowRight, Pending, PhaseOf

(* The steps of a tick that leave the jobs alone. *)
LEMMA ContractAside ==
    ASSUME Typed, ContractInv, UNCHANGED <<job, logged>>, replan' = replan \/ ~replan'.on, TickRight'
    PROVE  ContractInv' /\ ContractStep
  <1>1. UNCHANGED Phase BY PhaseSame
  <1>. QED BY <1>1 DEF ContractInv, RowsRight, ReplanRight, ContractStep

LEMMA ContractFire == Typed /\ ContractInv /\ FireStep => ContractInv' /\ ContractStep
  <1> SUFFICES ASSUME Typed, ContractInv, FireStep PROVE ContractInv' /\ ContractStep OBVIOUS
  <1>d. disp \in DispType /\ job \in [Jobs -> Job] BY DEF Typed, JobsType
  <1>1. CASE TickBegin
    <2>1. \A j \in Jobs : job'[j] = IF job[j].status \in Waiting /\ job[j].dl < now
                                   THEN [job[j] EXCEPT !.status = "failed"] ELSE job[j]
      BY <1>1 DEF TickBegin, Expired
    <2>2. UNCHANGED <<replan, logged>> /\ disp'.pc = "due" BY <1>1 DEF TickBegin, Idle
    <2>3. ASSUME NEW j \in Jobs PROVE RowRight(job'[j]) /\ PhaseOf(job'[j]) = PhaseOf(job[j])
      <3>1. RowRight(job[j]) /\ job[j] \in Job BY <1>d DEF ContractInv, RowsRight
      <3>2. CASE job'[j] = job[j] BY <3>1, <3>2
      <3>3. CASE job[j].status \in Waiting /\ job'[j] = [job[j] EXCEPT !.status = "failed"]
        <4>1. job'[j].status = "failed" /\ job'[j].began = job[j].began BY <3>1, <3>3 DEF Job
        <4>2. ~job[j].began /\ PhaseOf(job[j]) = "idle" BY <3>1, <3>3, PhaseCases DEF RowRight, Waiting, Pending
        <4>3. RowRight(job'[j]) BY <4>1 DEF RowRight, Pending
        <4>. QED BY <4>1, <4>2, <4>3, PhaseCases
      <3>. QED BY <2>1, <3>2, <3>3
    <2>4. ReplanRight'
      <3>1. ASSUME replan.on, NEW j \in replan.place PROVE job'[j].status \in {"queued", "failed", "deleted"}
                                                        /\ (job'[j].status # "deleted" => ~job'[j].began)
        <4>1. j \in Jobs BY <3>1 DEF Typed, ReplanType
        <4>2. job[j] \in Job BY <4>1, <1>d
        <4>3. job[j].status \in {"queued", "failed", "deleted"} /\ (job[j].status # "deleted" => ~job[j].began)
          BY <3>1 DEF ContractInv, ReplanRight
        <4>4. CASE job'[j] = job[j] BY <4>3, <4>4
        <4>5. CASE job[j].status \in Waiting /\ job'[j] = [job[j] EXCEPT !.status = "failed"]
          BY <4>2, <4>3, <4>5 DEF Job, Waiting
        <4>. QED BY <2>1, <4>1, <4>4, <4>5
      <3>. QED BY <3>1, <2>2 DEF ContractInv, ReplanRight
    <2>5. UNCHANGED Phase BY <2>3, PhaseSame
    <2>. QED BY <2>2, <2>3, <2>4, <2>5 DEF ContractInv, RowsRight, TickRight, ContractStep
  <1>2. CASE SelectDue
    <2>1. TickRight' BY <1>2, <1>d DEF SelectDue, TickRight, DispType
    <2>. QED BY <1>2, <2>1, ContractAside DEF SelectDue
  <1>3. CASE SelectTwins
    <2>1. TickRight' BY <1>3, <1>d DEF SelectTwins, TickRight, DispType
    <2>. QED BY <1>3, <2>1, ContractAside DEF SelectTwins
  <1>4. ASSUME NEW j \in Jobs, Claim(j) PROVE ContractInv' /\ ContractStep
    <2>1. CASE job[j].status # "scheduled"
      <3>1. TickRight' BY <1>4, <2>1, <1>d DEF Claim, TickRight, DispType
      <3>. QED BY <1>4, <2>1, <3>1, ContractAside DEF Claim
    <2>2. CASE job[j].status = "scheduled"
      <3> DEFINE row == [job[j] EXCEPT !.status = "running", !.began = TRUE]
      <3>1. job' = [job EXCEPT ![j] = row]
        BY <1>4, <2>2 DEF Claim
      <3>2. job[j] \in Job BY <1>d
      <3>3. row.status = "running" /\ row.began = TRUE BY <3>2 DEF Job
      <3>4. job'[j] = row /\ \A i \in Jobs \ {j} : job'[i] = job[i] BY <3>1, <1>d
      <3>5. disp'.pc = "start" /\ disp'.cur = j /\ UNCHANGED <<replan, logged>> BY <1>4, <2>2, <1>d DEF Claim, DispType
      <3> HIDE DEF row
      <3>6. RowRight(row) BY <3>3 DEF RowRight, Pending
      <3>7. RowsRight' BY <3>4, <3>6 DEF ContractInv, RowsRight
      <3>8. ReplanRight'
        <4>1. replan.on => j \notin replan.place /\ replan.place \subseteq Jobs BY <2>2 DEF ContractInv, ReplanRight, Typed, ReplanType
        <4>. QED BY <4>1, <3>4, <3>5 DEF ContractInv, ReplanRight
      <3>9. TickRight' BY <3>3, <3>4, <3>5 DEF TickRight
      <3>10. Contract!Begin(j)
        <4>1. PhaseOf(job[j]) = "idle" BY <2>2, PhaseCases DEF ContractInv, RowsRight, Pending
        <4>2. PhaseOf(row) = "started" BY <3>3, <3>6, PhaseCases
        <4>3. Phase' = [Phase EXCEPT ![j] = "started"] BY <3>1, <4>2, PhaseOne
        <4>. QED BY <4>1, <4>3, <3>5 DEF Contract!Begin, Phase
      <3>. QED BY <3>7, <3>8, <3>9, <3>10 DEF ContractInv, ContractStep, Contract!ContractNext
    <2>. QED BY <2>1, <2>2
  <1>5. ASSUME NEW j \in Jobs, ClaimTwin(j) PROVE ContractInv' /\ ContractStep
    <2>1. TickRight' BY <1>5, <1>d DEF ClaimTwin, TickRight, DispType
    <2>. QED BY <1>5, <2>1, ContractAside DEF ClaimTwin
  <1>6. CASE Start
    <2>1. TickRight'
      <3>1. disp' = Idle \/ \E got \in BOOLEAN : disp' = [disp EXCEPT !.pc = "save", !.got = got] BY <1>6 DEF Start, Abort
      <3>2. disp.pc = "start" /\ UNCHANGED job BY <1>6 DEF Start
      <3>3. TickRight BY DEF ContractInv
      <3>4. CASE disp' = Idle BY <3>4 DEF TickRight, Idle
      <3>5. ASSUME NEW got \in BOOLEAN, disp' = [disp EXCEPT !.pc = "save", !.got = got] PROVE TickRight'
        <4>1. disp'.pc = "save" /\ disp'.kind = disp.kind /\ disp'.cur = disp.cur BY <3>5, <1>d DEF DispType
        <4>. QED BY <3>2, <3>3, <4>1 DEF TickRight
      <3>. QED BY <3>1, <3>4, <3>5
    <2>2. UNCHANGED <<job, logged, replan>> BY <1>6 DEF Start
    <2>. QED BY <2>1, <2>2, ContractAside
  <1>7. CASE Save
    <2> DEFINE cur == disp.cur
    <2>0. disp.pc = "save" /\ cur \in Jobs /\ ~(disp'.pc \in {"start", "save", "poll"})
      <3>1. disp.pc = "save" BY <1>7 DEF Save
      <3>2. disp' = Idle \/ disp' = [disp EXCEPT !.pc = "claim", !.cur = 0, !.got = FALSE] BY <1>7 DEF Save, Abort
      <3>3. cur \in Jobs BY <3>1, <1>d DEF DispType
      <3>4. CASE disp' = Idle BY <3>1, <3>3, <3>4 DEF Idle
      <3>5. CASE disp' = [disp EXCEPT !.pc = "claim", !.cur = 0, !.got = FALSE]
        <4>1. disp'.pc = "claim" BY <3>5, <1>d DEF DispType
        <4>. QED BY <3>1, <3>3, <4>1
      <3>. QED BY <3>2, <3>4, <3>5
    <2>1. TickRight' BY <2>0 DEF TickRight
    <2>2. CASE job' = job BY <1>7, <2>1, <2>2, ContractAside DEF Save
    <2>3. CASE job' # job
      <3>1. disp.kind = "with" /\ job[cur].status # "deleted" /\ job' = [job EXCEPT ![cur] = Saved(job[cur])]
            /\ UNCHANGED <<replan, logged>>
        BY <1>7, <2>3 DEF Save
      <3>2. job[cur] \in Job /\ job[cur].status = "running" /\ RowRight(job[cur])
        BY <2>0, <3>1, <1>d DEF ContractInv, TickRight, RowsRight
      <3>3. /\ Saved(job[cur]).began = TRUE
            /\ Saved(job[cur]).status = IF disp.got THEN "running" ELSE "failed"
        BY <3>2 DEF Saved, Job, RowRight
      <3>4. RowRight(Saved(job[cur])) BY <3>3 DEF RowRight, Pending
      <3>5. job'[cur] = Saved(job[cur]) /\ \A i \in Jobs \ {cur} : job'[i] = job[i] BY <3>1, <2>0, <1>d
      <3>6. RowsRight' BY <3>4, <3>5 DEF ContractInv, RowsRight
      <3>7. ReplanRight'
        <4>1. replan.on => cur \notin replan.place /\ replan.place \subseteq Jobs BY <3>2 DEF ContractInv, ReplanRight, Typed, ReplanType
        <4>. QED BY <4>1, <3>1, <3>5 DEF ContractInv, ReplanRight
      <3>8. Phase' = [Phase EXCEPT ![cur] = PhaseOf(Saved(job[cur]))] BY <3>1, <2>0, PhaseOne
      <3>9. PhaseOf(job[cur]) = "started" BY <3>2, PhaseCases
      <3>10. ContractStep
        <4>1. CASE disp.got
          <5>1. PhaseOf(Saved(job[cur])) = "started" BY <4>1, <3>3, <3>4, PhaseCases
          <5>2. UNCHANGED Phase BY <5>1, <3>8, <3>9, <2>0 DEF Phase
          <5>. QED BY <5>2, <3>1 DEF ContractStep
        <4>2. CASE ~disp.got
          <5>1. PhaseOf(Saved(job[cur])) = "failed" BY <4>2, <3>3, <3>4, PhaseCases
          <5>2. Contract!Fail(cur) BY <5>1, <3>1, <3>8, <3>9, <2>0 DEF Contract!Fail, Phase
          <5>. QED BY <5>2, <2>0 DEF ContractStep, Contract!ContractNext
        <4>. QED BY <4>1, <4>2
      <3>. QED BY <2>1, <3>6, <3>7, <3>10 DEF ContractInv
    <2>. QED BY <2>2, <2>3
  <1>. QED BY <1>1, <1>2, <1>3, <1>4, <1>5, <1>6, <1>7 DEF FireStep

LEMMA ContractPoll == Typed /\ ContractInv /\ PollStep => ContractInv' /\ ContractStep
  <1> SUFFICES ASSUME Typed, ContractInv, PollStep PROVE ContractInv' /\ ContractStep OBVIOUS
  <1>d. disp \in DispType /\ job \in [Jobs -> Job] BY DEF Typed, JobsType
  <1>1. CASE SelectRunning
    <2>1. disp'.todo \subseteq RunningJobs /\ disp'.pc = "poll" BY <1>1, <1>d DEF SelectRunning, DispType
    <2>2. UNCHANGED <<job, logged, replan>> BY <1>1 DEF SelectRunning
    <2>3. TickRight' BY <2>1, <2>2 DEF TickRight, RunningJobs
    <2>. QED BY <2>2, <2>3, ContractAside
  <1>2. CASE SelectRunningTwins
    <2>1. TickRight' BY <1>2, <1>d DEF SelectRunningTwins, TickRight, DispType
    <2>. QED BY <1>2, <2>1, ContractAside DEF SelectRunningTwins
  <1>3. CASE TickEnd
    <2>1. TickRight' BY <1>3 DEF TickEnd, TickRight, Idle
    <2>. QED BY <1>3, <2>1, ContractAside DEF TickEnd
  <1>4. ASSUME NEW j \in Jobs, Poll(j) PROVE ContractInv' /\ ContractStep
    <2>1. disp.pc = "poll" /\ disp.kind = "with" /\ j \in disp.todo /\ UNCHANGED replan BY <1>4 DEF Poll
    <2>2. \A i \in disp'.todo : i \in disp.todo
      <3>1. disp' = Idle \/ disp' = [disp EXCEPT !.todo = @ \ {j}] BY <1>4 DEF Poll, Passed, Abort
      <3>2. CASE disp' = Idle BY <3>2 DEF Idle
      <3>3. CASE disp' = [disp EXCEPT !.todo = @ \ {j}] BY <3>3, <1>d DEF DispType
      <3>. QED BY <3>1, <3>2, <3>3
    <2>3. ~(disp'.pc \in {"start", "save"})
      <3>1. disp' = Idle \/ disp' = [disp EXCEPT !.todo = @ \ {j}] BY <1>4 DEF Poll, Passed, Abort
      <3>2. CASE disp' = Idle BY <3>2 DEF Idle
      <3>3. CASE disp' = [disp EXCEPT !.todo = @ \ {j}]
        <4>1. disp'.pc = disp.pc BY <3>3, <1>d DEF DispType
        <4>. QED BY <4>1, <2>1
      <3>. QED BY <3>1, <3>2, <3>3
    <2>4. disp'.pc # "poll" \/ (disp'.kind = "with" /\ j \notin disp'.todo)
      <3>1. disp' = Idle \/ disp' = [disp EXCEPT !.todo = @ \ {j}] BY <1>4 DEF Poll, Passed, Abort
      <3>2. CASE disp' = Idle BY <3>2 DEF Idle
      <3>3. CASE disp' = [disp EXCEPT !.todo = @ \ {j}]
        <4>1. disp'.kind = disp.kind /\ j \notin disp'.todo BY <3>3, <1>d DEF DispType
        <4>. QED BY <4>1, <2>1
      <3>. QED BY <3>1, <3>2, <3>3
    <2>5. \/ UNCHANGED <<job, logged>>
          \/ /\ job[j].status # "deleted"
             /\ \/ job' = [job EXCEPT ![j] = [job[j] EXCEPT !.status = "done"]] /\ logged' = logged \cup {j}
                \/ job' = [job EXCEPT ![j] = [job[j] EXCEPT !.status = "failed"]] /\ logged' = logged
      BY <1>4 DEF Poll, NotFound, Resolved
    <2>6. CASE UNCHANGED <<job, logged>>
      <3>1. TickRight' BY <2>1, <2>2, <2>3, <2>4, <2>6 DEF ContractInv, TickRight
      <3>. QED BY <3>1, <2>1, <2>6, ContractAside
    <2>7. ASSUME job[j].status # "deleted", NEW st \in {"done", "failed"}, job' = [job EXCEPT ![j] = [job[j] EXCEPT !.status = st]],
                 logged' = IF st = "done" THEN logged \cup {j} ELSE logged
          PROVE  ContractInv' /\ ContractStep
      <3> DEFINE row == [job[j] EXCEPT !.status = st]
      <3>1. job[j] \in Job /\ job[j].status = "running" /\ RowRight(job[j])
        BY <2>1, <2>7, <1>d DEF ContractInv, TickRight, RowsRight
      <3>2. row.began = TRUE /\ row.status = st BY <3>1 DEF Job, RowRight
      <3>3. job'[j] = row /\ \A i \in Jobs \ {j} : job'[i] = job[i] BY <2>7, <1>d
      <3>4. job' = [job EXCEPT ![j] = row] BY <2>7
      <3> HIDE DEF row
      <3>5. RowRight(row) BY <3>2 DEF RowRight, Pending
      <3>6. RowsRight' BY <3>3, <3>5 DEF ContractInv, RowsRight
      <3>7. ReplanRight'
        <4>1. replan.on => j \notin replan.place /\ replan.place \subseteq Jobs BY <3>1 DEF ContractInv, ReplanRight, Typed, ReplanType
        <4>. QED BY <4>1, <2>1, <3>3 DEF ContractInv, ReplanRight
      <3>8. TickRight'
        <4>1. disp.todo \subseteq Jobs BY <1>d DEF DispType
        <4>2. \A i \in disp.todo : job[i].status \in {"running", "deleted"} BY <2>1 DEF ContractInv, TickRight
        <4>3. disp'.pc = "poll" => \A i \in disp'.todo : job'[i].status \in {"running", "deleted"}
          BY <4>1, <4>2, <2>2, <2>4, <3>3
        <4>. QED BY <4>3, <2>3 DEF TickRight
      <3>9. Phase' = [Phase EXCEPT ![j] = PhaseOf(row)] BY <3>4, PhaseOne
      <3>10. PhaseOf(job[j]) = "started" BY <3>1, PhaseCases
      <3>11. PhaseOf(row) = st BY <3>2, <3>5, PhaseCases
      <3>12. CASE st = "done"
        <4>1. Contract!Finish(j) BY <2>7, <3>9, <3>10, <3>11, <3>12 DEF Contract!Finish, Phase
        <4>. QED BY <4>1, <3>6, <3>7, <3>8 DEF ContractInv, ContractStep, Contract!ContractNext
      <3>13. CASE st = "failed"
        <4>1. Contract!Fail(j) BY <2>7, <3>9, <3>10, <3>11, <3>13 DEF Contract!Fail, Phase
        <4>. QED BY <4>1, <3>6, <3>7, <3>8 DEF ContractInv, ContractStep, Contract!ContractNext
      <3>. QED BY <3>12, <3>13
    <2>. QED BY <2>5, <2>6, <2>7
  <1>5. ASSUME NEW j \in Jobs, PollTwin(j) PROVE ContractInv' /\ ContractStep
    <2>1. disp.pc = "poll" /\ disp.kind = "without" BY <1>5 DEF PollTwin
    <2>2. disp' = Idle \/ disp' = [disp EXCEPT !.todo = @ \ {j}] BY <1>5 DEF PollTwin, Passed, Abort
    <2>3. TickRight'
      <3>1. CASE disp' = Idle BY <3>1 DEF TickRight, Idle
      <3>2. CASE disp' = [disp EXCEPT !.todo = @ \ {j}]
        <4>1. disp'.pc = disp.pc /\ disp'.kind = disp.kind BY <3>2, <1>d DEF DispType
        <4>. QED BY <2>1, <4>1 DEF TickRight
      <3>. QED BY <2>2, <3>1, <3>2
    <2>4. UNCHANGED <<job, logged, replan>> BY <1>5 DEF PollTwin
    <2>. QED BY <2>3, <2>4, ContractAside
  <1>. QED BY <1>1, <1>2, <1>3, <1>4, <1>5 DEF PollStep

LEMMA ContractService == Typed /\ ContractInv /\ ServiceStep => ContractInv' /\ ContractStep
  <1> SUFFICES ASSUME Typed, ContractInv, ServiceStep PROVE ContractInv' /\ ContractStep OBVIOUS
  <1>d. disp \in DispType /\ job \in [Jobs -> Job] BY DEF Typed, JobsType
  <1>u. UNCHANGED <<disp, logged>> BY DEF ServiceStep, dispatchVars
  <1>t. ASSUME \A j \in Jobs : job[j].status \in {"running", "deleted"} => job'[j].status = job[j].status PROVE TickRight'
    <2>1. disp.todo \subseteq Jobs /\ (disp.pc \in {"start", "save"} => disp.cur \in Jobs) BY <1>d DEF DispType
    <2>. QED BY <1>t, <1>u, <2>1 DEF ContractInv, TickRight
  <1>1. ASSUME NEW j \in Jobs, NEW req \in Requests, NEW at \in Readings, Submit(j, req, at) PROVE ContractInv' /\ ContractStep
    <2>1. PICK row : /\ job' = [job EXCEPT ![j] = row] /\ job[j].status = "new" /\ ~replan.on /\ UNCHANGED replan
                     /\ row.status \in {"queued", "scheduled"} /\ row.began = FALSE
      <3> DEFINE start == Placed(j, at, req.dur, at + req.dur + req.slack, Ledger(Bookings(Booked)))
                 r == [status |-> IF start = NoStart THEN "queued" ELSE "scheduled", win |-> start,
                       dl |-> at + req.dur + req.slack, dur |-> req.dur, provider |-> req.provider,
                       began |-> FALSE, ref |-> FALSE]
      <3>1. job' = [job EXCEPT ![j] = r] /\ job[j].status = "new" /\ ~replan.on /\ UNCHANGED replan BY <1>1 DEF Submit
      <3> HIDE DEF start
      <3>2. r.status \in {"queued", "scheduled"} /\ r.began = FALSE OBVIOUS
      <3>. QED BY <3>1, <3>2
    <2>2. RowRight(row) /\ PhaseOf(row) = "idle"
      <3>1. RowRight(row) BY <2>1 DEF RowRight, Pending
      <3>. QED BY <3>1, <2>1, PhaseCases DEF Pending
    <2>3. PhaseOf(job[j]) = "idle" BY <2>1, PhaseCases DEF ContractInv, RowsRight, Pending
    <2>4. job'[j] = row /\ \A i \in Jobs \ {j} : job'[i] = job[i] BY <2>1, <1>d
    <2>5. TickRight' BY <1>t, <2>1, <2>4
    <2>6. RowsRight' BY <2>2, <2>4 DEF ContractInv, RowsRight
    <2>7. UNCHANGED Phase BY <2>2, <2>3, <2>4, PhaseSame
    <2>. QED BY <2>1, <2>5, <2>6, <2>7, <1>u DEF ContractInv, ReplanRight, ContractStep
  <1>2. CASE ReplanRead
    <2> DEFINE win == Replanned
               changed == {j \in MovableJobs : win[j] # NoStart /\ (win[j] # job[j].win \/ job[j].status = "queued")}
               kept == {j \in MovableJobs : job[j].status = "scheduled" /\ Found(j, win) = NoStart}
               new == [j \in Jobs |-> IF j \in changed THEN win[j] ELSE NoStart]
               placed == {j \in changed : job[j].status = "queued"}
    <2>1. /\ \/ UNCHANGED replan
             \/ replan' = [on |-> TRUE, win |-> new, place |-> placed, kept |-> kept, free |-> MovableJobs]
          /\ UNCHANGED <<now, rate, job, twin>>
      BY <1>2 DEF ReplanRead
    <2>2. \A j \in placed : j \in Jobs /\ job[j].status = "queued" /\ new[j] # NoStart BY DEF MovableJobs
    <2>3. TickRight' BY <1>t, <2>1
    <2> HIDE DEF win, changed, kept, new, placed
    <2>4. ReplanRight'
      <3>1. CASE UNCHANGED replan BY <2>1, <3>1 DEF ContractInv, ReplanRight
      <3>2. CASE replan' = [on |-> TRUE, win |-> new, place |-> placed, kept |-> kept, free |-> MovableJobs]
        <4>1. replan'.place = placed /\ replan'.win = new BY <3>2
        <4>2. \A j \in placed : ~job[j].began BY <2>2 DEF ContractInv, RowsRight, RowRight, Pending
        <4>. QED BY <4>1, <4>2, <2>1, <2>2 DEF ReplanRight
      <3>. QED BY <2>1, <3>1, <3>2
    <2>5. UNCHANGED Phase BY <2>1, PhaseSame
    <2>. QED BY <2>1, <2>3, <2>4, <2>5, <1>u DEF ContractInv, RowsRight, ContractStep
  <1>3. CASE ReplanWrite
    <2>1. replan.on /\ replan.place \subseteq Jobs /\ ~replan'.on BY <1>3 DEF ReplanWrite, NoReplan, Typed, ReplanType
    <2>2. CASE UNCHANGED job
      <3>1. TickRight' BY <1>t, <2>2
      <3>. QED BY <2>1, <2>2, <3>1, <1>u, ContractAside
    <2>3. CASE job' # job
      <3>1. /\ \A j \in Jobs : job'[j] = Flushed(j)
            /\ \A j \in Jobs : replan.win[j] # NoStart => job[j].status # "deleted"
        BY <1>3, <2>3 DEF ReplanWrite
      <3>2. ASSUME NEW j \in Jobs PROVE /\ job'[j].began = job[j].began
                                         /\ job'[j].status = IF j \in replan.place THEN "scheduled" ELSE job[j].status
        BY <3>1, <1>d DEF Flushed, Job
      <3>3. \A j \in replan.place : job[j].status \in {"queued", "failed"} /\ ~job[j].began
        BY <2>1, <3>1 DEF ContractInv, ReplanRight
      <3>4. ASSUME NEW j \in Jobs PROVE RowRight(job'[j]) /\ PhaseOf(job'[j]) = PhaseOf(job[j])
        <4>1. RowRight(job[j]) BY DEF ContractInv, RowsRight
        <4>2. CASE j \in replan.place
          <5>1. job'[j].status = "scheduled" /\ ~job'[j].began BY <3>2, <3>3, <4>2
          <5>2. RowRight(job'[j]) BY <5>1 DEF RowRight
          <5>3. PhaseOf(job'[j]) = "idle" BY <5>1, <5>2, PhaseCases DEF Pending
          <5>4. PhaseOf(job[j]) = "idle" BY <3>3, <4>1, <4>2, PhaseCases DEF Pending
          <5>. QED BY <5>2, <5>3, <5>4
        <4>3. CASE j \notin replan.place
          <5>1. job'[j].status = job[j].status /\ job'[j].began = job[j].began BY <3>2, <4>3
          <5>. QED BY <4>1, <5>1 DEF RowRight, PhaseOf
        <4>. QED BY <4>2, <4>3
      <3>5. TickRight' BY <1>t, <3>2, <3>3
      <3>6. UNCHANGED Phase BY <3>4, PhaseSame
      <3>. QED BY <2>1, <3>4, <3>5, <3>6, <1>u DEF ContractInv, RowsRight, ReplanRight, ContractStep
    <2>. QED BY <2>2, <2>3
  <1>4. CASE Ingest \/ Tick
    <2>1. UNCHANGED <<job, replan>> BY <1>4 DEF Ingest, Tick
    <2>2. TickRight' BY <1>t, <2>1
    <2>. QED BY <2>1, <2>2, <1>u, ContractAside
  <1>. QED BY <1>1, <1>2, <1>3, <1>4 DEF ServiceStep, create_job

LEMMA ContractUpset == Typed /\ ContractInv /\ Upset => ContractInv' /\ ContractStep
  <1> SUFFICES ASSUME Typed, ContractInv, Upset PROVE ContractInv' /\ ContractStep OBVIOUS
  <1>d. disp \in DispType /\ job \in [Jobs -> Job] BY DEF Typed, JobsType
  <1>1. CASE Crash
    <2>1. TickRight' BY <1>1 DEF Crash, Down, Idle, TickRight
    <2>. QED BY <1>1, <2>1, ContractAside DEF Crash, NoReplan
  <1>2. CASE Restart
    <2>1. UNCHANGED <<replan, logged>> /\ \A j \in Jobs : job'[j] = RecoveredRow(job[j]) BY <1>2 DEF Restart
    <2> DEFINE lost == {j \in Jobs : job[j].status = "running" /\ ~job[j].ref}
    <2>2. ASSUME NEW j \in Jobs
          PROVE  /\ job'[j].status = IF j \in lost THEN "failed" ELSE job[j].status
                 /\ job'[j].began = job[j].began
      BY <2>1, <1>d DEF RecoveredRow, Job
    <2>3. ASSUME NEW j \in Jobs
          PROVE  /\ RowRight(job'[j])
                 /\ PhaseOf(job'[j]) = IF j \in lost THEN "failed" ELSE PhaseOf(job[j])
                 /\ j \in lost => PhaseOf(job[j]) = "started"
      <3>1. RowRight(job[j]) BY DEF ContractInv, RowsRight
      <3>2. CASE j \in lost
        <4>1. job'[j].status = "failed" /\ job'[j].began BY <2>2, <3>1, <3>2 DEF RowRight
        <4>2. RowRight(job'[j]) BY <4>1 DEF RowRight, Pending
        <4>. QED BY <3>1, <3>2, <4>1, <4>2, PhaseCases
      <3>3. CASE j \notin lost
        <4>1. job'[j].status = job[j].status /\ job'[j].began = job[j].began BY <2>2, <3>3
        <4>. QED BY <3>1, <3>3, <4>1 DEF RowRight, PhaseOf
      <3>. QED BY <3>2, <3>3
    <2>4. TickRight' BY <1>2 DEF Restart, TickRight, Idle
    <2>5. ReplanRight'
      <3>1. replan.on => replan.place \subseteq Jobs BY DEF Typed, ReplanType
      <3>2. replan.on => \A j \in replan.place : j \notin lost BY DEF ContractInv, ReplanRight
      <3>. QED BY <2>1, <2>2, <3>1, <3>2 DEF ContractInv, ReplanRight
    <2>6. Contract!GiveUp
      <3>1. lost \in SUBSET {j \in Jobs : Phase[j] = "started"} BY <2>3 DEF Phase
      <3>2. Phase' = [j \in Jobs |-> IF j \in lost THEN "failed" ELSE Phase[j]] BY <2>3 DEF Phase
      <3> HIDE DEF lost
      <3>. QED BY <2>1, <3>1, <3>2 DEF Contract!GiveUp, Phase
    <2>. QED BY <2>3, <2>4, <2>5, <2>6 DEF ContractInv, RowsRight, ContractStep, Contract!ContractNext
  <1>3. CASE TickAborts
    <2>1. TickRight' BY <1>3 DEF TickAborts, Abort, Idle, TickRight
    <2>. QED BY <1>3, <2>1, ContractAside DEF TickAborts
  <1>4. CASE ARunEnds
    <2>1. UNCHANGED <<job, logged, replan, disp>> BY <1>4 DEF ARunEnds, RunEnds
    <2>2. TickRight' BY <2>1 DEF ContractInv, TickRight
    <2>. QED BY <2>1, <2>2, ContractAside
  <1>5. ASSUME NEW reset \in BOOLEAN, DemoReplay(reset) PROVE ContractInv' /\ ContractStep
    <2>1. UNCHANGED <<replan, disp>> BY <1>5 DEF DemoReplay, TurnClock
    <2>2. CASE UNCHANGED <<job, logged>>
      <3>1. TickRight' BY <2>1, <2>2 DEF ContractInv, TickRight
      <3>. QED BY <2>1, <2>2, <3>1, ContractAside
    <2>3. CASE /\ job' = [j \in Jobs |-> IF j \in Submitted THEN [job[j] EXCEPT !.status = "deleted"] ELSE job[j]]
               /\ logged' = {}
      <3>1. ASSUME NEW j \in Jobs
            PROVE  /\ job'[j].status = IF j \in Submitted THEN "deleted" ELSE "new"
                   /\ job'[j].began = job[j].began
        BY <2>3, <1>d DEF Submitted, Job
      <3>2. ASSUME NEW j \in Jobs
            PROVE  /\ RowRight(job'[j]) /\ PhaseOf(job'[j]) = IF j \in Submitted THEN "forgotten" ELSE Phase[j]
                   /\ j \notin Submitted => Phase[j] = "idle"
        <4>1. RowRight(job[j]) BY DEF ContractInv, RowsRight
        <4>2. CASE j \in Submitted
          <5>1. RowRight(job'[j]) BY <3>1, <4>2 DEF RowRight, Pending
          <5>. QED BY <3>1, <4>2, <5>1, PhaseCases
        <4>3. CASE j \notin Submitted
          <5>1. job'[j] = job[j] /\ job[j].status = "new" BY <2>3, <4>3 DEF Submitted
          <5>2. PhaseOf(job[j]) = "idle" BY <4>1, <5>1, PhaseCases DEF Pending
          <5>. QED BY <4>1, <4>3, <5>1, <5>2 DEF Phase
        <4>. QED BY <4>2, <4>3
      <3>3. ReplanRight'
        <4>1. replan.on => replan.place \subseteq Jobs BY DEF Typed, ReplanType
        <4>2. replan.on => \A j \in replan.place : j \in Submitted BY <4>1 DEF ContractInv, ReplanRight, Submitted
        <4>. QED BY <2>1, <3>1, <4>1, <4>2 DEF ContractInv, ReplanRight
      <3>4. TickRight'
        <4>1. disp.todo \subseteq Jobs /\ (disp.pc \in {"start", "save"} => disp.cur \in Jobs) BY <1>d DEF DispType
        <4>2. \A j \in Jobs : job[j].status \in {"running", "deleted"} => j \in Submitted BY DEF Submitted
        <4>. QED BY <2>1, <3>1, <4>1, <4>2 DEF ContractInv, TickRight
      <3>5. Contract!Forget
        <4>1. Phase' = [j \in Jobs |-> IF j \in Submitted THEN "forgotten" ELSE Phase[j]] BY <3>2 DEF Phase
        <4>2. Submitted \in SUBSET Jobs BY DEF Submitted
        <4>3. \A j \in Jobs \ Submitted : Phase[j] = "idle" BY <3>2
        <4>. QED BY <2>3, <4>1, <4>2, <4>3 DEF Contract!Forget, Phase
      <3>. QED BY <3>2, <3>3, <3>4, <3>5 DEF ContractInv, RowsRight, ContractStep, Contract!ContractNext
    <2>. QED BY <1>5, <2>2, <2>3 DEF DemoReplay
  <1>6. CASE DemoLive
    <2>1. UNCHANGED <<job, logged, replan, disp>> BY <1>6 DEF DemoLive, TurnClock
    <2>2. TickRight' BY <2>1 DEF ContractInv, TickRight
    <2>. QED BY <2>1, <2>2, ContractAside
  <1>. QED BY <1>1, <1>2, <1>3, <1>4, <1>5, <1>6 DEF Upset

LEMMA ContractInit == DispatchInit => ContractInv /\ Contract!ContractInit
  <1> SUFFICES ASSUME DispatchInit PROVE ContractInv /\ Contract!ContractInit OBVIOUS
  <1>1. \A j \in Jobs : job[j] = NoJob BY DEF DispatchInit, ServiceInit
  <1>2. RowRight(NoJob) /\ NoJob.status = "new" BY DEF RowRight, NoJob, Pending
  <1>3. PhaseOf(NoJob) = "idle" BY <1>2, PhaseCases DEF Pending
  <1>4. ContractInv
    <2>1. ~replan.on /\ disp.pc = "idle" BY DEF DispatchInit, ServiceInit, NoReplan, Idle
    <2>. QED BY <1>1, <1>2, <2>1 DEF ContractInv, RowsRight, ReplanRight, TickRight
  <1>5. [j \in Jobs |-> PhaseOf(job[j])] = [j \in Jobs |-> "idle"] BY <1>1, <1>3
  <1>. QED BY <1>4, <1>5 DEF Contract!ContractInit, DispatchInit

(* The dispatcher, its re-plans, its crashes and the demo's resets implement JobContract: a job is started at *)
(* most once and has one outcome, and the savings ledger has the jobs that are done and no others.            *)
THEOREM DispatchImplementsContract == Spec => ContractKept
  <1>1. DispatchInit => Typed /\ ContractInv /\ Contract!ContractInit BY TypeInit, TypedIs, ContractInit
  <1>2. Typed /\ ContractInv /\ [Next]_vars => Typed' /\ ContractInv' /\ [Contract!ContractNext]_<<Phase, logged>>
    <2> SUFFICES ASSUME Typed, ContractInv, [Next]_vars
                 PROVE  Typed' /\ ContractInv' /\ [Contract!ContractNext]_<<Phase, logged>>
      OBVIOUS
    <2>1. CASE Next
      <3>1. Typed' BY <2>1, FireTyped, PollTyped, ServiceTyped, UpsetTyped DEF Next, Upset
      <3>2. ContractInv' /\ ContractStep
        BY <2>1, ContractFire, ContractPoll, ContractService, ContractUpset DEF Next, Upset
      <3>. QED BY <3>1, <3>2 DEF ContractStep
    <2>2. CASE UNCHANGED vars
      <3>1. UNCHANGED <<job, replan, disp, logged>> BY <2>2 DEF vars
      <3>2. Typed' BY <2>2 DEF Typed, vars
      <3>3. ContractInv' BY <3>1 DEF ContractInv, RowsRight, ReplanRight, TickRight
      <3>4. UNCHANGED Phase BY <3>1, PhaseSame
      <3>. QED BY <3>1, <3>2, <3>3, <3>4
    <2>. QED BY <2>1, <2>2
  <1>. QED BY <1>1, <1>2, PTL DEF Spec, ContractKept, Contract!ContractSpec, Phase
=============================================================================
