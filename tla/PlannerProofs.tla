---------------------------- MODULE PlannerProofs -----------------------------
(***************************************************************************)
(* Proofs about the site planner, for any jobs, prices, tariff, capacity   *)
(* and length of a block: a plan is one that the cloud's contract allows,  *)
(* a re-plan of an unchanged world changes nothing, and the starts that it *)
(* looked at fit the capacity together.                                    *)
(***************************************************************************)
EXTENDS Planner, AllocatorProofs

PlannerTyped ==
    /\ now \in Nat /\ price \in Published
    /\ cjob \in [Refs -> CJob \cup {None}] /\ actual \in [Refs -> MaybeTime]

(* A start that is in force as it was last planned is that of a planned job; without a time limit there is no plan. *)
PlansRight ==
    \A r \in Known : /\ cjob[r].planned # None /\ cjob[r].applied = cjob[r].planned => cjob[r].status = "planned"
                     /\ Dur[r] = None => cjob[r].planned = None

-----------------------------------------------------------------------------
(* The plan *)

PlanRec == [status : {"planned", "unplaceable"}, planned : MaybeTime, book : MaybeTime, loose : BOOLEAN]
NotPlanned == [book |-> None]
Plans == [Refs -> PlanRec \cup {NotPlanned}]

(* One entry of a plan, from the entries before. *)
Entry(r, plan) == IF r \in MovableRefs THEN Turn(r, plan) ELSE NotPlanned
EntryOf == [r \in Refs |-> [plan \in Plans |-> Entry(r, plan)]]

LEMMA RowFacts ==
    ASSUME PlannerTyped, NEW r \in Known
    PROVE  /\ cjob[r] \in CJob /\ BaseOf(r) \in Nat /\ MaxWait[r] \in Nat /\ Margin \in Nat
           /\ cjob[r].planned \in MaybeTime /\ cjob[r].applied \in MaybeTime
           /\ Later(now, BaseOf(r)) \in Nat /\ LatestStart(r) \in Int
  <1>1. r \in Refs /\ cjob[r] \in CJob BY DEF Known, PlannerTyped
  <1>2. cjob[r].first \in Nat /\ cjob[r].pred \in MaybeTime /\ cjob[r].planned \in MaybeTime /\ cjob[r].applied \in MaybeTime
    BY <1>1 DEF CJob
  <1>3. MaxWait[r] \in Nat /\ Margin \in Nat /\ now \in Nat BY <1>1, BaseAssumption, CloudAssumption DEF PlannerTyped
  <1>4. BaseOf(r) \in Nat BY <1>2, BaseAssumption DEF BaseOf, Base, Later, MaybeTime
  <1>5. Later(now, BaseOf(r)) \in Nat /\ LatestStart(r) \in Int BY <1>3, <1>4 DEF Later, LatestStart
  <1>. QED BY <1>1, <1>2, <1>3, <1>4, <1>5

LEMMA MovableFacts ==
    /\ Known \subseteq Refs /\ Waiting \subseteq Known /\ MovableRefs \subseteq Waiting /\ PinnedRefs \subseteq Waiting
    /\ ShiftedRuns \subseteq Known /\ Windowed \subseteq MovableRefs
    /\ \A r \in Windowed : Dur[r] # None
    /\ \A r \in Known : r \in Refs /\ cjob[r] # None
    /\ \A r \in Waiting : cjob[r].st = "PENDING" /\ cjob[r].status \in Movable
    /\ \A r \in MovableRefs : ~Pinned(cjob[r])
  BY DEF Known, Waiting, PinnedRefs, MovableRefs, ShiftedRuns, Windowed

LEMMA SizesOf ==
    ASSUME NEW r \in Refs
    PROVE  /\ Dur[r] # None => Dur[r] \in Nat \ {0}
           /\ Gpus[r] \in Nat \ {0} /\ Offset[r] \in Nat
  BY PlannerAssumption

(* A start that is found lies in the window of the job, and has room beside what is booked. *)
LEMMA StartOfIs ==
    ASSUME PlannerTyped, NEW r \in Windowed, NEW bookings, NEW ledger,
           ledger = [b \in Blocks |-> Load(bookings, b)], StartOf(r, ledger) # None
    PROVE  /\ StartOf(r, ledger) \in Nat
           /\ Later(now, BaseOf(r)) <= StartOf(r, ledger) /\ StartOf(r, ledger) <= LatestStart(r)
           /\ \A b \in Spans(StartOf(r, ledger), Dur[r]) :
                 Load(bookings, b) + MinutesIn(b, StartOf(r, ledger), Dur[r]) * Gpus[r] <= site_cap
  <1> DEFINE s == StartOf(r, ledger)
             prices == PricesIn(price, now, last_end)
  <1>1. s \in Starts(Offset[r], Dur[r], Later(now, BaseOf(r)), LatestStart(r) + Dur[r], prices, ledger, site_cap, Gpus[r])
    BY PlannerAssumption, AllocateIn DEF StartOf
  <1> HIDE DEF s, prices
  <1>2. /\ \E b \in DOMAIN prices : s = b + Offset[r]
        /\ Later(now, BaseOf(r)) <= s /\ s + Dur[r] <= LatestStart(r) + Dur[r]
        /\ \A b \in Spans(s, Dur[r]) : ledger[b] + MinutesIn(b, s, Dur[r]) * Gpus[r] <= site_cap
    BY <1>1 DEF Starts
  <1>3. DOMAIN prices \subseteq Blocks BY PlannerAssumption DEF PlannerTyped, PricesIn, prices
  <1>4. r \in Known /\ r \in Refs /\ Dur[r] \in Nat /\ Offset[r] \in Nat BY MovableFacts, SizesOf
  <1>5. s \in Int BY <1>2, <1>3, <1>4, BlockIs
  <1>6. Later(now, BaseOf(r)) \in Nat /\ LatestStart(r) \in Int BY <1>4, RowFacts
  <1>7. s \in Nat /\ s <= LatestStart(r) BY <1>2, <1>4, <1>5, <1>6
  <1>8. \A b \in Spans(s, Dur[r]) : ledger[b] = Load(bookings, b) BY DEF Spans
  <1>. QED BY <1>2, <1>7, <1>8 DEF s

Before(r, plan) == {i \in Windowed : i < r /\ plan[i].book # None}
Beside(r, plan) == Held \cup {Book(i, plan[i].book) : i \in Before(r, plan)}
StartIn(r, plan) == StartOf(r, [b \in Blocks |-> Load(Beside(r, plan), b)])

(* What a turn makes of a movable job. *)
LEMMA TurnIs ==
    ASSUME NEW r \in MovableRefs, NEW plan
    PROVE  \/ /\ r \notin Windowed \/ StartIn(r, plan) = None
              /\ r \in Windowed => ~(cjob[r].status = "planned" /\ cjob[r].planned # None)
              /\ Turn(r, plan) = [status |-> "unplaceable", planned |-> cjob[r].planned, book |-> None, loose |-> FALSE]
           \/ /\ r \in Windowed /\ StartIn(r, plan) = None /\ cjob[r].status = "planned" /\ cjob[r].planned # None
              /\ Turn(r, plan) = [status |-> "planned", planned |-> cjob[r].planned, book |-> cjob[r].planned, loose |-> TRUE]
           \/ /\ r \in Windowed /\ StartIn(r, plan) # None
              /\ Turn(r, plan) = [status |-> "planned", planned |-> StartIn(r, plan), book |-> StartIn(r, plan), loose |-> FALSE]
           \/ /\ r \in Windowed /\ StartIn(r, plan) # None
              /\ \E back \in {Later(now, BaseOf(r)), None} :
                    /\ back = IF cjob[r].applied # None THEN Later(now, BaseOf(r)) ELSE None
                    /\ Turn(r, plan) = [status |-> "planned", planned |-> back, book |-> back, loose |-> TRUE]
  <1>1. StartIn(r, plan) = StartOf(r, [b \in Blocks |-> Load(Held \cup {Book(i, plan[i].book) :
                                            i \in {i \in Windowed : i < r /\ plan[i].book # None}}, b)])
    BY DEF StartIn, Beside, Before
  <1> DEFINE start == StartIn(r, plan)
             back == IF cjob[r].applied # None THEN Later(now, BaseOf(r)) ELSE None
  <1>2. Turn(r, plan) =
           IF r \notin Windowed \/ (start = None /\ ~(cjob[r].status = "planned" /\ cjob[r].planned # None))
           THEN [status |-> "unplaceable", planned |-> cjob[r].planned, book |-> None, loose |-> FALSE]
           ELSE IF start = None
           THEN [status |-> "planned", planned |-> cjob[r].planned, book |-> cjob[r].planned, loose |-> TRUE]
           ELSE IF Bill(r, start) < Bill(r, BaseOf(r))
           THEN [status |-> "planned", planned |-> start, book |-> start, loose |-> FALSE]
           ELSE [status |-> "planned", planned |-> back, book |-> back, loose |-> TRUE]
    BY <1>1 DEF Turn
  <1>3. back \in {Later(now, BaseOf(r)), None} OBVIOUS
  <1> HIDE DEF start
  <1>. QED BY <1>2, <1>3 DEF start

LEMMA TurnTyped ==
    ASSUME PlannerTyped, NEW r \in MovableRefs, NEW plan
    PROVE  Turn(r, plan) \in PlanRec
  <1>1. r \in Known BY MovableFacts
  <1>2. cjob[r].planned \in MaybeTime /\ Later(now, BaseOf(r)) \in MaybeTime /\ None \in MaybeTime
    BY <1>1, RowFacts DEF MaybeTime
  <1>3. r \in Windowed /\ StartIn(r, plan) # None => StartIn(r, plan) \in MaybeTime
    BY StartOfIs DEF StartIn, MaybeTime
  <1>4. \E p \in MaybeTime : \/ Turn(r, plan) = [status |-> "unplaceable", planned |-> p, book |-> None, loose |-> FALSE]
                             \/ \E l \in BOOLEAN : Turn(r, plan) = [status |-> "planned", planned |-> p, book |-> p, loose |-> l]
    <2> HIDE DEF MaybeTime
    <2>. QED BY <1>2, <1>3, TurnIs
  <1>5. \A p \in MaybeTime, l \in BOOLEAN :
           /\ [status |-> "planned", planned |-> p, book |-> p, loose |-> l] \in PlanRec
           /\ [status |-> "unplaceable", planned |-> p, book |-> None, loose |-> FALSE] \in PlanRec
    BY <1>2 DEF PlanRec
  <1>. QED BY <1>4, <1>5, Zenon

(* A turn looks at the jobs before only. *)
LEMMA TurnLooksBack ==
    ASSUME NEW r, NEW f, NEW g, \A i \in Refs : i < r => f[i] = g[i]
    PROVE  Turn(r, f) = Turn(r, g)
  <1>1. \A i \in Windowed : i < r => f[i] = g[i] BY MovableFacts
  <1>2. {i \in Windowed : i < r /\ f[i].book # None} = {i \in Windowed : i < r /\ g[i].book # None} BY <1>1
  <1>3. {Book(i, f[i].book) : i \in {i \in Windowed : i < r /\ f[i].book # None}}
         = {Book(i, g[i].book) : i \in {i \in Windowed : i < r /\ g[i].book # None}}
    BY <1>1, <1>2
  <1>. QED BY <1>3 DEF Turn

LEMMA PlansStepwise == PlannerTyped => Stepwise(Refs, PlanRec \cup {NotPlanned}, EntryOf)
  <1> SUFFICES ASSUME PlannerTyped PROVE Stepwise(Refs, PlanRec \cup {NotPlanned}, EntryOf) OBVIOUS
  <1>1. \A r \in Refs, plan \in Plans : EntryOf[r][plan] = Entry(r, plan) BY DEF EntryOf
  <1>2. \A r \in Refs, plan \in Plans : Entry(r, plan) \in PlanRec \cup {NotPlanned} BY TurnTyped DEF Entry
  <1>3. ASSUME NEW r \in Refs, NEW f \in Plans, NEW g \in Plans, \A i \in Refs : i < r => f[i] = g[i]
        PROVE  Entry(r, f) = Entry(r, g)
    BY <1>3, TurnLooksBack DEF Entry
  <1> HIDE DEF EntryOf
  <1>. QED BY <1>1, <1>2, <1>3 DEF Stepwise, Plans

(* The plan is there, and is what its turns say. *)
LEMMA PlanIs ==
    ASSUME PlannerTyped
    PROVE  PlanOf \in Plans /\ \A r \in Refs : PlanOf[r] = Entry(r, PlanOf)
  <1>1. PICK f \in Plans : \A r \in Refs : f[r] = EntryOf[r][f]
    <2>1. PlanRec \cup {NotPlanned} # {} OBVIOUS
    <2>2. Refs \in SUBSET Nat BY PlannerAssumption
    <2>. QED BY <2>1, <2>2, PlansStepwise, ThereIsOne DEF Plans
  <1>2. \A r \in Refs : f[r] = Entry(r, f) BY <1>1 DEF EntryOf
  <1>3. f = [r \in Refs |-> f[r]] BY DEF Plans
  <1>4. f = [r \in Refs |-> IF r \in MovableRefs THEN Turn(r, f) ELSE [book |-> None]]
    BY <1>2, <1>3 DEF Entry, NotPlanned
  <1> DEFINE IsPlan(p) == p = [r \in Refs |-> IF r \in MovableRefs THEN Turn(r, p) ELSE [book |-> None]]
  <1>5. PlanOf = CHOOSE p : IsPlan(p) BY DEF PlanOf
  <1>6. IsPlan(f) BY <1>4
  <1> HIDE DEF IsPlan
  <1>7. IsPlan(PlanOf) BY <1>5, <1>6
  <1>8. \A r \in Refs : PlanOf[r] = Entry(r, PlanOf) BY <1>7 DEF IsPlan, Entry, NotPlanned
  <1>9. \A r \in Refs : Entry(r, PlanOf) \in PlanRec \cup {NotPlanned} BY TurnTyped DEF Entry
  <1>10. PlanOf = [r \in Refs |-> PlanOf[r]] BY <1>7 DEF IsPlan
  <1>. QED BY <1>8, <1>9, <1>10 DEF Plans

(* There is no other. *)
LEMMA PlanOnly ==
    ASSUME PlannerTyped, NEW f \in Plans, \A r \in Refs : f[r] = Entry(r, f)
    PROVE  f = PlanOf
  <1>1. \A r \in Refs : f[r] = EntryOf[r][f] BY DEF EntryOf
  <1>2. \A r \in Refs : PlanOf[r] = EntryOf[r][PlanOf] BY PlanIs DEF EntryOf
  <1>3. Refs \in SUBSET Nat BY PlannerAssumption
  <1>. QED BY <1>1, <1>2, <1>3, PlanIs, PlansStepwise, OnlyOne DEF Plans

-----------------------------------------------------------------------------
(* What a plan makes of the rows *)

LEMMA PlanRows ==
    ASSUME PlannerTyped, PlanSite, NEW r \in Refs
    PROVE  /\ r \notin MovableRefs => cjob'[r] = cjob[r]
           /\ r \in MovableRefs =>
                 /\ cjob'[r] = [cjob[r] EXCEPT !.status = Turn(r, PlanOf).status, !.planned = Turn(r, PlanOf).planned]
                 /\ PlanOf[r] = Turn(r, PlanOf)
                 /\ (r \in loose' <=> Turn(r, PlanOf).loose)
  <1>1. cjob'[r] = Row(r) /\ loose' = (loose \ MovableRefs) \cup {i \in MovableRefs : PlanOf[i].loose}
    BY DEF PlanSite, plan_site
  <1>2. r \in MovableRefs => PlanOf[r] = Turn(r, PlanOf) BY PlanIs DEF Entry
  <1>. QED BY <1>1, <1>2 DEF Row

(* Planning leaves a job what it is: known, waiting, movable or not. *)
LEMMA PlanKeepsRoles ==
    ASSUME PlannerTyped, PlanSite
    PROVE  /\ \A r \in Refs : BaseOf(r)' = BaseOf(r) /\ (cjob'[r] = None <=> cjob[r] = None)
                              /\ (r \in Known => cjob'[r].applied = cjob[r].applied)
           /\ Known' = Known /\ ShiftedRuns' = ShiftedRuns /\ PinnedRefs' = PinnedRefs /\ MovableRefs' = MovableRefs
           /\ Windowed' = Windowed /\ UNCHANGED <<now, price, actual>>
  <1>1. UNCHANGED <<now, price, actual>> BY DEF PlanSite
  <1>2. ASSUME NEW r \in MovableRefs
        PROVE  /\ r \in Refs /\ cjob[r] # None /\ cjob'[r] # None /\ cjob'[r].st = cjob[r].st /\ cjob'[r].status \in Movable
               /\ cjob'[r].applied = cjob[r].applied /\ cjob'[r].first = cjob[r].first /\ cjob'[r].pred = cjob[r].pred
    <2>1. r \in Refs /\ r \in Known BY MovableFacts
    <2>2. cjob[r] \in CJob BY <2>1, RowFacts
    <2>3. Turn(r, PlanOf) \in PlanRec BY TurnTyped
    <2>4. Turn(r, PlanOf).status \in {"planned", "unplaceable"} /\ Turn(r, PlanOf).planned \in MaybeTime BY <2>3 DEF PlanRec
    <2>5. cjob'[r] = [cjob[r] EXCEPT !.status = Turn(r, PlanOf).status, !.planned = Turn(r, PlanOf).planned] BY <2>1, PlanRows
    <2> DEFINE turn == Turn(r, PlanOf)
    <2> HIDE DEF turn
    <2>6. cjob'[r] = [cjob[r] EXCEPT !.status = turn.status, !.planned = turn.planned]
          /\ turn.status \in {"planned", "unplaceable"} /\ turn.planned \in MaybeTime
      BY <2>4, <2>5 DEF turn
    <2>7. cjob'[r] \in CJob BY <2>2, <2>6 DEF CJob, Movable
    <2>8. cjob'[r] # None /\ cjob[r] # None BY <2>2, <2>7, AbsentAssumption
    <2>. QED BY <2>1, <2>2, <2>6, <2>8 DEF CJob, Movable
  <1>3. \A r \in Refs : r \notin MovableRefs => cjob'[r] = cjob[r] BY PlanRows
  <1>4. \A r \in Refs : BaseOf(r)' = BaseOf(r)
    <2>1. \A r \in Refs : cjob'[r].first = cjob[r].first /\ cjob'[r].pred = cjob[r].pred BY <1>2, <1>3
    <2>. QED BY <2>1 DEF BaseOf, Base
  <1>5. Known' = Known BY <1>2, <1>3 DEF Known
  <1>6. /\ ShiftedRuns' = ShiftedRuns /\ Waiting' = Waiting
        /\ \A r \in Waiting : Pinned(cjob[r])' <=> Pinned(cjob[r])
    <2>1. \A r \in Known : /\ cjob'[r].st = cjob[r].st /\ cjob'[r].applied = cjob[r].applied
                           /\ (cjob'[r].status \in Movable <=> cjob[r].status \in Movable)
      BY <1>2, <1>3, MovableFacts
    <2>. QED BY <1>1, <1>5, <2>1, MovableFacts DEF ShiftedRuns, Waiting, Pinned
  <1>7. PinnedRefs' = PinnedRefs BY <1>6 DEF PinnedRefs
  <1>8. MovableRefs' = MovableRefs /\ Windowed' = Windowed BY <1>6, <1>7 DEF MovableRefs, Windowed
  <1>. QED BY <1>1, <1>2, <1>3, <1>4, <1>5, <1>6, <1>7, <1>8, MovableFacts

LEMMA TypedStep == PlannerTyped /\ PlannerNext => PlannerTyped'
  <1> SUFFICES ASSUME PlannerTyped, PlannerNext PROVE PlannerTyped' OBVIOUS
  <1>d. now \in Nat /\ price \in Published /\ cjob \in [Refs -> CJob \cup {None}] /\ actual \in [Refs -> MaybeTime]
    BY DEF PlannerTyped
  <1>1. CASE PlanSite
    <2>1. \A r \in Refs : cjob'[r] \in CJob \cup {None}
      <3> SUFFICES ASSUME NEW r \in MovableRefs PROVE cjob'[r] \in CJob BY <1>1, <1>d, PlanRows
      <3>1. r \in Refs /\ cjob[r] \in CJob BY MovableFacts, RowFacts
      <3> DEFINE turn == Turn(r, PlanOf)
      <3>2. turn.status \in {"planned", "unplaceable"} /\ turn.planned \in MaybeTime BY TurnTyped DEF PlanRec
      <3>3. cjob'[r] = [cjob[r] EXCEPT !.status = turn.status, !.planned = turn.planned] BY <1>1, <3>1, PlanRows
      <3> HIDE DEF turn
      <3>. QED BY <3>1, <3>2, <3>3 DEF CJob, Movable
    <2>2. cjob' = [r \in Refs |-> cjob'[r]] BY <1>1 DEF PlanSite, plan_site
    <2>3. cjob' \in [Refs -> CJob \cup {None}] BY <2>1, <2>2
    <2>. QED BY <1>1, <1>d, <2>3 DEF PlanSite, PlannerTyped
  <1>2. CASE Fetch BY <1>2, <1>d DEF Fetch, PlannerTyped
  <1>3. CASE PlannerTick BY <1>3, <1>d DEF PlannerTick, PlannerTyped
  <1>4. ASSUME NEW r \in Refs, Arrive(r) PROVE PlannerTyped'
    <2>1. PICK pred \in {None, now + 1} :
            cjob' = [cjob EXCEPT ![r] = NewJob([st |-> "PENDING", pred |-> pred, skip |-> FALSE, override |-> FALSE, ran |-> FALSE])]
      BY <1>4 DEF Arrive
    <2>2. NewJob([st |-> "PENDING", pred |-> pred, skip |-> FALSE, override |-> FALSE, ran |-> FALSE]) \in CJob
      BY <1>d DEF NewJob, CJob, States, Movable, MaybeTime
    <2>3. cjob' \in [Refs -> CJob \cup {None}] BY <1>d, <2>1, <2>2
    <2>. QED BY <1>4, <1>d, <2>3 DEF Arrive, PlannerTyped
  <1>5. ASSUME NEW r \in Refs, ReportOutcome(r) PROVE PlannerTyped'
    <2>1. PICK ok \in BOOLEAN : cjob' = [cjob EXCEPT ![r] = Reported(cjob[r], [at |-> Decision(cjob[r]), ok |-> ok], FALSE)]
      BY <1>5 DEF ReportOutcome
    <2>2. cjob[r] \in CJob /\ Decision(cjob[r]) \in Nat
      <3>1. Decision(cjob[r]) # None BY <1>5 DEF ReportOutcome
      <3>2. cjob[r] # None /\ Decision(cjob[r]) = cjob[r].planned BY <3>1 DEF Decision
      <3>. QED BY <1>d, <3>1, <3>2 DEF CJob, MaybeTime
    <2>3. Reported(cjob[r], [at |-> Decision(cjob[r]), ok |-> ok], FALSE) \in CJob
      BY <2>2, AbsentAssumption DEF Reported, CJob, MaybeTime, HandsOffStatus
    <2>4. cjob' \in [Refs -> CJob \cup {None}] BY <1>d, <2>1, <2>3
    <2>. QED BY <1>5, <1>d, <2>4 DEF ReportOutcome, PlannerTyped
  <1>6. ASSUME NEW r \in Refs, RunStarts(r) PROVE PlannerTyped'
    <2>1. cjob' = [cjob EXCEPT ![r] = [cjob[r] EXCEPT !.st = "RUNNING", !.ran = TRUE]] BY <1>6, <1>d DEF RunStarts
    <2>2. cjob[r] \in CJob BY <1>6, RowFacts DEF RunStarts
    <2>3. [cjob[r] EXCEPT !.st = "RUNNING", !.ran = TRUE] \in CJob BY <2>2 DEF CJob, States
    <2>4. cjob' \in [Refs -> CJob \cup {None}] BY <1>d, <2>1, <2>3
    <2>5. actual' \in [Refs -> MaybeTime] BY <1>6, <1>d DEF RunStarts, MaybeTime
    <2>. QED BY <1>6, <1>d, <2>4, <2>5 DEF RunStarts, PlannerTyped
  <1>7. ASSUME NEW r \in Refs, RunFinishes(r) PROVE PlannerTyped'
    <2>1. cjob' = [cjob EXCEPT ![r] = [cjob[r] EXCEPT !.st = "DONE"]] BY <1>7, <1>d DEF RunFinishes
    <2>2. cjob[r] \in CJob BY <1>7, RowFacts DEF RunFinishes
    <2>3. [cjob[r] EXCEPT !.st = "DONE"] \in CJob BY <2>2 DEF CJob, States
    <2>4. cjob' \in [Refs -> CJob \cup {None}] BY <1>d, <2>1, <2>3
    <2>. QED BY <1>7, <1>d, <2>4 DEF RunFinishes, PlannerTyped
  <1>. QED BY <1>1, <1>2, <1>3, <1>4, <1>5, <1>6, <1>7 DEF PlannerNext

LEMMA RightInit == PlannerInit => PlannerTyped /\ PlansRight
  <1> SUFFICES ASSUME PlannerInit PROVE PlannerTyped /\ PlansRight OBVIOUS
  <1>1. cjob = [r \in Refs |-> None] /\ now = 0 /\ price \in Published /\ actual = [r \in Refs |-> None]
    BY DEF PlannerInit, CloudInit, Nothing
  <1>. QED BY <1>1 DEF PlannerTyped, PlansRight, Known, MaybeTime

(* A report changes what is applied to what was decided, or makes the job abandoned. *)
LEMMA OutcomeIs ==
    ASSUME PlannerTyped, NEW r \in Refs, ReportOutcome(r)
    PROVE  /\ r \in Known /\ cjob[r].st = "PENDING" /\ cjob[r].status = "planned" /\ cjob[r].planned # None
           /\ \A i \in Refs : i # r => cjob'[i] = cjob[i]
           /\ cjob'[r] # None /\ cjob'[r].st = "PENDING" /\ cjob'[r].planned = cjob[r].planned
           /\ \/ cjob'[r].status = "abandoned" /\ cjob'[r].applied # cjob'[r].planned
              \/ cjob'[r].status = "planned" /\ cjob'[r].applied = cjob[r].planned
           /\ loose' = IF Pinned(cjob[r]) THEN loose \cup {r} ELSE loose
           /\ UNCHANGED <<now, price, actual>>
  <1>d. cjob \in [Refs -> CJob \cup {None}] BY DEF PlannerTyped
  <1>1. PICK ok \in BOOLEAN : cjob' = [cjob EXCEPT ![r] = Reported(cjob[r], [at |-> Decision(cjob[r]), ok |-> ok], FALSE)]
    BY DEF ReportOutcome
  <1>2. Decision(cjob[r]) # None BY DEF ReportOutcome
  <1>3. /\ cjob[r] # None /\ Decision(cjob[r]) = cjob[r].planned
        /\ cjob[r].st = "PENDING" /\ cjob[r].status = "planned" /\ cjob[r].planned # None
    BY <1>2 DEF Decision
  <1>4. cjob[r] \in CJob /\ cjob[r].planned \in Nat BY <1>d, <1>3 DEF CJob, MaybeTime
  <1> DEFINE a == [at |-> cjob[r].planned, ok |-> ok]
  <1>5. a # None /\ a.ok = ok /\ a.at = cjob[r].planned BY <1>4, PlannerAssumption DEF Report
  <1>6. cjob'[r] = Reported(cjob[r], a, FALSE) BY <1>1, <1>3, <1>d
  <1> HIDE DEF a
  <1>7. cjob'[r] = [cjob[r] EXCEPT !.applied = IF ok THEN cjob[r].planned ELSE @,
                                   !.status = IF ~ok THEN "abandoned" ELSE @]
    BY <1>3, <1>5, <1>6 DEF Reported
  <1>8. /\ cjob'[r].st = "PENDING" /\ cjob'[r].planned = cjob[r].planned
        /\ cjob'[r].status = IF ~ok THEN "abandoned" ELSE "planned"
        /\ cjob'[r].applied = IF ok THEN cjob[r].planned ELSE cjob[r].applied
    BY <1>3, <1>4, <1>7 DEF CJob
  <1>n. cjob[r].planned # cjob[r].applied BY <1>2 DEF Decision
  <1>9. cjob'[r] # None
    <2>1. cjob'[r] \in CJob BY <1>4, <1>7 DEF CJob, HandsOffStatus, MaybeTime
    <2>. QED BY <2>1, AbsentAssumption
  <1>10. \A i \in Refs : i # r => cjob'[i] = cjob[i] BY <1>1, <1>d
  <1>. QED BY <1>3, <1>8, <1>n, <1>9, <1>10 DEF ReportOutcome, Stale, Known

LEMMA RightStep == PlannerTyped /\ PlansRight /\ PlannerNext => PlansRight'
  <1> SUFFICES ASSUME PlannerTyped, PlansRight, PlannerNext, NEW r \in Known'
               PROVE  /\ cjob'[r].planned # None /\ cjob'[r].applied = cjob'[r].planned => cjob'[r].status = "planned"
                      /\ Dur[r] = None => cjob'[r].planned = None
    BY DEF PlansRight
  <1>d. cjob \in [Refs -> CJob \cup {None}] BY DEF PlannerTyped
  <1>r. r \in Refs /\ cjob'[r] # None BY DEF Known
  <1>o. r \in Known => /\ cjob[r].planned # None /\ cjob[r].applied = cjob[r].planned => cjob[r].status = "planned"
                       /\ Dur[r] = None => cjob[r].planned = None
    BY DEF PlansRight
  <1>s. cjob'[r] = cjob[r] => r \in Known BY <1>r DEF Known
  <1>1. CASE PlanSite
    <2>1. CASE r \notin MovableRefs BY <1>1, <2>1, <1>r, <1>o, <1>s, PlanRows
    <2>2. CASE r \in MovableRefs
      <3>1. r \in Known /\ cjob[r] \in CJob BY <2>2, MovableFacts, RowFacts
      <3> DEFINE turn == Turn(r, PlanOf)
      <3>2. cjob'[r] = [cjob[r] EXCEPT !.status = turn.status, !.planned = turn.planned] BY <1>1, <1>r, <2>2, PlanRows
      <3>3. \/ /\ r \notin Windowed \/ ~(cjob[r].status = "planned" /\ cjob[r].planned # None)
               /\ turn.status = "unplaceable" /\ turn.planned = cjob[r].planned
            \/ r \in Windowed /\ turn.status = "planned"
        BY <2>2, TurnIs
      <3> HIDE DEF turn
      <3>4. cjob'[r].status = turn.status /\ cjob'[r].planned = turn.planned /\ cjob'[r].applied = cjob[r].applied
        BY <3>1, <3>2 DEF CJob
      <3>5. r \in Windowed <=> Dur[r] # None BY <2>2 DEF Windowed
      <3>. QED BY <1>o, <3>1, <3>3, <3>4, <3>5
    <2>. QED BY <2>1, <2>2
  <1>2. CASE Fetch \/ PlannerTick BY <1>2, <1>o, <1>s DEF Fetch, PlannerTick
  <1>g. cjob'[r].planned = None => /\ cjob'[r].planned # None /\ cjob'[r].applied = cjob'[r].planned => cjob'[r].status = "planned"
                                   /\ Dur[r] = None => cjob'[r].planned = None
    OBVIOUS
  <1>3. ASSUME NEW i \in Refs, Arrive(i) PROVE r = i => cjob'[r].planned = None
    BY <1>3, <1>d DEF Arrive, NewJob
  <1>4. ASSUME NEW i \in Refs, Arrive(i), r # i PROVE cjob'[r] = cjob[r] BY <1>4, <1>d, <1>r DEF Arrive
  <1>5. CASE \E i \in Refs : Arrive(i) BY <1>5, <1>3, <1>4, <1>g, <1>o, <1>s
  <1>6. ASSUME NEW i \in Refs, ReportOutcome(i)
        PROVE  /\ cjob'[r].planned # None /\ cjob'[r].applied = cjob'[r].planned => cjob'[r].status = "planned"
               /\ Dur[r] = None => cjob'[r].planned = None
    BY <1>6, <1>o, <1>r, <1>s, OutcomeIs
  <1>7. ASSUME NEW i \in Refs, RunStarts(i) \/ RunFinishes(i)
        PROVE  /\ cjob'[r].planned # None /\ cjob'[r].applied = cjob'[r].planned => cjob'[r].status = "planned"
               /\ Dur[r] = None => cjob'[r].planned = None
    <2>1. i \in Known /\ cjob[i] \in CJob BY <1>7, RowFacts DEF RunStarts, RunFinishes
    <2>2. \/ cjob' = [cjob EXCEPT ![i] = [cjob[i] EXCEPT !.st = "RUNNING", !.ran = TRUE]]
          \/ cjob' = [cjob EXCEPT ![i] = [cjob[i] EXCEPT !.st = "DONE"]]
      BY <1>7, <1>d DEF RunStarts, RunFinishes
    <2>3. r # i => cjob'[r] = cjob[r] BY <1>d, <1>r, <2>2
    <2>4. r = i => r \in Known /\ cjob'[r].planned = cjob[r].planned /\ cjob'[r].applied = cjob[r].applied
                  /\ cjob'[r].status = cjob[r].status
      <3> SUFFICES ASSUME r = i PROVE r \in Known /\ cjob'[i].planned = cjob[i].planned
                                      /\ cjob'[i].applied = cjob[i].applied /\ cjob'[i].status = cjob[i].status
        OBVIOUS
      <3>1. cjob'[i] = [cjob[i] EXCEPT !.st = "RUNNING", !.ran = TRUE] \/ cjob'[i] = [cjob[i] EXCEPT !.st = "DONE"]
        BY <1>d, <2>2
      <3>. QED BY <2>1, <3>1 DEF CJob
    <2>. QED BY <2>3, <2>4, <1>o, <1>s
  <1>. QED BY <1>1, <1>2, <1>5, <1>6, <1>7 DEF PlannerNext

-----------------------------------------------------------------------------
(* Every plan is one of the cloud's *)

(* One row, planned: it is one of those that the contract allows. *)
LEMMA RowPlanned ==
    ASSUME PlannerTyped, PlansRight, PlanSite, NEW r \in Refs
    PROVE  cjob'[r] \in Planned(r, cjob[r])
  <1>1. CASE cjob[r] = None
    <2>1. r \notin MovableRefs BY <1>1, MovableFacts
    <2>. QED BY <1>1, <2>1, PlanRows DEF Planned
  <1>2. CASE cjob[r] # None /\ r \notin MovableRefs
    <2>1. cjob[r].st # "PENDING" \/ cjob[r].status \notin Movable \/ Pinned(cjob[r])
      BY <1>2 DEF MovableRefs, PinnedRefs, Waiting, Known
    <2>. QED BY <1>2, <2>1, PlanRows DEF Planned
  <1>3. CASE r \in MovableRefs
    <2> DEFINE j == cjob[r]
               earliest == Later(now, BaseOf(r))
               latest == LatestStart(r)
               turn == Turn(r, PlanOf)
               start == StartIn(r, PlanOf)
               back == IF j.applied # None THEN earliest ELSE None
    <2>1. r \in Known /\ j \in CJob /\ j # None /\ j.st = "PENDING" /\ j.status \in Movable /\ ~Pinned(j)
      BY <1>3, MovableFacts, RowFacts
    <2>2. Planned(r, j) =
             {[j EXCEPT !.status = "planned", !.planned = s] : s \in earliest .. latest}
             \cup (IF earliest <= latest THEN {[j EXCEPT !.status = "planned", !.planned = back]} ELSE {})
             \cup {IF j.status = "planned" /\ j.planned # None THEN j ELSE [j EXCEPT !.status = "unplaceable"]}
      BY <2>1 DEF Planned, BaseOf, LatestStart
    <2>3. cjob'[r] = [j EXCEPT !.status = turn.status, !.planned = turn.planned] BY <1>3, PlanRows
    <2>4. earliest \in Int /\ latest \in Int BY <2>1, RowFacts
    <2>5. r \in Windowed /\ start # None => start \in earliest .. latest
      <3> SUFFICES ASSUME r \in Windowed, start # None PROVE start \in earliest .. latest OBVIOUS
      <3>1. start \in Nat /\ earliest <= start /\ start <= latest BY StartOfIs DEF StartIn
      <3> HIDE DEF earliest, latest, start
      <3>. QED BY <2>4, <3>1
    <2>6. r \notin Windowed => j.planned = None BY <1>3, <2>1 DEF Windowed, PlansRight
    <2>7. \/ /\ ~(j.status = "planned" /\ j.planned # None)
             /\ turn.status = "unplaceable" /\ turn.planned = j.planned
          \/ j.status = "planned" /\ j.planned # None /\ turn.status = "planned" /\ turn.planned = j.planned
          \/ start \in earliest .. latest /\ turn.status = "planned" /\ turn.planned = start
          \/ start \in earliest .. latest /\ turn.status = "planned" /\ turn.planned = back
      BY <1>3, <2>5, <2>6, TurnIs
    <2> HIDE DEF j, turn, start, earliest, latest, back
    <2>8. CASE ~(j.status = "planned" /\ j.planned # None) /\ turn.status = "unplaceable" /\ turn.planned = j.planned
      <3>1. [j EXCEPT !.status = turn.status, !.planned = turn.planned] = [j EXCEPT !.status = "unplaceable"]
        BY <2>1, <2>8 DEF CJob
      <3>. QED BY <2>2, <2>3, <2>8, <3>1 DEF j
    <2>9. CASE j.status = "planned" /\ j.planned # None /\ turn.status = "planned" /\ turn.planned = j.planned
      <3>1. [j EXCEPT !.status = turn.status, !.planned = turn.planned] = j BY <2>1, <2>9 DEF CJob
      <3>. QED BY <2>2, <2>3, <2>9, <3>1 DEF j
    <2>10. CASE start \in earliest .. latest /\ turn.status = "planned" /\ turn.planned = start
      <3>1. \A s \in earliest .. latest : [j EXCEPT !.status = "planned", !.planned = s] \in Planned(r, j) BY <2>2
      <3>2. [j EXCEPT !.status = "planned", !.planned = start] \in Planned(r, j) BY <2>10, <3>1
      <3>3. cjob'[r] = [j EXCEPT !.status = "planned", !.planned = start] BY <2>3, <2>10
      <3>. QED BY <3>2, <3>3 DEF j
    <2>11. CASE start \in earliest .. latest /\ turn.status = "planned" /\ turn.planned = back
      <3>1. earliest <= latest BY <2>4, <2>11
      <3>. QED BY <2>2, <2>3, <2>11, <3>1 DEF j
    <2>. QED BY <2>7, <2>8, <2>9, <2>10, <2>11
  <1>. QED BY <1>1, <1>2, <1>3 DEF MovableRefs, Waiting, Known

(* Every plan of the site planner, with its prices, bill, capacity and order, is one that the contract of *)
(* the cloud allows: what is proved of the composition of agent and cloud holds for this planner.        *)
THEOREM PlansAreTheClouds == PlannerSpec => PlansAsCloud
  <1> DEFINE Inv == PlannerTyped /\ PlansRight
  <1>1. PlannerInit => Inv BY RightInit
  <1>2. Inv /\ [PlannerNext]_planVars => Inv'
    <2>1. CASE PlannerNext BY <2>1, TypedStep, RightStep
    <2>2. CASE UNCHANGED planVars BY <2>2 DEF planVars, PlannerTyped, PlansRight, Known
    <2>. QED BY <2>1, <2>2
  <1>3. Inv /\ [PlannerNext]_planVars => [fresh' => \A r \in Refs : cjob'[r] \in Planned(r, cjob[r])]_planVars
    <2> SUFFICES ASSUME Inv, PlannerNext, fresh' PROVE \A r \in Refs : cjob'[r] \in Planned(r, cjob[r]) OBVIOUS
    <2>1. PlanSite BY DEF PlannerNext, Fetch, PlannerTick, Arrive, ReportOutcome, RunStarts, RunFinishes, Stale
    <2>. QED BY <2>1, RowPlanned
  <1> HIDE DEF Inv
  <1>. QED BY <1>1, <1>2, <1>3, PTL DEF PlannerSpec, PlansAsCloud

-----------------------------------------------------------------------------
(* The capacity *)

Bookings(R, at) == {Book(r, at[r]) : r \in R}
Starting == [r \in Refs |-> StartAt(r)]

(* The jobs whose start was found by a look at what is left, and is the one in force if there is one. *)
LookedAt ==
    {r \in Known : /\ Dur[r] # None /\ r \notin loose
                   /\ \/ r \in ShiftedRuns \cup PinnedRefs /\ cjob[r].applied = cjob[r].planned
                      \/ r \in MovableRefs /\ cjob[r].status = "planned" /\ cjob[r].planned # None}

RoomKept == \A b \in Blocks : Load(Bookings(LookedAt, Starting), b) <= site_cap

LEMMA BookingsOk ==
    ASSUME NEW R \in SUBSET Refs, NEW at, \A r \in R : Dur[r] # None /\ at[r] \in Int
    PROVE  Bookables(Bookings(R, at))
  <1> DEFINE B == Bookings(R, at)
             f == [r \in R |-> Book(r, at[r])]
  <1>1. f \in Surjection(R, B) BY DEF Surjection, Bookings
  <1>2. IsFiniteSet(R) BY PlannerAssumption, FS_Subset
  <1>3. IsFiniteSet(B)
    <2> HIDE DEF B, f
    <2>. QED BY <1>1, <1>2, FS_Surjection
  <1>4. \A r \in R : Bookable(Book(r, at[r]))
    <2>1. \A r \in R : Dur[r] \in Nat /\ Gpus[r] \in Nat BY SizesOf
    <2>. QED BY <2>1 DEF Bookable, Book
  <1>. QED BY <1>3, <1>4 DEF Bookables, Bookings

(* Fewer bookings, at the same starts, take no more. *)
LEMMA FewerBooked ==
    ASSUME NEW R \in SUBSET Refs, NEW at, \A r \in R : Dur[r] # None /\ at[r] \in Int,
           NEW Q \in SUBSET R, NEW at2, \A r \in Q : at2[r] = at[r], NEW b \in Blocks
    PROVE  Load(Bookings(Q, at2), b) <= Load(Bookings(R, at), b)
  <1>1. Bookables(Bookings(R, at)) /\ Bookables(Bookings(Q, at2)) BY BookingsOk
  <1>2. Bookings(Q, at2) \subseteq Bookings(R, at) BY DEF Bookings
  <1>. QED BY <1>1, <1>2, LoadWithin

LEMMA CapIs == site_cap \in Int
  BY PlannerAssumption, AllocatorAssumption DEF site_cap, Earliest

LEMMA LookedAtIs ==
    ASSUME PlannerTyped
    PROVE  /\ LookedAt \in SUBSET Refs
           /\ \A r \in LookedAt : /\ Dur[r] # None /\ Starting[r] \in Int
                                  /\ Starting[r] = IF r \in ShiftedRuns THEN actual[r] ELSE cjob[r].planned
  <1> SUFFICES ASSUME NEW r \in LookedAt
               PROVE  /\ r \in Refs /\ Dur[r] # None /\ Starting[r] \in Int
                      /\ Starting[r] = IF r \in ShiftedRuns THEN actual[r] ELSE cjob[r].planned
    OBVIOUS
  <1>1. r \in Known /\ r \in Refs /\ Dur[r] # None BY DEF LookedAt, Known
  <1>2. cjob[r].planned \in MaybeTime /\ cjob[r].applied \in MaybeTime BY <1>1, RowFacts
  <1>3. actual[r] \in MaybeTime BY <1>1 DEF PlannerTyped
  <1>4. CASE r \in ShiftedRuns BY <1>1, <1>3, <1>4 DEF ShiftedRuns, Starting, StartAt, MaybeTime
  <1>5. CASE r \notin ShiftedRuns /\ r \in PinnedRefs
    <2>1. cjob[r].applied # None BY <1>5 DEF PinnedRefs, Pinned
    <2>2. cjob[r].applied = cjob[r].planned BY <1>5 DEF LookedAt, MovableRefs
    <2>. QED BY <1>1, <1>2, <1>5, <2>1, <2>2 DEF Starting, StartAt, MaybeTime
  <1>6. CASE r \notin ShiftedRuns /\ r \notin PinnedRefs
    BY <1>1, <1>2, <1>6 DEF LookedAt, Starting, StartAt, MaybeTime
  <1>. QED BY <1>4, <1>5, <1>6

(* As long as no job is looked at that was not, or starts at another time, the room is kept. *)
LEMMA RoomStays ==
    ASSUME PlannerTyped, RoomKept, LookedAt' \subseteq LookedAt, \A r \in LookedAt' : StartAt(r)' = StartAt(r)
    PROVE  RoomKept'
  <1> SUFFICES ASSUME NEW b \in Blocks PROVE Load(Bookings(LookedAt', Starting'), b) <= site_cap BY DEF RoomKept, Bookings, Load, Units, Book
  <1>1. \A r \in LookedAt' : Starting'[r] = Starting[r] BY LookedAtIs DEF Starting
  <1>2. Load(Bookings(LookedAt', Starting'), b) <= Load(Bookings(LookedAt, Starting), b)
    BY <1>1, LookedAtIs, FewerBooked
  <1>3. Load(Bookings(LookedAt, Starting), b) \in Nat /\ Load(Bookings(LookedAt', Starting'), b) \in Nat
    <2>1. Bookables(Bookings(LookedAt, Starting)) /\ Bookables(Bookings(LookedAt', Starting'))
      BY <1>1, LookedAtIs, BookingsOk
    <2>. QED BY <2>1, LoadFinite
  <1>. QED BY <1>2, <1>3, CapIs DEF RoomKept

(* A job that nothing happens to is looked at as before. *)
LEMMA RowUnmoved ==
    ASSUME NEW r \in Refs, cjob'[r] = cjob[r], actual'[r] = actual[r], now' = now, r \in loose => r \in loose', r \in LookedAt'
    PROVE  r \in LookedAt /\ StartAt(r)' = StartAt(r)
  <1>1. r \in Known' <=> r \in Known BY DEF Known
  <1>2. /\ r \in ShiftedRuns' <=> r \in ShiftedRuns
        /\ r \in Waiting' <=> r \in Waiting
        /\ Pinned(cjob[r])' <=> Pinned(cjob[r])
    BY <1>1 DEF ShiftedRuns, Waiting, Pinned
  <1>3. (r \in PinnedRefs' <=> r \in PinnedRefs) /\ (r \in MovableRefs' <=> r \in MovableRefs)
    BY <1>2 DEF PinnedRefs, MovableRefs, Pinned
  <1>4. r \in LookedAt BY <1>1, <1>2, <1>3 DEF LookedAt
  <1>5. StartAt(r)' = StartAt(r) BY <1>2, <1>3 DEF StartAt
  <1>. QED BY <1>4, <1>5

(* Between two plans, nothing is looked at that was not, and nothing of it moves. *)
LEMMA RoomStep == PlannerTyped /\ PlansRight /\ RoomKept /\ PlannerNext /\ ~PlanSite => RoomKept'
  <1> SUFFICES ASSUME PlannerTyped, PlansRight, RoomKept, PlannerNext, ~PlanSite, NEW r \in LookedAt'
               PROVE  r \in LookedAt /\ StartAt(r)' = StartAt(r)
    BY RoomStays
  <1>d. cjob \in [Refs -> CJob \cup {None}] /\ now \in Nat /\ actual \in [Refs -> MaybeTime] BY DEF PlannerTyped
  <1>r. r \in Refs /\ cjob'[r] # None /\ r \notin loose' BY DEF LookedAt, Known
  <1>1. CASE Fetch BY <1>1, <1>r, RowUnmoved DEF Fetch
  <1>2. CASE PlannerTick
    <2>1. cjob' = cjob /\ actual' = actual /\ loose' = loose /\ now' = now + 1 BY <1>2 DEF PlannerTick
    <2>2. r \in Known /\ (r \in ShiftedRuns' <=> r \in ShiftedRuns) /\ (r \in Waiting' <=> r \in Waiting)
      BY <1>r, <2>1 DEF Known, ShiftedRuns, Waiting
    <2>3. cjob[r].applied \in MaybeTime BY <2>2, RowFacts
    <2>4. Pinned(cjob[r]) => Pinned(cjob[r])' BY <1>d, <2>1, <2>3, CloudAssumption DEF Pinned, MaybeTime
    <2>5. r \in PinnedRefs => r \in PinnedRefs' BY <2>2, <2>4, <2>1 DEF PinnedRefs, Pinned
    <2>6. r \in MovableRefs' => r \in MovableRefs BY <2>2, <2>5 DEF MovableRefs, PinnedRefs
    <2>7. CASE r \in ShiftedRuns' BY <2>1, <2>2, <2>7 DEF LookedAt, StartAt, ShiftedRuns, Waiting, PinnedRefs, MovableRefs
    <2>8. CASE r \in MovableRefs'
      <3>1. r \notin ShiftedRuns' /\ r \notin PinnedRefs' /\ r \notin ShiftedRuns /\ r \notin PinnedRefs
        BY <2>8, <2>6, <2>1 DEF MovableRefs, ShiftedRuns, Waiting
      <3>2. cjob[r].status = "planned" /\ cjob[r].planned # None /\ Dur[r] # None BY <2>1, <2>8, <3>1 DEF LookedAt
      <3>. QED BY <1>r, <2>1, <2>2, <2>6, <2>8, <3>1, <3>2 DEF LookedAt, StartAt
    <2>9. CASE r \in PinnedRefs' /\ r \notin ShiftedRuns' /\ r \notin MovableRefs'
      <3>1. cjob[r].applied # None /\ cjob[r].applied = cjob[r].planned /\ Dur[r] # None
        BY <2>1, <2>9 DEF LookedAt, PinnedRefs, Pinned
      <3>2. cjob[r].status = "planned" BY <2>2, <3>1 DEF PlansRight
      <3>3. r \notin ShiftedRuns /\ r \in Waiting BY <2>2, <2>9 DEF PinnedRefs
      <3>4. StartAt(r)' = cjob[r].applied BY <2>1, <2>9 DEF StartAt
      <3>5. CASE r \in PinnedRefs BY <1>r, <2>1, <2>2, <3>1, <3>3, <3>4, <3>5 DEF LookedAt, StartAt
      <3>6. CASE r \in MovableRefs
        <4>1. r \notin PinnedRefs BY <3>6 DEF MovableRefs
        <4>. QED BY <1>r, <2>1, <2>2, <3>1, <3>2, <3>3, <3>4, <3>6, <4>1 DEF LookedAt, StartAt
      <3>. QED BY <3>3, <3>5, <3>6 DEF MovableRefs
    <2>. QED BY <2>7, <2>8, <2>9 DEF LookedAt
  <1>3. ASSUME NEW i \in Refs, Arrive(i) PROVE r \in LookedAt /\ StartAt(r)' = StartAt(r)
    <2>1. CASE r # i
      <3>1. cjob'[r] = cjob[r] BY <1>3, <1>d, <1>r, <2>1 DEF Arrive
      <3>. QED BY <1>3, <1>r, <3>1, RowUnmoved DEF Arrive
    <2>2. CASE r = i
      <3>1. cjob'[r].planned = None /\ cjob'[r].applied = None BY <1>3, <1>d, <2>2 DEF Arrive, NewJob
      <3>. QED BY <3>1 DEF LookedAt, ShiftedRuns, PinnedRefs, Pinned
    <2>. QED BY <2>1, <2>2
  <1>4. ASSUME NEW i \in Refs, ReportOutcome(i) PROVE r \in LookedAt /\ StartAt(r)' = StartAt(r)
    <2>1. CASE r # i
      <3>1. cjob'[r] = cjob[r] /\ (r \in loose => r \in loose') BY <1>4, <1>r, <2>1, OutcomeIs
      <3>. QED BY <1>4, <1>r, <3>1, OutcomeIs, RowUnmoved
    <2>2. CASE r = i
      <3>1. /\ r \in Known /\ cjob[r].st = "PENDING" /\ cjob[r].status = "planned" /\ cjob[r].planned # None
            /\ cjob'[r].st = "PENDING" /\ cjob'[r].planned = cjob[r].planned
            /\ \/ cjob'[r].status = "abandoned"
               \/ cjob'[r].status = "planned" /\ cjob'[r].applied = cjob[r].planned
            /\ loose' = IF Pinned(cjob[r]) THEN loose \cup {r} ELSE loose
        BY <1>4, <1>r, <2>2, OutcomeIs
      <3>2. r \notin ShiftedRuns' /\ r \notin ShiftedRuns BY <3>1 DEF ShiftedRuns
      <3>3. r \in PinnedRefs' \cup MovableRefs' BY <3>2 DEF LookedAt
      <3>4. cjob'[r].status # "abandoned" BY <3>3 DEF PinnedRefs, MovableRefs, Waiting, Movable
      <3>5. ~Pinned(cjob[r]) /\ r \notin loose BY <1>r, <3>1
      <3>6. r \in MovableRefs /\ r \notin PinnedRefs BY <1>r, <3>1, <3>5 DEF MovableRefs, PinnedRefs, Waiting, Movable
      <3>7. StartAt(r)' = cjob[r].planned BY <3>1, <3>2, <3>4 DEF StartAt
      <3>8. StartAt(r) = cjob[r].planned BY <3>2, <3>6 DEF StartAt
      <3>9. Dur[r] # None BY DEF LookedAt
      <3>. QED BY <3>1, <3>5, <3>6, <3>7, <3>8, <3>9 DEF LookedAt
    <2>. QED BY <2>1, <2>2
  <1>5. ASSUME NEW i \in Refs, RunStarts(i) PROVE r \in LookedAt /\ StartAt(r)' = StartAt(r)
    <2>0. /\ i \in Known /\ cjob[i].st = "PENDING" /\ now' = now /\ actual' = [actual EXCEPT ![i] = now]
          /\ cjob' = [cjob EXCEPT ![i] = [cjob[i] EXCEPT !.st = "RUNNING", !.ran = TRUE]]
          /\ loose' = IF cjob[i].applied = now THEN loose ELSE loose \cup {i}
      BY <1>5, <1>d DEF RunStarts
    <2>1. CASE r # i
      <3>1. cjob'[r] = cjob[r] /\ actual'[r] = actual[r] /\ (r \in loose => r \in loose') BY <1>d, <1>r, <2>0, <2>1
      <3>. QED BY <1>r, <2>0, <3>1, RowUnmoved
    <2>2. CASE r = i
      <3>1. cjob'[r] = [cjob[r] EXCEPT !.st = "RUNNING", !.ran = TRUE] /\ actual'[r] = now BY <1>d, <1>r, <2>0, <2>2
      <3>2. cjob[r] \in CJob BY <2>0, <2>2, RowFacts
      <3>3. /\ cjob'[r].st = "RUNNING" /\ cjob'[r].applied = cjob[r].applied /\ cjob'[r].planned = cjob[r].planned
        BY <3>1, <3>2 DEF CJob
      <3>4. r \notin PinnedRefs' /\ r \notin MovableRefs' BY <3>3 DEF PinnedRefs, MovableRefs, Waiting
      <3>5. r \in ShiftedRuns' /\ cjob[r].applied = cjob[r].planned /\ cjob[r].applied # None /\ Dur[r] # None
        BY <3>3, <3>4 DEF LookedAt, ShiftedRuns
      <3>6. cjob[r].applied = now /\ r \notin loose BY <1>r, <2>0, <2>2
      <3>7. cjob[r].status = "planned" BY <2>0, <2>2, <3>5 DEF PlansRight
      <3>8. r \in PinnedRefs /\ r \notin ShiftedRuns
        BY <1>d, <2>0, <2>2, <3>5, <3>6, <3>7, CloudAssumption DEF PinnedRefs, Waiting, Pinned, Movable, ShiftedRuns
      <3>9. r \in LookedAt BY <2>0, <2>2, <3>5, <3>6, <3>8 DEF LookedAt
      <3>10. StartAt(r)' = now /\ StartAt(r) = now BY <3>1, <3>5, <3>6, <3>8 DEF StartAt
      <3>. QED BY <3>9, <3>10
    <2>. QED BY <2>1, <2>2
  <1>6. ASSUME NEW i \in Refs, RunFinishes(i) PROVE r \in LookedAt /\ StartAt(r)' = StartAt(r)
    <2>0. /\ i \in Known /\ now' = now /\ actual' = actual /\ loose' = loose
          /\ cjob' = [cjob EXCEPT ![i] = [cjob[i] EXCEPT !.st = "DONE"]]
      BY <1>6, <1>d DEF RunFinishes
    <2>1. CASE r # i
      <3>1. cjob'[r] = cjob[r] BY <1>d, <1>r, <2>0, <2>1
      <3>. QED BY <1>r, <2>0, <3>1, RowUnmoved
    <2>2. CASE r = i
      <3>1. cjob'[r] = [cjob[r] EXCEPT !.st = "DONE"] /\ cjob[r] \in CJob BY <1>d, <1>r, <2>0, <2>2, RowFacts
      <3>2. cjob'[r].st = "DONE" BY <3>1 DEF CJob
      <3>. QED BY <3>2 DEF LookedAt, ShiftedRuns, PinnedRefs, MovableRefs, Waiting
    <2>. QED BY <2>1, <2>2
  <1>. QED BY <1>1, <1>2, <1>3, <1>4, <1>5, <1>6 DEF PlannerNext

(* What the plan books for the jobs that it finds a start for. *)
Placed == {r \in Windowed : PlanOf[r].book # None /\ ~PlanOf[r].loose}
PlacedAt == [r \in Refs |-> PlanOf[r].book]

LEMMA PlacedIs ==
    ASSUME PlannerTyped
    PROVE  /\ Placed \in SUBSET Refs
           /\ \A r \in Placed : Dur[r] # None /\ PlacedAt[r] \in Int /\ PlacedAt[r] = StartIn(r, PlanOf) /\ StartIn(r, PlanOf) # None
  <1> SUFFICES ASSUME NEW r \in Placed
               PROVE  r \in Refs /\ Dur[r] # None /\ PlacedAt[r] \in Int /\ PlacedAt[r] = StartIn(r, PlanOf) /\ StartIn(r, PlanOf) # None
    OBVIOUS
  <1>1. r \in Windowed /\ r \in MovableRefs /\ r \in Refs /\ Dur[r] # None BY MovableFacts DEF Placed
  <1> DEFINE turn == Turn(r, PlanOf)
  <1>2. PlanOf[r] = turn BY <1>1, PlanIs DEF Entry
  <1>3. turn.book # None /\ ~turn.loose BY <1>2 DEF Placed
  <1>4. turn.book = StartIn(r, PlanOf) /\ StartIn(r, PlanOf) # None BY <1>1, <1>3, TurnIs
  <1>5. StartIn(r, PlanOf) \in Nat BY <1>1, <1>4, StartOfIs DEF StartIn
  <1>. QED BY <1>1, <1>2, <1>4, <1>5 DEF PlacedAt

(* After a plan, what was looked at is what was before, of the jobs it may not move, and what it placed. *)
LEMMA LookedAtAfter ==
    ASSUME PlannerTyped, PlanSite, NEW r \in LookedAt'
    PROVE  \/ r \in LookedAt \ MovableRefs /\ StartAt(r)' = StartAt(r)
           \/ r \in Placed /\ StartAt(r)' = PlanOf[r].book
  <1>1. r \in Refs /\ r \in Known BY PlanKeepsRoles DEF LookedAt, Known
  <1>2. CASE r \notin MovableRefs
    <2>1. cjob'[r] = cjob[r] /\ (r \in loose => r \in loose') BY <1>1, <1>2, PlanRows DEF PlanSite
    <2>2. now' = now /\ actual' = actual BY DEF PlanSite
    <2>. QED BY <1>1, <1>2, <2>1, <2>2, RowUnmoved
  <1>3. CASE r \in MovableRefs
    <2> DEFINE turn == Turn(r, PlanOf)
    <2>1. /\ cjob'[r] = [cjob[r] EXCEPT !.status = turn.status, !.planned = turn.planned]
          /\ PlanOf[r] = turn /\ (r \in loose' <=> turn.loose)
      BY <1>1, <1>3, PlanRows
    <2>2. cjob[r] \in CJob /\ cjob[r].st = "PENDING" /\ r \notin PinnedRefs /\ r \notin ShiftedRuns
      BY <1>1, <1>3, RowFacts, MovableFacts DEF MovableRefs, ShiftedRuns
    <2>3. r \notin PinnedRefs' /\ r \notin ShiftedRuns' BY <2>2, PlanKeepsRoles
    <2>4. cjob'[r].status = turn.status /\ cjob'[r].planned = turn.planned
      <3> HIDE DEF turn
      <3>. QED BY <2>1, <2>2 DEF CJob
    <2>5. ~turn.loose /\ turn.status = "planned" /\ turn.planned # None BY <2>1, <2>3, <2>4 DEF LookedAt
    <2>6. StartAt(r)' = turn.planned BY <2>3, <2>4 DEF StartAt
    <2>7. r \in Windowed /\ turn.book = turn.planned BY <1>3, <2>5, TurnIs
    <2>. QED BY <2>1, <2>5, <2>6, <2>7 DEF Placed
  <1>. QED BY <1>2, <1>3

(* A plan keeps the room: it places a job beside all that holds capacity and all that it placed before. *)
LEMMA RoomPlanned == PlannerTyped /\ RoomKept /\ PlanSite => RoomKept'
  <1> SUFFICES ASSUME PlannerTyped, RoomKept, PlanSite, NEW b \in Blocks
               PROVE  Load(Bookings(LookedAt', Starting'), b) <= site_cap
    BY DEF RoomKept, Bookings, Load, Units, Book
  <1> DEFINE L == LookedAt \ MovableRefs
             P == Bookings(L, Starting)
             S == Bookings(Placed, PlacedAt)
  <1>1. /\ LookedAt \in SUBSET Refs /\ L \in SUBSET LookedAt
        /\ \A r \in LookedAt : Dur[r] # None /\ Starting[r] \in Int
    BY LookedAtIs
  <1>2. Bookables(P) /\ Bookables(S) /\ Bookables(Bookings(LookedAt, Starting))
    BY <1>1, LookedAtIs, PlacedIs, BookingsOk
  <1>3. Load(P, b) <= site_cap
    <2>1. Load(P, b) <= Load(Bookings(LookedAt, Starting), b)
      <3> HIDE DEF L
      <3>. QED BY <1>1, FewerBooked
    <2>2. Load(P, b) \in Nat /\ Load(Bookings(LookedAt, Starting), b) \in Nat
      <3> HIDE DEF P
      <3>. QED BY <1>2, LoadFinite
    <2>3. Load(Bookings(LookedAt, Starting), b) <= site_cap BY DEF RoomKept
    <2> HIDE DEF P
    <2>. QED BY <2>1, <2>2, <2>3, CapIs
  <1>4. \A k \in S : k.job \in Placed /\ k = Book(k.job, PlacedAt[k.job]) BY DEF Bookings, Book
  <1>5. \A k \in S : k.job \in Int
    <2>1. Placed \subseteq Refs BY PlacedIs
    <2>2. Refs \subseteq Nat BY PlannerAssumption
    <2> SUFFICES ASSUME NEW k \in S PROVE k.job \in Int OBVIOUS
    <2>3. k.job \in Placed BY <1>4
    <2>4. k.job \in Nat BY <2>1, <2>2, <2>3, Zenon
    <2>. QED BY <2>4
  <1>6. \A k, i \in S : k.job = i.job => k = i BY <1>4
  <1>7. P \subseteq Held
    <2> SUFFICES ASSUME NEW r \in L PROVE Book(r, Starting[r]) \in Held BY DEF Bookings
    <2>1. r \in LookedAt /\ r \in Refs /\ Dur[r] # None /\ r \in ShiftedRuns \cup PinnedRefs BY <1>1 DEF LookedAt
    <2>2. CASE r \in ShiftedRuns BY <2>1, <2>2 DEF Held, Starting, StartAt
    <2>3. CASE r \notin ShiftedRuns /\ r \in PinnedRefs BY <2>1, <2>3 DEF Held, Starting, StartAt
    <2>. QED BY <2>1, <2>2, <2>3
  <1>8. Bookables(Held)
    <2> DEFINE Runs == {r \in ShiftedRuns : Dur[r] # None}
               Pins == {r \in PinnedRefs : Dur[r] # None}
               at == [r \in Refs |-> actual[r]]
               in == [r \in Refs |-> cjob[r].applied]
    <2>1. Held = Bookings(Runs, at) \cup Bookings(Pins, in) BY MovableFacts DEF Held, Bookings
    <2>2. Runs \in SUBSET Refs /\ \A r \in Runs : Dur[r] # None /\ at[r] \in Int
      BY MovableFacts DEF ShiftedRuns, PlannerTyped, MaybeTime
    <2>3. Pins \in SUBSET Refs /\ \A r \in Pins : Dur[r] # None /\ in[r] \in Int
      BY MovableFacts, RowFacts DEF PinnedRefs, Pinned, MaybeTime
    <2>4. Bookables(Bookings(Runs, at)) /\ Bookables(Bookings(Pins, in))
      <3> HIDE DEF Runs, Pins, at, in
      <3>. QED BY <2>2, <2>3, BookingsOk
    <2>. QED BY <2>1, <2>4, FS_Union DEF Bookables
  <1>9. ASSUME NEW k \in S, b \in Spans(k.win, k.dur)
        PROVE  Load(P \cup {i \in S : i.job < k.job}, b) + MinutesIn(b, k.win, k.dur) * k.weight <= site_cap
    <2> DEFINE r == k.job
               earlier == {i \in S : i.job < r}
               beside == Beside(r, PlanOf)
    <2>1. r \in Placed /\ r \in Windowed /\ r \in Refs /\ Dur[r] # None BY <1>4, PlacedIs DEF Placed
    <2>2. k.win = StartIn(r, PlanOf) /\ k.dur = Dur[r] /\ k.weight = Gpus[r] /\ StartIn(r, PlanOf) # None
          /\ StartIn(r, PlanOf) \in Int
      BY <1>4, <2>1, PlacedIs DEF Book
    <2>3. Load(beside, b) + MinutesIn(b, k.win, k.dur) * k.weight <= site_cap
      <3>1. \A c \in Spans(StartIn(r, PlanOf), Dur[r]) :
               Load(beside, c) + MinutesIn(c, StartIn(r, PlanOf), Dur[r]) * Gpus[r] <= site_cap
        BY <2>1, <2>2, StartOfIs DEF StartIn
      <3> HIDE DEF r, beside
      <3>. QED BY <1>9, <2>2, <3>1
    <2>4. P \cup earlier \subseteq beside
      <3>1. \A i \in earlier : i.job \in Before(r, PlanOf) /\ i = Book(i.job, PlanOf[i.job].book)
        BY <1>4, PlacedIs DEF Before, Placed, PlacedAt
      <3>. QED BY <1>7, <3>1 DEF Beside
    <2>5. Bookables(P \cup earlier)
      <3>1. IsFiniteSet(P \cup S) BY <1>2, FS_Union DEF Bookables
      <3>2. P \cup earlier \subseteq P \cup S OBVIOUS
      <3>. QED BY <1>2, <3>1, <3>2, FS_Subset DEF Bookables
    <2>6. Bookables(beside)
      <3> DEFINE at == [i \in Before(r, PlanOf) |-> PlanOf[i].book]
      <3>1. Before(r, PlanOf) \in SUBSET Refs /\ \A i \in Before(r, PlanOf) : Dur[i] # None /\ at[i] \in Int
        <4> SUFFICES ASSUME NEW i \in Before(r, PlanOf) PROVE i \in Refs /\ Dur[i] # None /\ PlanOf[i].book \in Int OBVIOUS
        <4>1. i \in Windowed /\ i \in MovableRefs /\ i \in Refs /\ Dur[i] # None /\ PlanOf[i].book # None
          BY MovableFacts DEF Before
        <4>2. PlanOf[i] = Turn(i, PlanOf) BY <4>1, PlanIs DEF Entry
        <4>3. PlanOf[i].book \in MaybeTime BY <4>1, <4>2, TurnTyped DEF PlanRec
        <4>. QED BY <4>1, <4>3 DEF MaybeTime
      <3>2. beside = Held \cup Bookings(Before(r, PlanOf), at) BY DEF Beside, Bookings
      <3>3. Bookables(Bookings(Before(r, PlanOf), at))
        <4> HIDE DEF r, at
        <4>. QED BY <3>1, BookingsOk
      <3>. QED BY <1>8, <3>2, <3>3, FS_Union DEF Bookables
    <2>7. Load(P \cup earlier, b) <= Load(beside, b)
      <3> HIDE DEF P, earlier, beside
      <3>. QED BY <2>4, <2>5, <2>6, LoadWithin
    <2>8. Load(P \cup earlier, b) \in Nat /\ Load(beside, b) \in Nat
      <3> HIDE DEF P, earlier, beside
      <3>. QED BY <2>5, <2>6, LoadFinite
    <2>9. MinutesIn(b, k.win, k.dur) * k.weight \in Int
      <3>1. k.win \in Int /\ k.dur \in Nat /\ k.weight \in Nat /\ b \in Int BY <2>1, <2>2, SizesOf, BlockIs
      <3>2. MinutesIn(b, k.win, k.dur) \in Int BY <3>1, AllocatorAssumption DEF MinutesIn, Earliest, Latest
      <3>. QED BY <3>1, <3>2
    <2> DEFINE more == MinutesIn(b, k.win, k.dur) * k.weight
    <2> HIDE DEF more, P, earlier, beside
    <2>10. Load(P \cup earlier, b) + more <= site_cap BY <2>3, <2>7, <2>8, <2>9, CapIs DEF more
    <2>. QED BY <2>10 DEF more, earlier
  <1>10. Load(P \cup S, b) <= site_cap
    <2> HIDE DEF P, S
    <2>. QED BY <1>2, <1>3, <1>5, <1>6, <1>9, CapIs, LastBooked
  <1>11. Bookings(LookedAt', Starting') \subseteq P \cup S
    <2> SUFFICES ASSUME NEW r \in LookedAt' PROVE Book(r, Starting'[r]) \in P \cup S BY DEF Bookings
    <2>1. r \in Refs BY DEF LookedAt, Known
    <2>2. Starting'[r] = StartAt(r)' BY <2>1 DEF Starting
    <2>3. CASE r \in LookedAt \ MovableRefs /\ StartAt(r)' = StartAt(r) BY <2>1, <2>2, <2>3 DEF Bookings, Starting
    <2>4. CASE r \in Placed /\ StartAt(r)' = PlanOf[r].book BY <2>1, <2>2, <2>4 DEF Bookings, PlacedAt
    <2>. QED BY <2>3, <2>4, LookedAtAfter
  <1>12. Load(Bookings(LookedAt', Starting'), b) <= Load(P \cup S, b)
         /\ Load(Bookings(LookedAt', Starting'), b) \in Nat /\ Load(P \cup S, b) \in Nat
    <2> HIDE DEF P, S
    <2>1. Bookables(P \cup S) BY <1>2, FS_Union DEF Bookables
    <2>2. Bookables(Bookings(LookedAt', Starting')) BY <1>11, <2>1, FS_Subset DEF Bookables
    <2>. QED BY <1>11, <2>1, <2>2, LoadWithin, LoadFinite
  <1> HIDE DEF P, S
  <1>. QED BY <1>10, <1>12, CapIs

LEMMA RoomInit == PlannerInit => RoomKept
  <1> SUFFICES ASSUME PlannerInit, NEW b \in Blocks PROVE Load(Bookings(LookedAt, Starting), b) <= site_cap BY DEF RoomKept
  <1>1. Known = {} BY DEF PlannerInit, CloudInit, Nothing, Known
  <1>2. Bookings(LookedAt, Starting) = {} BY <1>1 DEF LookedAt, Bookings
  <1>3. Load({}, b) = 0
    <2>1. UNION {Units(k, b) : k \in {}} = {} OBVIOUS
    <2>. QED BY <2>1, FS_EmptySet DEF Load
  <1>4. 0 <= site_cap BY PlannerAssumption, AllocatorAssumption DEF site_cap, Earliest
  <1>. QED BY <1>2, <1>3, <1>4

(* Where the promised work is beyond the cap, some of it was not placed by a look at what was left. *)
LEMMA RoomIsCapacity == PlannerTyped /\ RoomKept => CapacityKept
  <1> DEFINE excused(k) == k.job \in loose \/ cjob[k.job].applied \notin {None, cjob[k.job].planned}
  <1> SUFFICES ASSUME PlannerTyped, RoomKept, NEW b \in Blocks, Load(Promised, b) > site_cap,
                      \A k \in Promised : b \in Spans(k.win, k.dur) => ~excused(k)
               PROVE  FALSE
    BY DEF CapacityKept
  <1> DEFINE R == {r \in Known : /\ Dur[r] # None /\ StartAt(r) # None
                                 /\ r \in ShiftedRuns \cup PinnedRefs \/ cjob[r].status = "planned"
                                 /\ r \in ShiftedRuns \cup Waiting}
  <1>1. Promised = Bookings(R, Starting) BY DEF Promised, Bookings, Starting, Known
  <1>2. R \in SUBSET Refs /\ \A r \in R : Dur[r] # None /\ Starting[r] \in Int
    <2> SUFFICES ASSUME NEW r \in R PROVE r \in Refs /\ Dur[r] # None /\ StartAt(r) \in Int BY DEF Starting, Known
    <2>1. r \in Known /\ r \in Refs /\ StartAt(r) # None /\ Dur[r] # None BY DEF Known
    <2>2. cjob[r].planned \in MaybeTime /\ cjob[r].applied \in MaybeTime /\ actual[r] \in MaybeTime
      BY <2>1, RowFacts DEF PlannerTyped
    <2>. QED BY <2>1, <2>2 DEF StartAt, MaybeTime
  <1>3. Bookables(Promised) /\ Bookables(Bookings(LookedAt, Starting))
    <2> HIDE DEF R
    <2>. QED BY <1>1, <1>2, LookedAtIs, BookingsOk
  <1>4. ASSUME NEW r \in R, b \in Spans(Starting[r], Dur[r]) PROVE r \in LookedAt
    <2>1. r \in Known /\ Dur[r] # None /\ StartAt(r) # None /\ r \in Refs BY DEF Known
    <2>2. Book(r, Starting[r]) \in Promised BY <1>1 DEF Bookings
    <2>3. r \notin loose /\ cjob[r].applied \in {None, cjob[r].planned} BY <1>4, <2>2 DEF Book
    <2>4. CASE r \in ShiftedRuns BY <2>1, <2>3, <2>4 DEF LookedAt, ShiftedRuns
    <2>5. CASE r \in PinnedRefs BY <2>1, <2>3, <2>5 DEF LookedAt, PinnedRefs, Pinned
    <2>6. CASE r \notin ShiftedRuns /\ r \notin PinnedRefs
      <3>1. r \in MovableRefs /\ cjob[r].status = "planned" BY <2>6 DEF MovableRefs
      <3>2. cjob[r].planned # None BY <2>1, <2>6 DEF StartAt
      <3>. QED BY <2>1, <2>3, <3>1, <3>2 DEF LookedAt
    <2>. QED BY <2>4, <2>5, <2>6
  <1>5. \A k \in Promised : b \in Spans(k.win, k.dur) => k \in Bookings(LookedAt, Starting)
    <2> HIDE DEF R
    <2>. QED BY <1>1, <1>4 DEF Bookings, Book
  <1>6. Load(Promised, b) <= Load(Bookings(LookedAt, Starting), b) BY <1>3, <1>5, LoadWithin
  <1>7. Load(Promised, b) \in Nat /\ Load(Bookings(LookedAt, Starting), b) \in Nat BY <1>3, LoadFinite
  <1>8. Load(Bookings(LookedAt, Starting), b) <= site_cap BY DEF RoomKept
  <1>. QED BY <1>6, <1>7, <1>8, CapIs

(* The shifted work in a block is within the share and the power limit, but for jobs that were not placed by *)
(* a look at what is left: through reports, refusals, starts, ends, other prices and re-plans in any order.  *)
THEOREM CapacityIsKept == PlannerSpec => []CapacityKept
  <1> DEFINE Inv == PlannerTyped /\ PlansRight /\ RoomKept
  <1>1. PlannerInit => Inv BY RightInit, RoomInit
  <1>2. Inv /\ [PlannerNext]_planVars => Inv'
    <2>1. CASE PlannerNext BY <2>1, TypedStep, RightStep, RoomStep, RoomPlanned
    <2>2. CASE UNCHANGED planVars
      <3>1. Inv => PlannerTyped' /\ PlansRight' BY <2>2 DEF planVars, PlannerTyped, PlansRight, Known
      <3>2. ASSUME Inv, NEW r \in LookedAt' PROVE r \in LookedAt /\ StartAt(r)' = StartAt(r)
        <4>1. r \in Refs BY <3>2 DEF LookedAt, Known
        <4>. QED BY <2>2, <3>2, <4>1, RowUnmoved DEF planVars
      <3>. QED BY <3>1, <3>2, RoomStays
    <2>. QED BY <2>1, <2>2
  <1>3. Inv => CapacityKept BY RoomIsCapacity
  <1> HIDE DEF Inv
  <1>. QED BY <1>1, <1>2, <1>3, PTL DEF PlannerSpec

-----------------------------------------------------------------------------
(* An unchanged world is planned as before *)

(* The rows are those of a plan for the rows as they are. *)
PlannedAs(f) ==
    /\ \A r \in Refs : f[r] = Entry(r, f)
    /\ \A r \in MovableRefs : cjob[r].status = f[r].status /\ cjob[r].planned = f[r].planned

FreshPlan == fresh => \E f \in Plans : PlannedAs(f)

(* What a turn looks at is not what the plan writes, but for the row itself. *)
LEMMA SameStart ==
    ASSUME PlannerTyped, PlanSite, NEW r \in MovableRefs, NEW f
    PROVE  StartIn(r, f)' = StartIn(r, f)
  <1>1. /\ \A i \in Refs : BaseOf(i)' = BaseOf(i) /\ (i \in Known => cjob'[i].applied = cjob[i].applied)
        /\ ShiftedRuns' = ShiftedRuns /\ PinnedRefs' = PinnedRefs /\ Windowed' = Windowed
        /\ now' = now /\ price' = price /\ actual' = actual
    BY PlanKeepsRoles
  <1>2. Held' = Held
    <2>1. {Book(i, actual[i]) : i \in {i \in ShiftedRuns : Dur[i] # None}}'
           = {Book(i, actual[i]) : i \in {i \in ShiftedRuns : Dur[i] # None}}
      BY <1>1 DEF Book
    <2>2. {Book(i, cjob[i].applied) : i \in {i \in PinnedRefs : Dur[i] # None}}'
           = {Book(i, cjob[i].applied) : i \in {i \in PinnedRefs : Dur[i] # None}}
      <3>1. \A i \in PinnedRefs : cjob'[i].applied = cjob[i].applied BY <1>1, MovableFacts
      <3>. QED BY <1>1, <3>1 DEF Book
    <2>. QED BY <2>1, <2>2 DEF Held
  <1>3. Beside(r, f)' = Beside(r, f) BY <1>1, <1>2 DEF Beside, Before, Book
  <1>4. \A i \in Refs : LatestStart(i)' = LatestStart(i) BY <1>1 DEF LatestStart
  <1>5. last_end' = last_end
    <2>1. {LatestStart(i) + Dur[i] : i \in Windowed}' = {LatestStart(i) + Dur[i] : i \in Windowed}
      BY <1>1, <1>4, MovableFacts
    <2> DEFINE ends == {LatestStart(i) + Dur[i] : i \in Windowed}
    <2>2. last_end = IF Windowed = {} THEN now ELSE Max(ends) BY DEF last_end
    <2>3. last_end' = IF Windowed' = {} THEN now' ELSE Max(ends') BY DEF last_end
    <2>4. ends' = ends BY <2>1
    <2> HIDE DEF ends
    <2>. QED BY <1>1, <2>2, <2>3, <2>4
  <1>6. r \in Refs BY MovableFacts
  <1>7. LatestStart(r)' = LatestStart(r) /\ Later(now, BaseOf(r))' = Later(now, BaseOf(r)) BY <1>1, <1>4, <1>6 DEF Later
  <1>8. StartIn(r, f)' = allocate(Offset[r], Dur[r], Later(now, BaseOf(r))', LatestStart(r)' + Dur[r],
                                   PricesIn(price', now', last_end'), [b \in Blocks |-> Load(Beside(r, f)', b)], site_cap, Gpus[r])
    BY DEF StartIn, StartOf
  <1>9. StartIn(r, f) = allocate(Offset[r], Dur[r], Later(now, BaseOf(r)), LatestStart(r) + Dur[r],
                                 PricesIn(price, now, last_end), [b \in Blocks |-> Load(Beside(r, f), b)], site_cap, Gpus[r])
    BY DEF StartIn, StartOf
  <1>. QED BY <1>1, <1>3, <1>5, <1>7, <1>8, <1>9

LEMMA FreshStep == PlannerTyped /\ PlannerNext => FreshPlan'
  <1> SUFFICES ASSUME PlannerTyped, PlannerNext, fresh' PROVE \E f \in Plans : PlannedAs(f)' BY DEF FreshPlan
  <1>1. PlanSite BY DEF PlannerNext, Fetch, PlannerTick, Arrive, ReportOutcome, RunStarts, RunFinishes, Stale
  <1>2. PICK f \in Plans : f = PlanOf BY PlanIs
  <1>3. MovableRefs' = MovableRefs /\ Windowed' = Windowed BY <1>1, PlanKeepsRoles
  <1>4. ASSUME NEW r \in MovableRefs
        PROVE  cjob'[r].status = f[r].status /\ cjob'[r].planned = f[r].planned /\ f[r] = Turn(r, f) /\ Turn(r, f)' = Turn(r, f)
    <2>1. r \in Refs /\ r \in Known /\ cjob[r] \in CJob BY MovableFacts, RowFacts
    <2>2. f[r] = Turn(r, f) /\ cjob'[r] = [cjob[r] EXCEPT !.status = f[r].status, !.planned = f[r].planned]
      BY <1>1, <1>2, <2>1, PlanRows
    <2>3. cjob'[r].status = f[r].status /\ cjob'[r].planned = f[r].planned /\ cjob'[r].applied = cjob[r].applied
      BY <2>1, <2>2 DEF CJob
    <2>4. StartIn(r, f)' = StartIn(r, f) /\ BaseOf(r)' = BaseOf(r) /\ now' = now
      BY <1>1, <2>1, SameStart, PlanKeepsRoles
    <2> DEFINE start == StartIn(r, f)
               back == IF cjob[r].applied # None THEN Later(now, BaseOf(r)) ELSE None
               Result(windowed, s, status, planned, cheaper, b) ==
                   IF ~windowed \/ (s = None /\ ~(status = "planned" /\ planned # None))
                   THEN [status |-> "unplaceable", planned |-> planned, book |-> None, loose |-> FALSE]
                   ELSE IF s = None THEN [status |-> "planned", planned |-> planned, book |-> planned, loose |-> TRUE]
                   ELSE IF cheaper THEN [status |-> "planned", planned |-> s, book |-> s, loose |-> FALSE]
                   ELSE [status |-> "planned", planned |-> b, book |-> b, loose |-> TRUE]
               cheaper == Bill(r, start) < Bill(r, BaseOf(r))
    <2>5. Turn(r, f) = Result(r \in Windowed, start, cjob[r].status, cjob[r].planned, cheaper, back)
      BY DEF Turn, StartIn, Beside, Before
    <2>6. Turn(r, f)' = Result(r \in Windowed', start', cjob'[r].status, cjob'[r].planned, cheaper', back')
      BY DEF Turn, StartIn, Beside, Before
    <2>7. start' = start /\ back' = back BY <2>3, <2>4 DEF Later
    <2>8. cheaper' = cheaper BY <2>4 DEF Bill
    <2> HIDE DEF start, back, cheaper
    <2>9. Turn(r, f)' = Turn(r, f)
      <3> DEFINE unplaceable == [status |-> "unplaceable", planned |-> cjob[r].planned, book |-> None, loose |-> FALSE]
                 kept == [status |-> "planned", planned |-> cjob[r].planned, book |-> cjob[r].planned, loose |-> TRUE]
      <3>1. Turn(r, f)' = Result(r \in Windowed, start, f[r].status, f[r].planned, cheaper, back)
        BY <1>3, <2>3, <2>6, <2>7, <2>8
      <3>2. CASE r \notin Windowed \/ (start = None /\ ~(cjob[r].status = "planned" /\ cjob[r].planned # None))
        <4>1. Turn(r, f) = unplaceable BY <2>5, <3>2
        <4>2. f[r].status = "unplaceable" /\ f[r].planned = cjob[r].planned BY <2>2, <4>1
        <4>. QED BY <3>1, <3>2, <4>1, <4>2
      <3>3. CASE r \in Windowed /\ start = None /\ cjob[r].status = "planned" /\ cjob[r].planned # None
        <4>1. Turn(r, f) = kept BY <2>5, <3>3
        <4>2. f[r].status = "planned" /\ f[r].planned = cjob[r].planned BY <2>2, <4>1
        <4>. QED BY <3>1, <3>3, <4>1, <4>2
      <3>4. CASE r \in Windowed /\ start # None BY <2>5, <3>1, <3>4
      <3>. QED BY <3>2, <3>3, <3>4
    <2>. QED BY <2>2, <2>3, <2>9
  <1>5. \A r \in Refs : f[r] = Entry(r, f) BY <1>2, PlanIs
  <1>6. \A r \in Refs : f[r] = Entry(r, f)' BY <1>3, <1>4, <1>5 DEF Entry
  <1>7. PlannedAs(f)' BY <1>3, <1>4, <1>6 DEF PlannedAs
  <1>. QED BY <1>2, <1>7

LEMMA FreshIsStable == PlannerTyped /\ FreshPlan => ReplanStable
  <1> SUFFICES ASSUME PlannerTyped, FreshPlan, fresh PROVE plan_site = cjob BY DEF ReplanStable
  <1>1. PICK f \in Plans : PlannedAs(f) BY DEF FreshPlan
  <1>2. f = PlanOf BY <1>1, PlanOnly DEF PlannedAs
  <1>3. ASSUME NEW r \in Refs PROVE Row(r) = cjob[r]
    <2>1. CASE r \notin MovableRefs BY <2>1 DEF Row
    <2>2. CASE r \in MovableRefs
      <3>1. cjob[r] \in CJob BY <2>2, MovableFacts, RowFacts
      <3>2. Row(r) = [cjob[r] EXCEPT !.status = cjob[r].status, !.planned = cjob[r].planned]
        BY <1>1, <1>2, <2>2 DEF Row, PlannedAs
      <3>. QED BY <3>1, <3>2 DEF CJob
    <2>. QED BY <2>1, <2>2
  <1>4. cjob = [r \in Refs |-> cjob[r]] BY DEF PlannerTyped
  <1>. QED BY <1>3, <1>4 DEF plan_site

(* A site that nothing has happened to since its last plan is planned exactly as before, whatever the number *)
(* of jobs, their order, and the prices, the bill and the capacity that the plan weighs.                     *)
THEOREM ReplanIsStable == PlannerSpec => []ReplanStable
  <1> DEFINE Inv == PlannerTyped /\ FreshPlan
  <1>1. PlannerInit => Inv BY RightInit DEF PlannerInit, FreshPlan
  <1>2. Inv /\ [PlannerNext]_planVars => Inv'
    <2>1. CASE PlannerNext BY <2>1, TypedStep, FreshStep
    <2>2. CASE UNCHANGED planVars
      <3>1. Inv => PlannerTyped' BY <2>2 DEF planVars, PlannerTyped
      <3>2. ASSUME Inv, fresh' PROVE \E f \in Plans : PlannedAs(f)'
        <4>1. PICK f \in Plans : PlannedAs(f) BY <2>2, <3>2 DEF planVars, FreshPlan
        <4>2. MovableRefs' = MovableRefs /\ \A r \in Refs : Entry(r, f)' = Entry(r, f)
          <5>1. now' = now /\ cjob' = cjob /\ actual' = actual /\ price' = price BY <2>2 DEF planVars
          <5>2. /\ MovableRefs' = MovableRefs /\ Windowed' = Windowed /\ PinnedRefs' = PinnedRefs /\ ShiftedRuns' = ShiftedRuns
                /\ Held' = Held
            BY <5>1 DEF MovableRefs, Windowed, Waiting, Known, PinnedRefs, Pinned, ShiftedRuns, Held, Book
          <5>3. \A r \in Refs : BaseOf(r)' = BaseOf(r) /\ LatestStart(r)' = LatestStart(r) BY <5>1 DEF LatestStart, BaseOf, Base
          <5>4. last_end' = last_end BY <5>1 DEF last_end, Windowed, MovableRefs, Waiting, Known, PinnedRefs, Pinned, LatestStart, BaseOf, Base
          <5>5. \A r \in Refs : Turn(r, f)' = Turn(r, f)
            BY <5>1, <5>2, <5>3, <5>4 DEF Turn, StartOf, Bill, Book
          <5>. QED BY <5>2, <5>5 DEF Entry
        <4>. QED BY <2>2, <4>1, <4>2 DEF PlannedAs, planVars
      <3>. QED BY <3>1, <3>2 DEF FreshPlan
    <2>. QED BY <2>1, <2>2
  <1>3. Inv => ReplanStable BY FreshIsStable
  <1> HIDE DEF Inv
  <1>. QED BY <1>1, <1>2, <1>3, PTL DEF PlannerSpec

-----------------------------------------------------------------------------
(* Waiting for prices *)

(* Whatever has been published when a job asks, one that is told to wait can still be placed at the next re-plan. *)
THEOREM WaitingNeverTraps == PlannerSpec => []WaitIsSafe
  <1>1. WaitIsSafe
    <2> SUFFICES ASSUME <<price, now>> \in Traps PROVE FALSE BY DEF WaitIsSafe
    <2>1. PICK w \in [rate : Published, at : 0 .. MaxNow, deadline : Minute, dur : 1 .. Horizon, jitter : 0 .. BLOCK_MIN - 1] :
             Contiguous(w.rate) /\ ~WaitSafe(w.rate, w.jitter, w.dur, w.deadline, w.at)
      BY DEF Traps
    <2>2. DOMAIN w.rate \subseteq Blocks /\ w.at \in Int /\ w.deadline \in Int /\ w.dur \in Nat \ {0}
          /\ w.jitter \in 0 .. BLOCK_MIN - 1
      BY PlannerAssumption, AllocatorAssumption DEF Minute
    <2>. QED BY <2>1, <2>2, WaitingIsSafe
  <1>. QED BY <1>1, PTL
=============================================================================
