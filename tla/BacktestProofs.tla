---------------------------- MODULE BacktestProofs ----------------------------
(***************************************************************************)
(* Proofs about the backtest reports, for any file, prices, assumptions,   *)
(* and number of reports: what a report says can be relied on, a report    *)
(* that is done is whole, it never goes back, and the table is bounded.    *)
(***************************************************************************)
EXTENDS BacktestRuns, AllocatorProofs

-----------------------------------------------------------------------------
(* A replay *)

MaybeStart == Int \cup {NoStart}

(* What the replay reads of a job; a retimed one may have been submitted at any time. *)
Replayable(trace) ==
    \E n \in Nat : /\ DOMAIN trace = 1 .. n /\ Len(trace) = n
                   /\ \A i \in 1 .. n : /\ trace[i].submit \in Int /\ trace[i].jitter \in 0 .. BLOCK_MIN - 1
                                        /\ trace[i].dur \in Nat \ {0} /\ trace[i].gpus \in Nat \ {0}

Replays(trace) == [DOMAIN trace -> MaybeStart]
WindowFrom(trace, a) == [i \in DOMAIN trace |-> [starts \in Replays(trace) |-> WindowOf(trace, a, starts, i)]]

(* One booking for every job that the replay moved. *)
MovedBooking(trace, starts, i) == [job |-> i, win |-> starts[i], dur |-> trace[i].dur, weight |-> trace[i].gpus]

LEMMA RatesAre == DOMAIN Rates = DOMAIN PRICES /\ \A b \in DOMAIN Rates : Rates[b] \in Int
  <1>1. \A b \in DOMAIN PRICES : PRICES[b] \in Int /\ TOD_SEED[b] \in Int BY BacktestAssumption
  <1>2. \A b \in DOMAIN PRICES : PRICES[b] * TOD_SEED[b] \in Int BY <1>1
  <1>. QED BY <1>2 DEF Rates

LEMMA IsBlock ==
    ASSUME NEW q \in Int, 0 <= BLOCK_MIN * q, BLOCK_MIN * q <= Horizon
    PROVE  BLOCK_MIN * q \in Blocks
  <1> DEFINE b == BLOCK_MIN * q
  <1>1. b \in Int BY AllocatorAssumption
  <1>2. floor_block(b) = b
    <2>1. \A r \in 0 .. BLOCK_MIN - 1 : floor_block(b + r) = b BY IsFloor
    <2>2. 0 \in 0 .. BLOCK_MIN - 1 BY AllocatorAssumption
    <2> HIDE DEF b
    <2>3. \A r \in 0 .. BLOCK_MIN - 1 : r = 0 => b + r = b BY <1>1, AllocatorAssumption
    <2>. QED BY <2>1, <2>2, <2>3
  <1> HIDE DEF b
  <1>3. b \in Minute /\ floor_block(b) = b BY <1>1, <1>2, AllocatorAssumption DEF b, Minute
  <1>. QED BY <1>3 DEF Blocks, b

(* A start whose blocks all have a price is priced to its last minute: the block after the last price is a block. *)
LEMMA PricedToTheEnd ==
    ASSUME NEW jitter \in 0 .. BLOCK_MIN - 1, NEW b \in DOMAIN PRICES, NEW dur \in Nat \ {0}, NEW s, s = b + jitter,
           Spans(s, dur) \subseteq DOMAIN PRICES, NEW t \in s .. s + dur - 1
    PROVE  floor_block(t) \in DOMAIN PRICES
  <1> DEFINE last == Max(DOMAIN PRICES)
             q == t \div BLOCK_MIN
             c == BLOCK_MIN * q
  <1>1. DOMAIN PRICES \in SUBSET Blocks /\ b \in Blocks BY BacktestAssumption
  <1>2. b \in Int /\ 0 <= b /\ s \in Int /\ s < b + BLOCK_MIN /\ 0 <= s BY <1>1, BlockIs, AllocatorAssumption
  <1>3. t \in Int /\ s <= t /\ t < s + dur /\ 0 <= t BY <1>2
  <1>4. c \in Int /\ q \in Int /\ c <= t /\ t < c + BLOCK_MIN /\ floor_block(t) = c BY <1>3, BlockNumber
  <1>5. last \in DOMAIN PRICES /\ \A x \in DOMAIN PRICES : x <= last
    <2>1. DOMAIN PRICES \in SUBSET Int BY <1>1, BlockIs
    <2>2. IsFiniteSet(DOMAIN PRICES) BY <1>1, BlocksFinite, FS_Subset
    <2>3. DOMAIN PRICES # {} BY BacktestAssumption
    <2>. QED BY <2>1, <2>2, <2>3, MaxIs
  <1>6. last + BLOCK_MIN <= Horizon BY BacktestAssumption
  <1>7. last \in Int /\ 0 <= last /\ \E p \in Int : last = BLOCK_MIN * p BY <1>1, <1>5, BlockIs
  <1> HIDE DEF last, q
  <1>8. 0 <= c
    <2>1. BLOCK_MIN * 0 < c + BLOCK_MIN /\ BLOCK_MIN * 0 = 0 BY <1>3, <1>4, AllocatorAssumption
    <2>2. BLOCK_MIN * 0 <= c BY <1>4, <2>1, MultiplesApart
    <2>. QED BY <2>1, <2>2
  <1>9. CASE c <= Horizon
    <2>1. c \in Blocks BY <1>4, <1>8, <1>9, IsBlock
    <2> HIDE DEF c
    <2>2. c < s + dur /\ s < c + BLOCK_MIN BY <1>2, <1>3, <1>4, AllocatorAssumption
    <2>3. c \in Spans(s, dur) BY <2>1, <2>2 DEF Spans
    <2>. QED BY <1>4, <2>3
  <1>10. CASE c > Horizon
    <2> DEFINE next == last + BLOCK_MIN
    <2>1. PICK p \in Int : last = BLOCK_MIN * p BY <1>7
    <2>2. next = BLOCK_MIN * (p + 1) /\ 0 <= next /\ next \in Int BY <1>7, <2>1, AllocatorAssumption
    <2>3. next \in Blocks BY <1>6, <2>2, IsBlock
    <2>4. next < s + dur /\ s < next + BLOCK_MIN
      <3>1. b <= last /\ next <= Horizon /\ Horizon \in Int /\ BLOCK_MIN \in Nat BY <1>5, <1>6, AllocatorAssumption
      <3> HIDE DEF c, next
      <3>2. next < s + dur BY <1>2, <1>3, <1>4, <1>10, <2>2, <3>1
      <3>3. s < next + BLOCK_MIN BY <1>2, <1>7, <2>2, <3>1 DEF next
      <3>. QED BY <3>2, <3>3
    <2>5. next \in Spans(s, dur)
      <3> HIDE DEF next
      <3>. QED BY <2>3, <2>4 DEF Spans
    <2>6. next <= last BY <1>5, <2>5
    <2>. QED BY <1>7, <2>6, AllocatorAssumption
  <1>. QED BY <1>4, <1>9, <1>10, AllocatorAssumption

(* A window that is found lies in the slack of a job that may wait, and has room beside what is booked. *)
LEMMA WindowIs ==
    ASSUME NEW trace, Replayable(trace), NEW a, a.slack \in Nat, NEW starts, NEW i \in DOMAIN trace,
           WindowOf(trace, a, starts, i) # NoStart
    PROVE  /\ WindowOf(trace, a, starts, i) \in Int /\ PlacedWell(trace[i], a, WindowOf(trace, a, starts, i))
           /\ \A b \in Spans(WindowOf(trace, a, starts, i), trace[i].dur) :
                 Load(Booked(trace, starts, i), b) + MinutesIn(b, WindowOf(trace, a, starts, i), trace[i].dur) * trace[i].gpus
                    <= SHARE_GPUS * BLOCK_MIN
  <1> DEFINE job == trace[i]
             s == WindowOf(trace, a, starts, i)
             deadline == job.submit + job.dur + a.slack
             prices == PricesIn(Rates, job.submit, deadline)
             ledger == [b \in Blocks |-> Load(Booked(trace, starts, i), b)]
             cap == SHARE_GPUS * BLOCK_MIN
  <1>1. flexible(job, a) /\ s = allocate(job.jitter, job.dur, job.submit, deadline, prices, ledger, cap, job.gpus)
    BY DEF WindowOf
  <1>2. s \in Starts(job.jitter, job.dur, job.submit, deadline, prices, ledger, cap, job.gpus)
    <2> HIDE DEF job, deadline, prices, ledger, cap
    <2>. QED BY <1>1, AllocateIn
  <1>3. job.submit \in Int /\ job.dur \in Nat \ {0} /\ job.jitter \in 0 .. BLOCK_MIN - 1 BY DEF Replayable
  <1> HIDE DEF s, job, prices, ledger, cap
  <1>4. /\ \E b \in DOMAIN prices : s = b + job.jitter
        /\ job.submit <= s /\ s + job.dur <= deadline /\ Spans(s, job.dur) \subseteq DOMAIN prices
        /\ \A b \in Spans(s, job.dur) : ledger[b] + MinutesIn(b, s, job.dur) * job.gpus <= cap
    BY <1>2 DEF Starts
  <1>5. DOMAIN prices \subseteq DOMAIN PRICES /\ DOMAIN PRICES \subseteq Blocks
    BY RatesAre, BacktestAssumption DEF PricesIn, prices
  <1>6. s \in Int BY <1>3, <1>4, <1>5, BlockIs, AllocatorAssumption
  <1>7. s <= job.submit + a.slack BY <1>3, <1>4, <1>6
  <1>8. \A b \in Spans(s, job.dur) : ledger[b] = Load(Booked(trace, starts, i), b) BY DEF Spans, ledger
  <1>9. \A t \in s .. s + job.dur - 1 : floor_block(t) \in DOMAIN PRICES BY <1>3, <1>4, <1>5, PricedToTheEnd
  <1>10. PlacedWell(job, a, s) BY <1>1, <1>4, <1>7, <1>9 DEF PlacedWell
  <1>. QED BY <1>4, <1>6, <1>8, <1>10 DEF s, job, cap

(* A window depends on the jobs before only. *)
LEMMA WindowLooksBack ==
    ASSUME NEW trace, Replayable(trace), NEW a, NEW i \in DOMAIN trace, NEW f, NEW g,
           \A k \in DOMAIN trace : k < i => f[k] = g[k]
    PROVE  WindowOf(trace, a, f, i) = WindowOf(trace, a, g, i)
  <1>1. \A k \in 1 .. i - 1 : f[k] = g[k] BY DEF Replayable
  <1>2. {k \in 1 .. i - 1 : f[k] # NoStart} = {k \in 1 .. i - 1 : g[k] # NoStart} BY <1>1
  <1>3. Booked(trace, f, i) = Booked(trace, g, i) BY <1>1, <1>2 DEF Booked
  <1>. QED BY <1>3 DEF WindowOf

(* The replay gives every job the window that is best beside those before it. *)
LEMMA ReplayIs ==
    ASSUME NEW trace, Replayable(trace), NEW a, a.slack \in Nat
    PROVE  /\ Placements(trace, a) \in Replays(trace)
           /\ \A i \in DOMAIN trace : Placements(trace, a)[i] = WindowOf(trace, a, Placements(trace, a), i)
  <1> DEFINE F == WindowFrom(trace, a)
  <1>1. DOMAIN trace \in SUBSET Nat BY DEF Replayable
  <1>2. MaybeStart # {} BY DEF MaybeStart
  <1>3. Stepwise(DOMAIN trace, MaybeStart, F)
    <2>1. \A i \in DOMAIN trace, f \in Replays(trace) : F[i][f] = WindowOf(trace, a, f, i) BY DEF WindowFrom
    <2>2. ASSUME NEW i \in DOMAIN trace, NEW f \in Replays(trace) PROVE WindowOf(trace, a, f, i) \in MaybeStart
      BY WindowIs DEF MaybeStart
    <2>3. \A i \in DOMAIN trace, f, g \in Replays(trace) :
             (\A k \in DOMAIN trace : k < i => f[k] = g[k]) => WindowOf(trace, a, f, i) = WindowOf(trace, a, g, i)
      BY WindowLooksBack
    <2> HIDE DEF F
    <2>. QED BY <2>1, <2>2, <2>3 DEF Stepwise, Replays
  <1>4. PICK f \in [DOMAIN trace -> MaybeStart] : \A i \in DOMAIN trace : f[i] = F[i][f]
    <2> HIDE DEF F
    <2>. QED BY <1>1, <1>2, <1>3, ThereIsOne
  <1>5. \A i \in DOMAIN trace : f[i] = WindowOf(trace, a, f, i) BY <1>4 DEF WindowFrom, Replays
  <1> DEFINE IsReplay(s) == s = [i \in DOMAIN trace |-> WindowOf(trace, a, s, i)]
  <1>6. Placements(trace, a) = CHOOSE s : IsReplay(s) BY DEF Placements
  <1>7. f = [i \in DOMAIN trace |-> f[i]] OBVIOUS
  <1>8. IsReplay(f) BY <1>5, <1>7
  <1> HIDE DEF IsReplay
  <1>9. IsReplay(Placements(trace, a)) BY <1>6, <1>8
  <1>10. Placements(trace, a) = [i \in DOMAIN trace |-> WindowOf(trace, a, Placements(trace, a), i)] BY <1>9 DEF IsReplay
  <1> DEFINE s == Placements(trace, a)
  <1> HIDE DEF s
  <1>11. s = [i \in DOMAIN trace |-> WindowOf(trace, a, s, i)] BY <1>10 DEF s
  <1>12. \A i \in DOMAIN trace : WindowOf(trace, a, s, i) \in MaybeStart BY WindowIs DEF MaybeStart
  <1>13. s \in Replays(trace) BY <1>11, <1>12 DEF Replays
  <1>14. \A i \in DOMAIN trace : s[i] = WindowOf(trace, a, s, i) BY <1>11
  <1>. QED BY <1>13, <1>14 DEF s

-----------------------------------------------------------------------------
(* The totals *)

(* What a loop of n turns leaves behind exists. *)
LEMMA LoopExists ==
    ASSUME NEW n \in Nat, NEW S, NEW first \in S, NEW turn \in [1 .. n -> [S -> S]]
    PROVE  \E f \in [0 .. n -> S] : f[0] = first /\ \A k \in 1 .. n : f[k] = turn[k][f[k - 1]]
  <1> DEFINE R == 0 .. n
             F == [k \in R |-> [f \in [R -> S] |-> IF k = 0 THEN first ELSE turn[k][f[k - 1]]]]
  <1>1. R \in SUBSET Nat /\ S # {} OBVIOUS
  <1>2. Stepwise(R, S, F)
    <2>1. ASSUME NEW k \in R, NEW f \in [R -> S] PROVE F[k][f] \in S
      <3>1. CASE k = 0 BY <3>1
      <3>2. CASE k # 0
        <4>1. k \in 1 .. n /\ k - 1 \in R BY <3>2
        <4>2. f[k - 1] \in S BY <4>1
        <4>. QED BY <3>2, <4>1, <4>2
      <3>. QED BY <3>1, <3>2
    <2>2. ASSUME NEW k \in R, NEW f \in [R -> S], NEW g \in [R -> S], \A i \in R : i < k => f[i] = g[i]
          PROVE  F[k][f] = F[k][g]
      <3>1. CASE k = 0 BY <3>1
      <3>2. CASE k # 0
        <4>1. k - 1 \in R /\ k - 1 < k BY <3>2
        <4>2. f[k - 1] = g[k - 1] BY <2>2, <4>1
        <4>. QED BY <3>2, <4>2
      <3>. QED BY <3>1, <3>2
    <2> HIDE DEF R, F
    <2>. QED BY <2>1, <2>2 DEF Stepwise
  <1>3. PICK f \in [R -> S] : \A k \in R : f[k] = F[k][f]
    <2> HIDE DEF R, F
    <2>. QED BY <1>1, <1>2, ThereIsOne
  <1>4. f[0] = first BY <1>3
  <1>5. \A k \in 1 .. n : f[k] = turn[k][f[k - 1]] BY <1>3
  <1>. QED BY <1>4, <1>5

AllTotals == [n_eligible : Int, n_flexible : Int, n_placed : Int, n_unplaced : Int, baseline : Int, scheduled : Int]

LEMMA BillTyped ==
    ASSUME NEW job, job.dur \in Nat, job.gpus \in Nat, NEW start \in Int
    PROVE  bill_cost(job, start) \in Int
  <1>1. DOMAIN TOD_SEED = Blocks /\ \A b \in Blocks : TOD_SEED[b] \in Int BY BacktestAssumption
  <1>2. Spans(start, job.dur) \subseteq DOMAIN TOD_SEED BY <1>1 DEF Spans
  <1>3. Cost(TOD_SEED, start, job.dur) \in Int BY <1>1, <1>2, CostTyped
  <1>. QED BY <1>3 DEF bill_cost

LEMMA TotalledTyped ==
    ASSUME NEW r \in AllTotals, NEW job, job.dur \in Nat, job.gpus \in Nat, job.submit \in Int, NEW a,
           NEW start \in MaybeStart
    PROVE  Totalled(r, job, a, start) \in AllTotals
  <1>1. \A yes \in BOOLEAN : Count(yes) \in Int BY DEF Count
  <1>2. /\ Count(eligible(job)) \in Int /\ Count(flexible(job, a)) \in Int
        /\ Count(flexible(job, a) /\ start # NoStart) \in Int /\ Count(flexible(job, a) /\ start = NoStart) \in Int
    BY DEF Count
  <1>3. bill_cost(job, job.submit) \in Int BY BillTyped
  <1>4. bill_cost(job, IF start = NoStart THEN job.submit ELSE start) \in Int BY BillTyped DEF MaybeStart
  <1>. QED BY <1>2, <1>3, <1>4 DEF Totalled, AllTotals

(* The two loops, turn by turn. *)
TotalsRight(trace, a, starts, T) ==
    T[0] = NoTotals /\ \A k \in 1 .. Len(trace) : T[k] = Totalled(T[k - 1], trace[k], a, starts[k])

Gained(job, start) == IF start = NoStart THEN 0 ELSE bill_cost(job, job.submit) - bill_cost(job, start)
GainRight(trace, starts, G) == G[0] = 0 /\ \A k \in 1 .. Len(trace) : G[k] = G[k - 1] + Gained(trace[k], starts[k])

LEMMA TotalsAre ==
    ASSUME NEW trace, Replayable(trace), NEW a, NEW starts \in Replays(trace)
    PROVE  \E T : TotalsRight(trace, a, starts, T) /\ TotalsOf(trace, a, starts) = T[Len(trace)]
  <1> DEFINE N == Len(trace)
             Is(T) == T = [n \in 0 .. N |-> IF n = 0 THEN NoTotals ELSE Totalled(T[n - 1], trace[n], a, starts[n])]
             T == CHOOSE g : Is(g)
             turn == [k \in 1 .. N |-> [r \in AllTotals |-> Totalled(r, trace[k], a, starts[k])]]
  <1>1. N \in Nat /\ DOMAIN trace = 1 .. N BY DEF Replayable
  <1>2. NoTotals \in AllTotals BY DEF NoTotals, AllTotals
  <1>3. turn \in [1 .. N -> [AllTotals -> AllTotals]]
    <2> SUFFICES ASSUME NEW k \in 1 .. N, NEW r \in AllTotals PROVE Totalled(r, trace[k], a, starts[k]) \in AllTotals
      OBVIOUS
    <2>1. trace[k].dur \in Nat /\ trace[k].gpus \in Nat /\ trace[k].submit \in Int BY <1>1 DEF Replayable
    <2>2. starts[k] \in MaybeStart BY <1>1 DEF Replays
    <2>. QED BY <2>1, <2>2, TotalledTyped
  <1>4. PICK f \in [0 .. N -> AllTotals] : f[0] = NoTotals /\ \A k \in 1 .. N : f[k] = turn[k][f[k - 1]]
    <2> DEFINE S == AllTotals
    <2>1. N \in Nat /\ NoTotals \in S /\ turn \in [1 .. N -> [S -> S]] BY <1>1, <1>2, <1>3
    <2> HIDE DEF N, turn, S
    <2>2. \E f \in [0 .. N -> S] : f[0] = NoTotals /\ \A k \in 1 .. N : f[k] = turn[k][f[k - 1]] BY <2>1, LoopExists, Z3
    <2>. QED BY <2>2 DEF S
  <1>5. Is(f)
    <2>1. ASSUME NEW k \in 1 .. N PROVE f[k] = Totalled(f[k - 1], trace[k], a, starts[k])
      <3>1. k - 1 \in 0 .. N BY <1>1
      <3>2. f[k - 1] \in AllTotals BY <3>1
      <3>. QED BY <1>4, <3>2
    <2>2. f = [k \in 0 .. N |-> f[k]] OBVIOUS
    <2>3. \A k \in 0 .. N : f[k] = IF k = 0 THEN NoTotals ELSE Totalled(f[k - 1], trace[k], a, starts[k])
      BY <1>1, <1>4, <2>1
    <2>. QED BY <2>2, <2>3
  <1>6. Is(T)
    <2> HIDE DEF Is
    <2>. QED BY <1>5
  <1>7. TotalsOf(trace, a, starts) = T[N] BY DEF TotalsOf
  <1> HIDE DEF T
  <1>8. TotalsRight(trace, a, starts, T) BY <1>1, <1>6 DEF TotalsRight
  <1>. QED BY <1>7, <1>8

LEMMA GainIs ==
    ASSUME NEW trace, Replayable(trace), NEW starts \in Replays(trace)
    PROVE  \E G : GainRight(trace, starts, G) /\ GainOf(trace, starts) = G[Len(trace)]
  <1> DEFINE N == Len(trace)
             Is(G) == G = [n \in 0 .. N |-> IF n = 0 THEN 0 ELSE G[n - 1] + Gained(trace[n], starts[n])]
             G == CHOOSE g : Is(g)
             turn == [k \in 1 .. N |-> [r \in Int |-> r + Gained(trace[k], starts[k])]]
  <1>1. N \in Nat /\ DOMAIN trace = 1 .. N BY DEF Replayable
  <1>2. ASSUME NEW k \in 1 .. N PROVE Gained(trace[k], starts[k]) \in Int
    <2>1. trace[k].dur \in Nat /\ trace[k].gpus \in Nat /\ trace[k].submit \in Int BY <1>1 DEF Replayable
    <2>2. starts[k] \in MaybeStart BY <1>1 DEF Replays
    <2>3. bill_cost(trace[k], trace[k].submit) \in Int BY <2>1, BillTyped
    <2>4. starts[k] # NoStart => bill_cost(trace[k], starts[k]) \in Int BY <2>1, <2>2, BillTyped DEF MaybeStart
    <2>. QED BY <2>3, <2>4 DEF Gained
  <1>3. turn \in [1 .. N -> [Int -> Int]] BY <1>2
  <1>4. PICK f \in [0 .. N -> Int] : f[0] = 0 /\ \A k \in 1 .. N : f[k] = turn[k][f[k - 1]]
    <2> DEFINE S == Int
               none == 0
    <2>1. N \in Nat /\ none \in S /\ turn \in [1 .. N -> [S -> S]] BY <1>1, <1>3
    <2> HIDE DEF N, turn, S, none
    <2>2. \E f \in [0 .. N -> S] : f[0] = none /\ \A k \in 1 .. N : f[k] = turn[k][f[k - 1]] BY <2>1, LoopExists, Z3
    <2>. QED BY <2>2 DEF S, none
  <1>5. Is(f)
    <2>1. ASSUME NEW k \in 1 .. N PROVE f[k] = f[k - 1] + Gained(trace[k], starts[k])
      <3>1. k - 1 \in 0 .. N BY <1>1
      <3>2. f[k - 1] \in Int BY <3>1
      <3>. QED BY <1>4, <3>2
    <2>2. f = [k \in 0 .. N |-> f[k]] OBVIOUS
    <2>3. \A k \in 0 .. N : f[k] = IF k = 0 THEN 0 ELSE f[k - 1] + Gained(trace[k], starts[k]) BY <1>1, <1>4, <2>1
    <2>. QED BY <2>2, <2>3
  <1>6. Is(G)
    <2> HIDE DEF Is
    <2>. QED BY <1>5
  <1>7. GainOf(trace, starts) = G[N] BY DEF GainOf, Gained
  <1> HIDE DEF G
  <1>8. GainRight(trace, starts, G) BY <1>1, <1>6 DEF GainRight
  <1>. QED BY <1>7, <1>8

(* The totals add up after each turn, if only flexible jobs are moved. *)
UpTo(trace, starts, T, G, m) ==
    /\ T[m] \in AllTotals /\ G[m] \in Int
    /\ T[m].n_placed + T[m].n_unplaced = T[m].n_flexible /\ T[m].n_flexible <= T[m].n_eligible
    /\ T[m].n_placed = Cardinality(Moved(trace, starts) \cap 1 .. m)
    /\ T[m].baseline - T[m].scheduled = G[m]

LEMMA OneMore ==
    ASSUME NEW trace, Replayable(trace), NEW a, NEW starts \in Replays(trace), NEW T, NEW G,
           TotalsRight(trace, a, starts, T), GainRight(trace, starts, G),
           NEW m \in Nat, m < Len(trace), UpTo(trace, starts, T, G, m),
           starts[m + 1] # NoStart => flexible(trace[m + 1], a)
    PROVE  UpTo(trace, starts, T, G, m + 1)
  <1> DEFINE k == m + 1
             job == trace[k]
             old == T[m]
             before == Moved(trace, starts) \cap 1 .. m
             now == Moved(trace, starts) \cap 1 .. k
  <1>1. k \in 1 .. Len(trace) /\ k - 1 = m /\ k \in DOMAIN trace /\ Len(trace) \in Nat BY DEF Replayable
  <1>2. T[k] = Totalled(old, job, a, starts[k]) /\ G[k] = G[m] + Gained(job, starts[k])
    BY <1>1 DEF TotalsRight, GainRight
  <1>3. job.dur \in Nat /\ job.gpus \in Nat /\ job.submit \in Int /\ starts[k] \in MaybeStart
    BY <1>1 DEF Replayable, Replays
  <1>4. old \in AllTotals /\ G[m] \in Int BY DEF UpTo
  <1>5. T[k] \in AllTotals BY <1>2, <1>3, <1>4, TotalledTyped
  <1>6. bill_cost(job, job.submit) \in Int /\ (starts[k] # NoStart => bill_cost(job, starts[k]) \in Int)
    BY <1>3, BillTyped DEF MaybeStart
  <1>7. IsFiniteSet(before) /\ k \notin before
    <2>1. m \in Int /\ 1 \in Int OBVIOUS
    <2>2. IsFiniteSet(1 .. m) BY <2>1, FS_Interval
    <2>. QED BY <2>2, FS_Subset
  <1>8. 1 .. k = 1 .. m \cup {k} OBVIOUS
  <1>9. /\ old.n_placed + old.n_unplaced = old.n_flexible /\ old.n_flexible <= old.n_eligible
        /\ old.n_placed = Cardinality(before) /\ old.baseline - old.scheduled = G[m]
        /\ old.n_placed \in Int /\ old.n_unplaced \in Int /\ old.n_flexible \in Int /\ old.n_eligible \in Int
        /\ old.baseline \in Int /\ old.scheduled \in Int
    BY <1>4 DEF UpTo, AllTotals
  <1>10. /\ T[k].n_eligible = old.n_eligible + Count(eligible(job))
         /\ T[k].n_flexible = old.n_flexible + Count(flexible(job, a))
         /\ T[k].n_placed = old.n_placed + Count(flexible(job, a) /\ starts[k] # NoStart)
         /\ T[k].n_unplaced = old.n_unplaced + Count(flexible(job, a) /\ starts[k] = NoStart)
         /\ T[k].baseline = old.baseline + bill_cost(job, job.submit)
         /\ T[k].scheduled = old.scheduled + bill_cost(job, IF starts[k] = NoStart THEN job.submit ELSE starts[k])
    BY <1>2 DEF Totalled
  <1>11. flexible(job, a) => eligible(job) BY DEF flexible
  <1>12. T[k].n_placed + T[k].n_unplaced = T[k].n_flexible /\ T[k].n_flexible <= T[k].n_eligible
    <2> HIDE DEF job, old
    <2>. QED BY <1>9, <1>10, <1>11 DEF Count
  <1>13. T[k].baseline - T[k].scheduled = G[k]
    <2> HIDE DEF job, old
    <2>. QED BY <1>2, <1>4, <1>6, <1>9, <1>10 DEF Gained
  <1>14. T[k].n_placed = Cardinality(now)
    <2>1. CASE starts[k] = NoStart
      <3>1. now = before BY <1>8, <2>1 DEF Moved
      <3>2. T[k].n_placed = old.n_placed
        <4> HIDE DEF job, old
        <4>. QED BY <1>9, <1>10, <2>1 DEF Count
      <3>. QED BY <1>9, <3>1, <3>2
    <2>2. CASE starts[k] # NoStart
      <3>1. now = before \cup {k} BY <1>1, <1>8, <2>2 DEF Moved
      <3>2. flexible(job, a) BY <2>2
      <3>3. T[k].n_placed = old.n_placed + 1
        <4> HIDE DEF job, old
        <4>. QED BY <1>9, <1>10, <2>2, <3>2 DEF Count
      <3>4. Cardinality(before \cup {k}) = Cardinality(before) + 1
        <4> HIDE DEF before, k
        <4>. QED BY <1>7, FS_AddElement
      <3>. QED BY <1>9, <3>1, <3>3, <3>4
    <2>. QED BY <2>1, <2>2
  <1>15. G[k] \in Int
    <2> HIDE DEF job
    <2>. QED BY <1>2, <1>4, <1>6 DEF Gained
  <1>. QED BY <1>5, <1>12, <1>13, <1>14, <1>15 DEF UpTo

LEMMA ReplayAddsUp ==
    ASSUME NEW trace, Replayable(trace), NEW a, NEW starts \in Replays(trace),
           \A i \in Moved(trace, starts) : flexible(trace[i], a)
    PROVE  AddsUp(trace, starts, TotalsOf(trace, a, starts))
  <1> DEFINE N == Len(trace)
  <1>1. PICK T : TotalsRight(trace, a, starts, T) /\ TotalsOf(trace, a, starts) = T[N] BY TotalsAre
  <1>2. PICK G : GainRight(trace, starts, G) /\ GainOf(trace, starts) = G[N] BY GainIs
  <1>3. N \in Nat /\ DOMAIN trace = 1 .. N BY DEF Replayable
  <1> DEFINE Bad == {m \in 0 .. N : ~UpTo(trace, starts, T, G, m)}
  <1>4. UpTo(trace, starts, T, G, 0)
    <2>1. 1 .. 0 = {} OBVIOUS
    <2>2. Moved(trace, starts) \cap 1 .. 0 = {} BY <2>1
    <2>3. Cardinality(Moved(trace, starts) \cap 1 .. 0) = 0 BY <2>2, FS_EmptySet
    <2>4. T[0] = NoTotals /\ G[0] = 0 BY <1>1, <1>2 DEF TotalsRight, GainRight
    <2>. QED BY <2>3, <2>4 DEF UpTo, NoTotals, AllTotals
  <1>5. Bad = {}
    <2> SUFFICES ASSUME Bad # {} PROVE FALSE OBVIOUS
    <2>1. Bad \in SUBSET Nat BY <1>3
    <2>2. PICK k \in Bad : \A m \in Bad : k <= m
      <3> HIDE DEF Bad
      <3>. QED BY <2>1, LeastExists
    <2>3. k \in 0 .. N /\ ~UpTo(trace, starts, T, G, k) BY <2>2
    <2>4. k # 0 BY <1>4, <2>3
    <2> DEFINE m == k - 1
    <2>5. m \in Nat /\ m < N /\ m + 1 = k /\ m \in 0 .. N /\ m < k BY <1>3, <2>3, <2>4
    <2>6. UpTo(trace, starts, T, G, m) BY <2>2, <2>5
    <2>7. k \in DOMAIN trace BY <1>3, <2>3, <2>4
    <2>8. starts[k] # NoStart => flexible(trace[k], a) BY <2>7 DEF Moved
    <2> HIDE DEF m, N
    <2>9. UpTo(trace, starts, T, G, m + 1) BY <1>1, <1>2, <2>5, <2>6, <2>8, OneMore DEF N
    <2>. QED BY <2>3, <2>5, <2>9
  <1>6. UpTo(trace, starts, T, G, N) BY <1>3, <1>5
  <1>7. Moved(trace, starts) \cap 1 .. N = Moved(trace, starts) BY <1>3 DEF Moved
  <1>. QED BY <1>1, <1>2, <1>6, <1>7 DEF UpTo, AddsUp

-----------------------------------------------------------------------------
(* What a replay says can be relied on, whatever was asked and whatever is in the file. *)
LEMMA ReplayIsCredible ==
    ASSUME NEW trace, Replayable(trace), NEW a, a.slack \in Nat
    PROVE  Credible(trace, a, run_backtest(trace, a))
  <1> DEFINE starts == Placements(trace, a)
             moved == Moved(trace, starts)
             S == {MovedBooking(trace, starts, i) : i \in moved}
             cap == SHARE_GPUS * BLOCK_MIN
  <1>1. starts \in Replays(trace) /\ \A i \in DOMAIN trace : starts[i] = WindowOf(trace, a, starts, i) BY ReplayIs
  <1> HIDE DEF starts
  <1>2. ASSUME NEW i \in moved
        PROVE  /\ i \in DOMAIN trace /\ starts[i] \in Int /\ PlacedWell(trace[i], a, starts[i])
               /\ \A b \in Spans(starts[i], trace[i].dur) :
                     Load(Booked(trace, starts, i), b) + MinutesIn(b, starts[i], trace[i].dur) * trace[i].gpus <= cap
    <2>1. i \in DOMAIN trace /\ starts[i] # NoStart BY DEF Moved
    <2> DEFINE w == WindowOf(trace, a, starts, i)
    <2>2. /\ w \in Int /\ PlacedWell(trace[i], a, w)
          /\ \A b \in Spans(w, trace[i].dur) :
                Load(Booked(trace, starts, i), b) + MinutesIn(b, w, trace[i].dur) * trace[i].gpus <= cap
      BY <1>1, <2>1, WindowIs
    <2>3. starts[i] = w BY <1>1, <2>1
    <2> HIDE DEF w
    <2>. QED BY <2>1, <2>2, <2>3
  <1>3. \A i \in DOMAIN trace : i \in Int /\ trace[i].dur \in Nat /\ trace[i].gpus \in Nat BY DEF Replayable
  <1>4. IsFiniteSet(DOMAIN trace)
    <2>1. PICK n \in Nat : DOMAIN trace = 1 .. n BY DEF Replayable
    <2>2. 1 \in Int /\ n \in Int OBVIOUS
    <2>. QED BY <2>1, <2>2, FS_Interval
  <1>5. ASSUME NEW T \in SUBSET moved PROVE Bookables({MovedBooking(trace, starts, i) : i \in T})
    <2> DEFINE B == {MovedBooking(trace, starts, i) : i \in T}
               f == [i \in T |-> MovedBooking(trace, starts, i)]
    <2>1. f \in Surjection(T, B) BY DEF Surjection
    <2>2. IsFiniteSet(T) BY <1>2, <1>4, FS_Subset
    <2>3. IsFiniteSet(B)
      <3> HIDE DEF B, f
      <3>. QED BY <2>1, <2>2, FS_Surjection
    <2>4. \A i \in T : Bookable(MovedBooking(trace, starts, i)) BY <1>2, <1>3 DEF Bookable, MovedBooking
    <2>. QED BY <2>3, <2>4 DEF Bookables
  <1>6. Bookables(S) BY <1>5
  <1>7. \A k \in S : k.job \in moved /\ k = MovedBooking(trace, starts, k.job) BY DEF MovedBooking
  <1>8. \A k \in S : k.job \in Int
    <2> SUFFICES ASSUME NEW k \in S PROVE k.job \in Int OBVIOUS
    <2>1. k.job \in moved BY <1>7
    <2>2. k.job \in DOMAIN trace BY <2>1, <1>2
    <2>. QED BY <2>2, <1>3
  <1>9. \A k, i \in S : k.job = i.job => k = i BY <1>7
  <1>10. cap \in Nat BY BacktestAssumption, AllocatorAssumption
  <1>11. ASSUME NEW b \in Blocks PROVE Load(S, b) <= cap
    <2>1. Bookables({}) /\ Load({}, b) = 0
      <3>1. UNION {Units(k, b) : k \in {}} = {} OBVIOUS
      <3>. QED BY <3>1, FS_EmptySet DEF Load, Bookables
    <2>2. ASSUME NEW k \in S, b \in Spans(k.win, k.dur)
          PROVE  Load({} \cup {i \in S : i.job < k.job}, b) + MinutesIn(b, k.win, k.dur) * k.weight <= cap
      <3> DEFINE i == k.job
      <3>1. i \in moved /\ i \in DOMAIN trace /\ k.win = starts[i] /\ k.dur = trace[i].dur /\ k.weight = trace[i].gpus
        BY <1>2, <1>7 DEF MovedBooking
      <3>2. Load(Booked(trace, starts, i), b) + MinutesIn(b, k.win, k.dur) * k.weight <= cap
        <4>1. \A c \in Spans(starts[i], trace[i].dur) :
                 Load(Booked(trace, starts, i), c) + MinutesIn(c, starts[i], trace[i].dur) * trace[i].gpus <= cap
          BY <1>2, <3>1
        <4> HIDE DEF i, cap
        <4>. QED BY <2>2, <3>1, <4>1
      <3>3. {} \cup {j \in S : j.job < k.job} = Booked(trace, starts, i)
        <4>1. \E n \in Nat : DOMAIN trace = 1 .. n BY DEF Replayable
        <4>2. \A j \in 1 .. i - 1 : starts[j] # NoStart <=> j \in moved BY <3>1, <4>1 DEF Moved
        <4>3. \A j \in moved : j < i => j \in 1 .. i - 1
          <5>1. \A j \in moved : j \in DOMAIN trace BY <1>2
          <5>. QED BY <3>1, <4>1, <5>1
        <4>4. \A j \in 1 .. i - 1 : j < i BY <3>1, <1>3
        <4>5. Booked(trace, starts, i) = {MovedBooking(trace, starts, j) : j \in {j \in 1 .. i - 1 : starts[j] # NoStart}}
          BY DEF Booked, MovedBooking
        <4>6. {j \in 1 .. i - 1 : starts[j] # NoStart} = {j \in moved : j < i} BY <4>2, <4>3, <4>4
        <4>7. {j \in S : j.job < k.job} = {MovedBooking(trace, starts, j) : j \in {j \in moved : j < i}}
          BY <1>7 DEF MovedBooking
        <4>. QED BY <4>5, <4>6, <4>7
      <3>. QED BY <3>2, <3>3
    <2>3. Load({} \cup S, b) <= cap
      <3> HIDE DEF S, cap
      <3>1. cap \in Int /\ Load({}, b) <= cap BY <1>10, <2>1
      <3>. QED BY <1>6, <1>8, <1>9, <2>1, <2>2, <3>1, LastBooked
    <2>4. {} \cup S = S OBVIOUS
    <2>. QED BY <2>3, <2>4
  <1>12. S = {[job |-> i, win |-> starts[i], dur |-> trace[i].dur, weight |-> trace[i].gpus] : i \in moved}
    BY DEF MovedBooking
  <1>13. AddsUp(trace, starts, TotalsOf(trace, a, starts))
    <2>1. \A i \in Moved(trace, starts) : flexible(trace[i], a) BY <1>2 DEF PlacedWell
    <2>. QED BY <1>1, <2>1, ReplayAddsUp
  <1> DEFINE report == run_backtest(trace, a)
  <1>14. report.starts = starts /\ report.totals = TotalsOf(trace, a, starts) BY DEF run_backtest, starts
  <1>15. Credible(trace, a, report)
    <2> DEFINE s == report.starts
               used(b) == Load({[job |-> i, win |-> s[i], dur |-> trace[i].dur, weight |-> trace[i].gpus] :
                                   i \in Moved(trace, s)}, b)
    <2>1. s = starts BY <1>14
    <2>2. \A i \in Moved(trace, s) : PlacedWell(trace[i], a, s[i])
      <3> HIDE DEF s, S
      <3>. QED BY <1>2, <2>1
    <2>3. \A b \in Blocks : used(b) <= cap
      <3>1. \A b \in Blocks : used(b) = Load(S, b)
        <4> HIDE DEF s, S
        <4>. QED BY <1>12, <2>1
      <3> HIDE DEF used, S, cap
      <3>. QED BY <1>11, <3>1
    <2>4. AddsUp(trace, s, report.totals)
      <3> HIDE DEF s, S
      <3>. QED BY <1>13, <1>14, <2>1
    <2> HIDE DEF S, report
    <2>. QED BY <2>2, <2>3, <2>4 DEF Credible
  <1>. QED BY <1>15

-----------------------------------------------------------------------------
(* The files that are let in *)

LEMMA LeastIs ==
    ASSUME NEW T \in SUBSET Nat, T # {}
    PROVE  Min(T) \in T
  <1>1. \E x \in T : \A y \in T : x <= y BY LeastExists
  <1>. QED BY <1>1 DEF Min

LEMMA FileIs ==
    ASSUME NEW file \in Files, Readable(file)
    PROVE  /\ DOMAIN file = 1 .. Len(file) /\ Len(file) \in Nat /\ DOMAIN file # {}
           /\ \A i \in DOMAIN file : file[i] \in TraceJob
  <1>1. file \in Seq(TraceJob \cup {BadRow}) BY RunsAssumption
  <1>2. DOMAIN file = 1 .. Len(file) /\ Len(file) \in Nat /\ \A i \in DOMAIN file : file[i] \in TraceJob \cup {BadRow}
    BY <1>1
  <1>. QED BY <1>2, BacktestAssumption DEF Readable

LEMMA TraceIs ==
    ASSUME NEW trace \in Traces
    PROVE  Replayable(trace)
  <1>1. PICK file \in Files, retime \in BOOLEAN : Readable(file) /\ trace = Prepared(file, retime) BY DEF Traces, Readables
  <1>2. /\ DOMAIN file = 1 .. Len(file) /\ Len(file) \in Nat /\ DOMAIN file # {}
        /\ \A i \in DOMAIN file : file[i].submit \in Nat /\ file[i].dur \in Nat \ {0} /\ file[i].gpus \in Nat \ {0}
                                  /\ file[i].jitter \in 0 .. BLOCK_MIN - 1 /\ file[i] \in TraceJob
    BY <1>1, FileIs DEF TraceJob
  <1>3. CASE ~retime
    <2>1. trace = file BY <1>1, <1>3 DEF Prepared
    <2> DEFINE n == Len(file)
    <2>2. /\ n \in Nat /\ DOMAIN trace = 1 .. n /\ Len(trace) = n
          /\ \A i \in 1 .. n : /\ trace[i].submit \in Int /\ trace[i].jitter \in 0 .. BLOCK_MIN - 1
                               /\ trace[i].dur \in Nat \ {0} /\ trace[i].gpus \in Nat \ {0}
      BY <1>2, <2>1
    <2> HIDE DEF n
    <2>. QED BY <2>2 DEF Replayable
  <1>4. CASE retime
    <2> DEFINE submits == {file[i].submit : i \in DOMAIN file}
               monday(t) == t - (t % WEEK)
               shift == monday(window_start) - monday(Min(submits))
    <2>1. Min(submits) \in Nat
      <3>1. submits \in SUBSET Nat /\ submits # {} BY <1>2
      <3> HIDE DEF submits
      <3>. QED BY <3>1, LeastIs
    <2>2. window_start \in Nat
      <3>1. DOMAIN PRICES \in SUBSET Nat /\ DOMAIN PRICES # {} BY BacktestAssumption DEF Blocks, Minute
      <3>. QED BY <3>1, LeastIs DEF window_start
    <2>3. \A t \in Nat : monday(t) \in Int BY BacktestAssumption
    <2>4. shift \in Int
      <3>1. monday(window_start) \in Int /\ monday(Min(submits)) \in Int BY <2>1, <2>2, <2>3
      <3> HIDE DEF monday
      <3>. QED BY <3>1
    <2>5. trace = [i \in DOMAIN file |-> [file[i] EXCEPT !.submit = file[i].submit + shift]]
      <3>1. trace = retime_weeks(file) BY <1>1, <1>4 DEF Prepared
      <3>. QED BY <3>1 DEF retime_weeks
    <2> HIDE DEF shift
    <2>6. \A i \in DOMAIN file : /\ trace[i].submit \in Int /\ trace[i].jitter \in 0 .. BLOCK_MIN - 1
                                 /\ trace[i].dur \in Nat \ {0} /\ trace[i].gpus \in Nat \ {0}
      <3> SUFFICES ASSUME NEW i \in DOMAIN file
                   PROVE  /\ trace[i].submit \in Int /\ trace[i].jitter \in 0 .. BLOCK_MIN - 1
                          /\ trace[i].dur \in Nat \ {0} /\ trace[i].gpus \in Nat \ {0}
        OBVIOUS
      <3>1. trace[i] = [file[i] EXCEPT !.submit = file[i].submit + shift] BY <2>5
      <3>2. /\ file[i] \in TraceJob /\ file[i].submit \in Nat
            /\ file[i].dur \in Nat \ {0} /\ file[i].gpus \in Nat \ {0} /\ file[i].jitter \in 0 .. BLOCK_MIN - 1
        BY <1>2
      <3>3. /\ trace[i].submit = file[i].submit + shift /\ trace[i].dur = file[i].dur
            /\ trace[i].gpus = file[i].gpus /\ trace[i].jitter = file[i].jitter
        BY <3>1, <3>2 DEF TraceJob
      <3>. QED BY <2>4, <3>2, <3>3
    <2>7. DOMAIN trace = 1 .. Len(file) /\ Len(trace) = Len(file)
      <3> DEFINE n == Len(file)
                 S == {trace[i] : i \in DOMAIN file}
      <3>1. n \in Nat /\ DOMAIN file = 1 .. n BY <1>2
      <3>2. trace \in [1 .. n -> S] BY <2>5, <3>1
      <3> HIDE DEF n, S
      <3>3. trace \in Seq(S) BY <3>1, <3>2
      <3>4. DOMAIN trace = 1 .. n /\ Len(trace) = n BY <3>1, <3>2, <3>3
      <3>. QED BY <3>4 DEF n
    <2>. QED BY <1>2, <2>6, <2>7 DEF Replayable
  <1>. QED BY <1>3, <1>4

-----------------------------------------------------------------------------
(* The reports *)

Results == {<<>>} \cup {run_backtest(trace, a) : trace \in Traces, a \in Asked}
Grids == {<<>>} \cup {sensitivity(trace) : trace \in Traces}
RunRec == [status : Status, stage : Stage, result : Results, grid : Grids]
Askers == {"new", "added", "marked", "handed"}

RunsTyped ==
    /\ table \in Seq(Reports)
    /\ run \in [Reports -> RunRec] /\ asker \in [Reports -> Askers]
    /\ upload \in [Reports -> {NoUpload} \cup [trace : Traces, a : Asked]]

(* What there is of a report, by where its request and its work stand. *)
ReportRight(i) ==
    LET trace == upload[i].trace
    IN /\ asker[i] = "new" => run[i] = NoRun
       /\ asker[i] # "new" => trace \in Traces /\ upload[i].a \in Asked
       /\ asker[i] = "added" => run[i].status = "queued"
       /\ run[i].result # <<>> => run[i].result = run_backtest(trace, upload[i].a)
       /\ run[i].grid # <<>> => run[i].grid = sensitivity(trace)
       /\ run[i].stage \in {"scenarios", "finished"} => run[i].result # <<>>
       /\ run[i].stage = "finished" => run[i].grid # <<>>
       /\ run[i].status = "done" => run[i].stage = "finished"

RunsRight == \A i \in Reports : ReportRight(i)

LEMMA RunsStart == RunsInit => RunsTyped /\ RunsRight
  <1> SUFFICES ASSUME RunsInit PROVE RunsTyped /\ RunsRight OBVIOUS
  <1>1. /\ table = <<>> /\ run = [i \in Reports |-> NoRun] /\ asker = [i \in Reports |-> "new"]
        /\ upload = [i \in Reports |-> NoUpload]
    BY DEF RunsInit
  <1>2. NoRun \in RunRec BY DEF NoRun, RunRec, Status, Stage, Results, Grids
  <1>3. RunsTyped BY <1>1, <1>2 DEF RunsTyped, Askers
  <1>4. NoRun.result = <<>> /\ NoRun.grid = <<>> /\ NoRun.stage = "queued" /\ NoRun.status = "none" BY DEF NoRun
  <1>5. RunsRight BY <1>1, <1>4 DEF RunsRight, ReportRight
  <1>. QED BY <1>3, <1>5

(* What a step makes of the report it is about; it leaves the others alone. *)
OthersKept(i) ==
    \A k \in Reports : k # i => run'[k] = run[k] /\ asker'[k] = asker[k] /\ upload'[k] = upload[k]

LEMMA StartIs ==
    ASSUME RunsTyped, NEW i \in Reports, backtest_start(i)
    PROVE  /\ asker[i] = "new" /\ Busy < MAX_ACTIVE_RUNS /\ table' = Added(i)
           /\ run' = [run EXCEPT ![i] = [run[i] EXCEPT !.status = "queued"]]
           /\ asker' = [asker EXCEPT ![i] = "added"]
           /\ \E trace \in Traces, a \in Asked : upload' = [upload EXCEPT ![i] = [trace |-> trace, a |-> a]]
  <1>1. PICK file \in Files, retime \in BOOLEAN, a \in Asked : StartReport(i, file, retime, a) BY DEF backtest_start
  <1>2. Prepared(file, retime) \in Traces BY <1>1 DEF StartReport, Traces, Readables
  <1>3. run' = [run EXCEPT ![i] = [run[i] EXCEPT !.status = "queued"]] BY <1>1 DEF StartReport, RunsTyped
  <1>. QED BY <1>1, <1>2, <1>3 DEF StartReport

(* A step of the request or of the worker changes the report's record, or its place in the pool. *)
LEMMA WorkIs ==
    ASSUME RunsTyped, RunsRight, NEW i \in Reports, AskerStep(i) \/ WorkStep(i)
    PROVE  /\ table' = table /\ upload' = upload /\ asker[i] # "new"
           /\ \/ /\ asker[i] = "added" /\ asker' = [asker EXCEPT ![i] = "marked"]
                 /\ run' = [run EXCEPT ![i] = [run[i] EXCEPT !.status = "running"]]
              \/ /\ run' = run /\ asker[i] = "marked" /\ asker' = [asker EXCEPT ![i] = "handed"]
              \/ /\ run[i].status = "running" /\ asker' = asker
                 /\ \/ run[i].stage = "queued" /\ run' = [run EXCEPT ![i] = [run[i] EXCEPT !.stage = "main"]]
                    \/ /\ run[i].stage = "main" /\ run[i].result = <<>>
                       /\ run' = [run EXCEPT ![i] = [run[i] EXCEPT !.result = run_backtest(upload[i].trace, upload[i].a)]]
                    \/ /\ run[i].stage = "main" /\ run[i].result # <<>>
                       /\ run' = [run EXCEPT ![i] = [run[i] EXCEPT !.stage = "scenarios"]]
                    \/ /\ run[i].stage = "scenarios" /\ run[i].grid = <<>>
                       /\ run' = [run EXCEPT ![i] = [run[i] EXCEPT !.grid = sensitivity(upload[i].trace)]]
                    \/ /\ run[i].stage = "scenarios" /\ run[i].grid # <<>>
                       /\ run' = [run EXCEPT ![i] = [run[i] EXCEPT !.stage = "finished"]]
                    \/ run[i].stage = "finished" /\ run' = [run EXCEPT ![i] = [run[i] EXCEPT !.status = "done"]]
                    \/ run' = [run EXCEPT ![i] = [run[i] EXCEPT !.status = "error"]]
  <1>1. run \in [Reports -> RunRec] BY DEF RunsTyped
  <1>2. CASE Mark(i) BY <1>1, <1>2 DEF Mark
  <1>3. CASE Hand(i) BY <1>1, <1>3 DEF Hand
  <1>4. CASE WorkStep(i)
    <2>1. run[i].status = "running" BY <1>4 DEF WorkStep, WorkBegins, WorkReports, WorkScenarios, WorkGrid, WorkFinishes, WorkEnds, WorkFails, At
    <2>2. asker[i] # "new" BY <2>1 DEF RunsRight, ReportRight, NoRun
    <2>3. upload[i].trace \in Traces /\ upload[i].a \in Asked BY <2>2 DEF RunsRight, ReportRight
    <2>4. Outcome[upload[i].trace][upload[i].a] = run_backtest(upload[i].trace, upload[i].a) BY <2>3 DEF Outcome
    <2>5. Grid[upload[i].trace] = sensitivity(upload[i].trace) BY <2>3 DEF Grid
    <2>6. CASE WorkBegins(i) BY <1>1, <2>1, <2>2, <2>6 DEF WorkBegins, At
    <2>7. CASE WorkReports(i) BY <1>1, <2>1, <2>2, <2>4, <2>7 DEF WorkReports, At
    <2>8. CASE WorkScenarios(i) BY <1>1, <2>1, <2>2, <2>8 DEF WorkScenarios, At
    <2>9. CASE WorkGrid(i) BY <1>1, <2>1, <2>2, <2>5, <2>9 DEF WorkGrid, At
    <2>10. CASE WorkFinishes(i) BY <1>1, <2>1, <2>2, <2>10 DEF WorkFinishes, At
    <2>11. CASE WorkEnds(i) BY <1>1, <2>1, <2>2, <2>11 DEF WorkEnds, At
    <2>12. CASE WorkFails(i) BY <1>1, <2>1, <2>2, <2>12 DEF WorkFails, At
    <2>. QED BY <1>4, <2>6, <2>7, <2>8, <2>9, <2>10, <2>11, <2>12 DEF WorkStep
  <1>. QED BY <1>2, <1>3, <1>4 DEF AskerStep

(* A report with one field set. *)
LEMMA FieldSet ==
    ASSUME NEW j \in RunRec
    PROVE  /\ \A s \in Status : LET n == [j EXCEPT !.status = s] IN
              n \in RunRec /\ n.status = s /\ n.stage = j.stage /\ n.result = j.result /\ n.grid = j.grid
           /\ \A s \in Stage : LET n == [j EXCEPT !.stage = s] IN
              n \in RunRec /\ n.status = j.status /\ n.stage = s /\ n.result = j.result /\ n.grid = j.grid
           /\ \A r \in Results : LET n == [j EXCEPT !.result = r] IN
              n \in RunRec /\ n.status = j.status /\ n.stage = j.stage /\ n.result = r /\ n.grid = j.grid
           /\ \A g \in Grids : LET n == [j EXCEPT !.grid = g] IN
              n \in RunRec /\ n.status = j.status /\ n.stage = j.stage /\ n.result = j.result /\ n.grid = g
  BY DEF RunRec

LEMMA RunsStep == RunsTyped /\ RunsRight /\ RunsNext => RunsTyped' /\ RunsRight'
  <1> SUFFICES ASSUME RunsTyped, RunsRight, RunsNext PROVE RunsTyped' /\ RunsRight' OBVIOUS
  <1>d. /\ table \in Seq(Reports) /\ run \in [Reports -> RunRec] /\ asker \in [Reports -> Askers]
        /\ upload \in [Reports -> {NoUpload} \cup [trace : Traces, a : Asked]]
    BY DEF RunsTyped
  <1>1. ASSUME NEW i \in Reports, backtest_start(i) PROVE RunsTyped' /\ RunsRight'
    <2>1. /\ asker[i] = "new" /\ table' = Added(i)
          /\ run' = [run EXCEPT ![i] = [run[i] EXCEPT !.status = "queued"]] /\ asker' = [asker EXCEPT ![i] = "added"]
      BY <1>1, StartIs
    <2>2. PICK trace \in Traces, a \in Asked : upload' = [upload EXCEPT ![i] = [trace |-> trace, a |-> a]] BY <1>1, StartIs
    <2>3. run[i] \in RunRec /\ run[i] = NoRun BY <1>d, <2>1 DEF RunsRight, ReportRight
    <2>4. [run[i] EXCEPT !.status = "queued"] \in RunRec BY <2>3 DEF RunRec, Status
    <2>5. table' \in Seq(Reports)
      <3>2. CASE Len(table) >= MAX_KEEP
        <4>1. table # <<>> BY <1>d, <3>2, RunsAssumption
        <4>. QED BY <1>d, <2>1, <3>2, <4>1 DEF Added
      <3>3. CASE ~(Len(table) >= MAX_KEEP) BY <1>d, <2>1, <3>3 DEF Added
      <3>. QED BY <3>2, <3>3
    <2>6. RunsTyped' BY <1>d, <2>1, <2>2, <2>4, <2>5 DEF RunsTyped, Askers
    <2>7. ASSUME NEW k \in Reports PROVE ReportRight(k)'
      <3>1. ReportRight(k) BY DEF RunsRight
      <3>2. CASE k # i
        <4>1. run'[k] = run[k] /\ asker'[k] = asker[k] /\ upload'[k] = upload[k] BY <1>d, <2>1, <2>2, <3>2
        <4>. QED BY <3>1, <4>1 DEF ReportRight
      <3>3. CASE k = i
        <4>1. /\ run'[k] = [NoRun EXCEPT !.status = "queued"] /\ asker'[k] = "added"
              /\ upload'[k].trace = trace /\ upload'[k].a = a
          BY <1>d, <2>1, <2>2, <2>3, <3>3
        <4>2. /\ run'[k].status = "queued" /\ run'[k].stage = "queued" /\ run'[k].result = <<>> /\ run'[k].grid = <<>>
          BY <4>1 DEF NoRun
        <4>. QED BY <4>1, <4>2 DEF ReportRight
      <3>. QED BY <3>2, <3>3
    <2>. QED BY <2>6, <2>7 DEF RunsRight
  <1>2. ASSUME NEW i \in Reports, AskerStep(i) \/ WorkStep(i) PROVE RunsTyped' /\ RunsRight'
    <2> DEFINE trace == upload[i].trace
               a == upload[i].a
               result == run_backtest(trace, a)
               grid == sensitivity(trace)
    <2>1. /\ table' = table /\ upload' = upload /\ asker[i] # "new"
          /\ \/ /\ asker[i] = "added" /\ asker' = [asker EXCEPT ![i] = "marked"]
                /\ run' = [run EXCEPT ![i] = [run[i] EXCEPT !.status = "running"]]
             \/ /\ run' = run /\ asker[i] = "marked" /\ asker' = [asker EXCEPT ![i] = "handed"]
             \/ /\ run[i].status = "running" /\ asker' = asker
                /\ \/ run[i].stage = "queued" /\ run' = [run EXCEPT ![i] = [run[i] EXCEPT !.stage = "main"]]
                   \/ /\ run[i].stage = "main" /\ run[i].result = <<>>
                      /\ run' = [run EXCEPT ![i] = [run[i] EXCEPT !.result = result]]
                   \/ /\ run[i].stage = "main" /\ run[i].result # <<>>
                      /\ run' = [run EXCEPT ![i] = [run[i] EXCEPT !.stage = "scenarios"]]
                   \/ /\ run[i].stage = "scenarios" /\ run[i].grid = <<>>
                      /\ run' = [run EXCEPT ![i] = [run[i] EXCEPT !.grid = grid]]
                   \/ /\ run[i].stage = "scenarios" /\ run[i].grid # <<>>
                      /\ run' = [run EXCEPT ![i] = [run[i] EXCEPT !.stage = "finished"]]
                   \/ run[i].stage = "finished" /\ run' = [run EXCEPT ![i] = [run[i] EXCEPT !.status = "done"]]
                   \/ run' = [run EXCEPT ![i] = [run[i] EXCEPT !.status = "error"]]
      BY <1>2, WorkIs
    <2>2. run[i] \in RunRec /\ ReportRight(i) BY <1>d DEF RunsRight
    <2>3. trace \in Traces /\ a \in Asked BY <2>1, <2>2 DEF ReportRight
    <2>4. result \in Results /\ grid \in Grids BY <2>3 DEF Results, Grids
    <2> HIDE DEF result, grid
    <2>5. "running" \in Status /\ "done" \in Status /\ "error" \in Status
          /\ "main" \in Stage /\ "scenarios" \in Stage /\ "finished" \in Stage
      BY DEF Status, Stage
    <2>6. ASSUME NEW n \in RunRec, run' = [run EXCEPT ![i] = n]
          PROVE  run' \in [Reports -> RunRec] /\ run'[i] = n /\ \A k \in Reports : k # i => run'[k] = run[k]
      BY <1>d, <2>6
    <2>7. run' \in [Reports -> RunRec] /\ asker' \in [Reports -> Askers] /\ OthersKept(i) /\ ReportRight(i)'
      <3>1. CASE asker[i] = "added" /\ asker' = [asker EXCEPT ![i] = "marked"]
                 /\ run' = [run EXCEPT ![i] = [run[i] EXCEPT !.status = "running"]]
        <4> DEFINE n == [run[i] EXCEPT !.status = "running"]
        <4>1. n \in RunRec /\ n.status = "running" /\ n.stage = run[i].stage /\ n.result = run[i].result /\ n.grid = run[i].grid
          BY <2>2, <2>5, FieldSet
        <4> HIDE DEF n
        <4>2. run' \in [Reports -> RunRec] /\ run'[i] = n /\ \A k \in Reports : k # i => run'[k] = run[k]
          BY <2>6, <3>1, <4>1 DEF n
        <4>3. asker' \in [Reports -> Askers] /\ asker'[i] = "marked" /\ \A k \in Reports : k # i => asker'[k] = asker[k]
          BY <1>d, <3>1 DEF Askers
        <4>4. ReportRight(i)' BY <2>1, <2>2, <4>1, <4>2, <4>3 DEF ReportRight
        <4>. QED BY <2>1, <4>2, <4>3, <4>4 DEF OthersKept
      <3>2. CASE run' = run /\ asker[i] = "marked" /\ asker' = [asker EXCEPT ![i] = "handed"]
        <4>1. asker' \in [Reports -> Askers] /\ asker'[i] = "handed" /\ \A k \in Reports : k # i => asker'[k] = asker[k]
          BY <1>d, <3>2 DEF Askers
        <4>2. ReportRight(i)' BY <2>1, <2>2, <3>2, <4>1 DEF ReportRight
        <4>. QED BY <1>d, <2>1, <3>2, <4>1, <4>2 DEF OthersKept
      <3>3. ASSUME NEW n \in RunRec, run' = [run EXCEPT ![i] = n], asker' = asker, run[i].status = "running",
                   n.result = run[i].result \/ n.result = run_backtest(trace, a),
                   n.grid = run[i].grid \/ n.grid = sensitivity(trace),
                   n.stage \in {"scenarios", "finished"} => n.result # <<>>,
                   n.stage = "finished" => n.grid # <<>>,
                   n.status = "done" => n.stage = "finished"
            PROVE  run' \in [Reports -> RunRec] /\ asker' \in [Reports -> Askers] /\ OthersKept(i) /\ ReportRight(i)'
        <4>1. run' \in [Reports -> RunRec] /\ run'[i] = n /\ \A k \in Reports : k # i => run'[k] = run[k] BY <2>6, <3>3
        <4>2. asker[i] # "added" BY <2>2, <3>3 DEF ReportRight
        <4>3. ReportRight(i)' BY <2>1, <2>2, <3>3, <4>1, <4>2 DEF ReportRight
        <4>. QED BY <1>d, <2>1, <3>3, <4>1, <4>3 DEF OthersKept
      <3>4. CASE run[i].status = "running" /\ asker' = asker /\ run[i].stage = "queued"
                 /\ run' = [run EXCEPT ![i] = [run[i] EXCEPT !.stage = "main"]]
        <4> DEFINE n == [run[i] EXCEPT !.stage = "main"]
        <4>1. n \in RunRec /\ n.status = run[i].status /\ n.stage = "main" /\ n.result = run[i].result /\ n.grid = run[i].grid
          BY <2>2, <2>5, FieldSet
        <4> HIDE DEF n
        <4>. QED BY <2>2, <3>3, <3>4, <4>1 DEF n
      <3>5. CASE run[i].status = "running" /\ asker' = asker /\ run[i].stage = "main" /\ run[i].result = <<>>
                 /\ run' = [run EXCEPT ![i] = [run[i] EXCEPT !.result = result]]
        <4> DEFINE n == [run[i] EXCEPT !.result = result]
        <4>1. n \in RunRec /\ n.status = run[i].status /\ n.stage = run[i].stage /\ n.result = result /\ n.grid = run[i].grid
          BY <2>2, <2>4, FieldSet
        <4> HIDE DEF n
        <4>. QED BY <2>2, <3>3, <3>5, <4>1 DEF n, result
      <3>6. CASE run[i].status = "running" /\ asker' = asker /\ run[i].stage = "main" /\ run[i].result # <<>>
                 /\ run' = [run EXCEPT ![i] = [run[i] EXCEPT !.stage = "scenarios"]]
        <4> DEFINE n == [run[i] EXCEPT !.stage = "scenarios"]
        <4>1. n \in RunRec /\ n.status = run[i].status /\ n.stage = "scenarios" /\ n.result = run[i].result /\ n.grid = run[i].grid
          BY <2>2, <2>5, FieldSet
        <4> HIDE DEF n
        <4>. QED BY <2>2, <3>3, <3>6, <4>1 DEF n
      <3>7. CASE run[i].status = "running" /\ asker' = asker /\ run[i].stage = "scenarios" /\ run[i].grid = <<>>
                 /\ run' = [run EXCEPT ![i] = [run[i] EXCEPT !.grid = grid]]
        <4> DEFINE n == [run[i] EXCEPT !.grid = grid]
        <4>1. n \in RunRec /\ n.status = run[i].status /\ n.stage = run[i].stage /\ n.result = run[i].result /\ n.grid = grid
          BY <2>2, <2>4, FieldSet
        <4> HIDE DEF n
        <4>2. run[i].result # <<>> BY <2>2, <3>7 DEF ReportRight
        <4>. QED BY <3>3, <3>7, <4>1, <4>2 DEF n, grid
      <3>8. CASE run[i].status = "running" /\ asker' = asker /\ run[i].stage = "scenarios" /\ run[i].grid # <<>>
                 /\ run' = [run EXCEPT ![i] = [run[i] EXCEPT !.stage = "finished"]]
        <4> DEFINE n == [run[i] EXCEPT !.stage = "finished"]
        <4>1. n \in RunRec /\ n.status = run[i].status /\ n.stage = "finished" /\ n.result = run[i].result /\ n.grid = run[i].grid
          BY <2>2, <2>5, FieldSet
        <4> HIDE DEF n
        <4>2. run[i].result # <<>> BY <2>2, <3>8 DEF ReportRight
        <4>. QED BY <3>3, <3>8, <4>1, <4>2 DEF n
      <3>9. CASE run[i].status = "running" /\ asker' = asker
                 /\ \E s \in {"done", "error"} : (s = "done" => run[i].stage = "finished")
                                                 /\ run' = [run EXCEPT ![i] = [run[i] EXCEPT !.status = s]]
        <4>1. PICK s \in {"done", "error"} : (s = "done" => run[i].stage = "finished")
                                             /\ run' = [run EXCEPT ![i] = [run[i] EXCEPT !.status = s]]
          BY <3>9
        <4> DEFINE n == [run[i] EXCEPT !.status = s]
        <4>2. n \in RunRec /\ n.status = s /\ n.stage = run[i].stage /\ n.result = run[i].result /\ n.grid = run[i].grid
          BY <2>2, <2>5, FieldSet
        <4> HIDE DEF n
        <4>3. /\ run[i].stage \in {"scenarios", "finished"} => run[i].result # <<>>
              /\ run[i].stage = "finished" => run[i].grid # <<>>
          BY <2>2 DEF ReportRight
        <4>. QED BY <3>3, <3>9, <4>1, <4>2, <4>3 DEF n
      <3>. QED BY <2>1, <3>1, <3>2, <3>4, <3>5, <3>6, <3>7, <3>8, <3>9
    <2>8. RunsTyped' BY <1>d, <2>1, <2>7 DEF RunsTyped
    <2>9. ASSUME NEW k \in Reports, k # i PROVE ReportRight(k)'
      <3>1. ReportRight(k) BY DEF RunsRight
      <3>2. run'[k] = run[k] /\ asker'[k] = asker[k] /\ upload'[k] = upload[k] BY <2>7, <2>9 DEF OthersKept
      <3>. QED BY <3>1, <3>2 DEF ReportRight
    <2>. QED BY <2>7, <2>8, <2>9 DEF RunsRight
  <1>. QED BY <1>1, <1>2 DEF RunsNext

LEMMA RunsInvariant == RunsSpec => [](RunsTyped /\ RunsRight)
  <1>1. RunsInit => RunsTyped /\ RunsRight BY RunsStart
  <1>2. RunsTyped /\ RunsRight /\ [RunsNext]_runsVars => (RunsTyped /\ RunsRight)'
    <2>1. CASE RunsNext BY <2>1, RunsStep
    <2>2. CASE UNCHANGED runsVars BY <2>2 DEF runsVars, RunsTyped, RunsRight, ReportRight
    <2>. QED BY <2>1, <2>2
  <1>. QED BY <1>1, <1>2, PTL DEF RunsSpec

(* Who reads "done" reads all of the report.  In the replay behind the headline and in every cell of the grid,  *)
(* the moved jobs could wait, wait no longer than the slack, run at known prices to their last minute and share *)
(* each block within the capacity assumed; placed and unplaced jobs are the flexible ones, the placed are the   *)
(* moved, and baseline less scheduled is the saving of the moved jobs alone.  For files of any jobs, each with  *)
(* a jitter of its own, any prices, tariff, assumptions and grid, and requests, workers and failures in any     *)
(* order.                                                                                                       *)
THEOREM ReportsAreWhole == RunsSpec => []ReportWhole
  <1>1. RunsTyped /\ RunsRight => ReportWhole
    <2> SUFFICES ASSUME RunsTyped, RunsRight, NEW i \in Reports
                 PROVE  LET trace == upload[i].trace
                        IN /\ run[i].status = "done" => run[i].result # <<>> /\ run[i].grid # <<>>
                           /\ run[i].result # <<>> => Credible(trace, upload[i].a, run[i].result)
                           /\ \A a \in DOMAIN run[i].grid : Credible(trace, a, run[i].grid[a])
      BY DEF ReportWhole
    <2> DEFINE trace == upload[i].trace
               a == upload[i].a
    <2>1. ReportRight(i) BY DEF RunsRight
    <2>2. run[i].status = "done" => run[i].result # <<>> /\ run[i].grid # <<>> BY <2>1 DEF ReportRight
    <2>3. run[i].result # <<>> \/ run[i].grid # <<>> => trace \in Traces /\ a \in Asked BY <2>1 DEF ReportRight, NoRun
    <2>4. run[i].result # <<>> => Credible(trace, a, run[i].result)
      <3> SUFFICES ASSUME run[i].result # <<>> PROVE Credible(trace, a, run[i].result) OBVIOUS
      <3>1. run[i].result = run_backtest(trace, a) BY <2>1 DEF ReportRight
      <3>2. a.slack \in Nat BY <2>3, RunsAssumption DEF Assumptions
      <3>3. Replayable(trace) BY <2>3, TraceIs
      <3> HIDE DEF trace, a
      <3>. QED BY <3>1, <3>2, <3>3, ReplayIsCredible
    <2>5. ASSUME NEW b \in DOMAIN run[i].grid PROVE Credible(trace, b, run[i].grid[b])
      <3>1. run[i].grid # <<>> BY <2>5
      <3>2. run[i].grid = sensitivity(trace) BY <2>1, <3>1 DEF ReportRight
      <3>3. b \in [share : SHARES, slack : SLACKS] /\ run[i].grid[b] = run_backtest(trace, b) BY <2>5, <3>2 DEF sensitivity
      <3>4. b.slack \in Nat BY <3>3, BacktestAssumption
      <3>5. Replayable(trace) BY <2>3, <3>1, TraceIs
      <3> HIDE DEF trace
      <3>. QED BY <3>3, <3>4, <3>5, ReplayIsCredible
    <2>. QED BY <2>2, <2>4, <2>5
  <1>. QED BY <1>1, RunsInvariant, PTL

(* A report never goes back: not from an outcome, and not to less than what a reader may have had. *)
THEOREM ReportsGoForward == RunsSpec => OnlyForward
  <1> DEFINE Forward == \A i \in Reports :
                           /\ run[i].status \in {"done", "error"} => run'[i] = run[i]
                           /\ \A part \in {"result", "grid"} : run[i][part] # <<>> => run'[i][part] = run[i][part]
  <1>1. RunsTyped /\ RunsRight /\ [RunsNext]_runsVars => [Forward]_runsVars
    <2> SUFFICES ASSUME RunsTyped, RunsRight, RunsNext, NEW k \in Reports
                 PROVE  /\ run[k].status \in {"done", "error"} => run'[k] = run[k]
                        /\ run[k].result # <<>> => run'[k].result = run[k].result
                        /\ run[k].grid # <<>> => run'[k].grid = run[k].grid
      OBVIOUS
    <2>1. run \in [Reports -> RunRec] /\ run[k] \in RunRec /\ ReportRight(k) BY DEF RunsTyped, RunsRight
    <2>2. "queued" \in Status /\ "running" \in Status /\ "done" \in Status /\ "error" \in Status
          /\ "main" \in Stage /\ "scenarios" \in Stage /\ "finished" \in Stage
      BY DEF Status, Stage
    <2>3. ASSUME NEW i \in Reports, backtest_start(i)
          PROVE  /\ run[k].status \in {"done", "error"} => run'[k] = run[k]
                 /\ run[k].result # <<>> => run'[k].result = run[k].result
                 /\ run[k].grid # <<>> => run'[k].grid = run[k].grid
      <3>1. asker[i] = "new" /\ run' = [run EXCEPT ![i] = [run[i] EXCEPT !.status = "queued"]] BY <2>3, StartIs
      <3>2. CASE k # i BY <2>1, <3>1, <3>2
      <3>3. CASE k = i BY <2>1, <3>1, <3>3 DEF ReportRight, NoRun
      <3>. QED BY <3>2, <3>3
    <2>4. ASSUME NEW i \in Reports, AskerStep(i) \/ WorkStep(i)
          PROVE  /\ run[k].status \in {"done", "error"} => run'[k] = run[k]
                 /\ run[k].result # <<>> => run'[k].result = run[k].result
                 /\ run[k].grid # <<>> => run'[k].grid = run[k].grid
      <3>1. CASE k # i
        <4>1. run' = run \/ \E n : run' = [run EXCEPT ![i] = n] BY <2>4, WorkIs
        <4>. QED BY <2>1, <3>1, <4>1
      <3>2. CASE k = i /\ asker[k] = "added"
        <4>1. run' = [run EXCEPT ![k] = [run[k] EXCEPT !.status = "running"]] /\ run[k].status = "queued"
          BY <2>1, <2>4, <3>2, WorkIs DEF ReportRight
        <4>2. run'[k] = [run[k] EXCEPT !.status = "running"] BY <2>1, <4>1
        <4>. QED BY <2>1, <2>2, <4>1, <4>2, FieldSet
      <3>3. CASE run' = run BY <3>3
      <3>4. CASE k = i /\ run[k].status = "running"
        <4>1. \/ \E s \in Stage : run' = [run EXCEPT ![k] = [run[k] EXCEPT !.stage = s]]
              \/ \E s \in Status : run' = [run EXCEPT ![k] = [run[k] EXCEPT !.status = s]]
              \/ run[k].result = <<>> /\ \E r \in Results : run' = [run EXCEPT ![k] = [run[k] EXCEPT !.result = r]]
              \/ run[k].grid = <<>> /\ \E g \in Grids : run' = [run EXCEPT ![k] = [run[k] EXCEPT !.grid = g]]
              \/ run' = run
          <5>1. upload[k].trace \in Traces /\ upload[k].a \in Asked BY <2>1, <3>4 DEF ReportRight, NoRun
          <5>2. run_backtest(upload[k].trace, upload[k].a) \in Results /\ sensitivity(upload[k].trace) \in Grids
            BY <5>1 DEF Results, Grids
          <5>3. asker[k] # "added" BY <2>1, <3>4 DEF ReportRight
          <5>. QED BY <2>2, <2>4, <3>4, <5>2, <5>3, WorkIs
        <4>2. \/ \E s \in Stage : run'[k] = [run[k] EXCEPT !.stage = s]
              \/ \E s \in Status : run'[k] = [run[k] EXCEPT !.status = s]
              \/ run[k].result = <<>> /\ \E r \in Results : run'[k] = [run[k] EXCEPT !.result = r]
              \/ run[k].grid = <<>> /\ \E g \in Grids : run'[k] = [run[k] EXCEPT !.grid = g]
              \/ run'[k] = run[k]
          BY <2>1, <4>1
        <4>3. CASE \E s \in Stage : run'[k] = [run[k] EXCEPT !.stage = s]
          <5>1. PICK s \in Stage : run'[k] = [run[k] EXCEPT !.stage = s] BY <4>3
          <5>2. run'[k].result = run[k].result /\ run'[k].grid = run[k].grid BY <2>1, <5>1 DEF RunRec
          <5>. QED BY <3>4, <5>2
        <4>4. CASE \E s \in Status : run'[k] = [run[k] EXCEPT !.status = s]
          <5>1. PICK s \in Status : run'[k] = [run[k] EXCEPT !.status = s] BY <4>4
          <5>2. run'[k].result = run[k].result /\ run'[k].grid = run[k].grid BY <2>1, <5>1 DEF RunRec
          <5>. QED BY <3>4, <5>2
        <4>5. CASE run[k].result = <<>> /\ \E r \in Results : run'[k] = [run[k] EXCEPT !.result = r]
          <5>1. PICK r \in Results : run'[k] = [run[k] EXCEPT !.result = r] BY <4>5
          <5>2. run'[k].grid = run[k].grid BY <2>1, <5>1 DEF RunRec
          <5>. QED BY <3>4, <4>5, <5>2
        <4>6. CASE run[k].grid = <<>> /\ \E g \in Grids : run'[k] = [run[k] EXCEPT !.grid = g]
          <5>1. PICK g \in Grids : run'[k] = [run[k] EXCEPT !.grid = g] BY <4>6
          <5>2. run'[k].result = run[k].result BY <2>1, <5>1 DEF RunRec
          <5>. QED BY <3>4, <4>6, <5>2
        <4>. QED BY <4>2, <4>3, <4>4, <4>5, <4>6
      <3>. QED BY <2>4, <3>1, <3>2, <3>3, <3>4, WorkIs
    <2>. QED BY <2>3, <2>4 DEF RunsNext
  <1> HIDE DEF Forward
  <1>2. RunsSpec => [][Forward]_runsVars BY <1>1, RunsInvariant, PTL DEF RunsSpec
  <1>. QED BY <1>2 DEF OnlyForward, Forward

-----------------------------------------------------------------------------
(* The table *)

LEMMA UnfinishedFinite == RunsTyped => IsFiniteSet(Unfinished) /\ Busy \in Nat
  <1> SUFFICES ASSUME RunsTyped PROVE IsFiniteSet(Unfinished) /\ Busy \in Nat OBVIOUS
  <1>1. Unfinished \subseteq Reports BY DEF Unfinished, Range, RunsTyped
  <1>2. IsFiniteSet(Reports)
    <2>1. 1 \in Int /\ NumReports \in Int BY RunsAssumption
    <2>. QED BY <2>1, FS_Interval DEF Reports
  <1>3. IsFiniteSet(Unfinished) BY <1>1, <1>2, FS_Subset
  <1>. QED BY <1>3, FS_CardinalityType DEF Busy

LEMMA BoundStep == RunsTyped /\ RunsRight /\ RunsBounded /\ RunsNext => RunsBounded'
  <1> SUFFICES ASSUME RunsTyped, RunsRight, RunsBounded, RunsNext PROVE RunsBounded' OBVIOUS
  <1>d. /\ table \in Seq(Reports) /\ run \in [Reports -> RunRec] /\ RunsTyped'
        /\ MAX_KEEP \in Nat \ {0} /\ MAX_ACTIVE_RUNS \in Nat \ {0}
    BY RunsStep, RunsAssumption DEF RunsTyped
  <1>b. Len(table) <= MAX_KEEP /\ Busy <= MAX_ACTIVE_RUNS /\ Busy \in Nat BY UnfinishedFinite DEF RunsBounded
  <1>1. ASSUME NEW i \in Reports, backtest_start(i) PROVE RunsBounded'
    <2>1. /\ Busy < MAX_ACTIVE_RUNS /\ table' = Added(i)
          /\ run' = [run EXCEPT ![i] = [run[i] EXCEPT !.status = "queued"]]
      BY <1>1, StartIs
    <2>2. Len(table') <= MAX_KEEP /\ Range(table') \subseteq Range(table) \cup {i}
      <3>1. CASE Len(table) >= MAX_KEEP
        <4>1. table # <<>> /\ table' = Append(Tail(table), i) BY <1>d, <2>1, <3>1 DEF Added
        <4> DEFINE rest == Tail(table)
        <4>2. /\ rest \in Seq(Reports) /\ Len(rest) = Len(table) - 1
              /\ \A n \in 1 .. Len(rest) : rest[n] = table[n + 1]
          BY <1>d, <4>1
        <4>3. \A n \in 1 .. Len(rest) : rest[n] \in Range(table)
          <5>1. \A n \in 1 .. Len(rest) : n + 1 \in 1 .. Len(table) BY <1>d, <4>2
          <5>. QED BY <1>d, <4>2, <5>1 DEF Range
        <4> HIDE DEF rest
        <4>4. table' = Append(rest, i) BY <4>1 DEF rest
        <4>5. /\ Len(table') = Len(rest) + 1 /\ DOMAIN table' = 1 .. Len(rest) + 1
              /\ \A n \in 1 .. Len(rest) + 1 : table'[n] = IF n = Len(rest) + 1 THEN i ELSE rest[n]
          BY <4>2, <4>4
        <4>6. \A n \in DOMAIN table' : table'[n] \in Range(table) \cup {i} BY <4>2, <4>3, <4>5
        <4>7. Range(table') \subseteq Range(table) \cup {i} BY <4>6 DEF Range
        <4>. QED BY <1>b, <4>2, <4>5, <4>7
      <3>2. CASE ~(Len(table) >= MAX_KEEP)
        <4>1. table' = Append(table, i) BY <2>1, <3>2 DEF Added
        <4>2. /\ Len(table') = Len(table) + 1 /\ DOMAIN table' = 1 .. Len(table) + 1
              /\ \A n \in 1 .. Len(table) + 1 : table'[n] = IF n = Len(table) + 1 THEN i ELSE table[n]
          BY <1>d, <4>1
        <4>3. \A n \in DOMAIN table' : table'[n] \in Range(table) \cup {i} BY <1>d, <4>2 DEF Range
        <4>4. Range(table') \subseteq Range(table) \cup {i} BY <4>3 DEF Range
        <4>5. Len(table) \in Nat BY <1>d
        <4>. QED BY <1>d, <3>2, <4>2, <4>4, <4>5
      <3>. QED BY <3>1, <3>2
    <2>3. Unfinished' \subseteq Unfinished \cup {i}
      <3> SUFFICES ASSUME NEW k \in Unfinished', k # i PROVE k \in Unfinished OBVIOUS
      <3>1. k \in Range(table') /\ run'[k].status \in {"queued", "running"} BY DEF Unfinished
      <3>2. k \in Range(table) BY <2>2, <3>1
      <3>3. k \in Reports BY <1>d, <3>2 DEF Range
      <3>4. run'[k] = run[k] BY <1>d, <2>1, <3>3
      <3>. QED BY <3>1, <3>2, <3>4 DEF Unfinished
    <2>4. Busy' <= Busy + 1
      <3>1. IsFiniteSet(Unfinished) /\ IsFiniteSet({i}) /\ Cardinality({i}) = 1 BY UnfinishedFinite, FS_Singleton
      <3>2. Cardinality(Unfinished') <= Cardinality(Unfinished) + Cardinality({i}) BY <2>3, <3>1, UnionBound
      <3>. QED BY <3>1, <3>2 DEF Busy
    <2>5. Busy' \in Nat
      <3>1. IsFiniteSet(Unfinished \cup {i}) BY UnfinishedFinite, FS_AddElement
      <3>2. IsFiniteSet(Unfinished') BY <2>3, <3>1, FS_Subset
      <3>. QED BY <3>2, FS_CardinalityType DEF Busy
    <2>. QED BY <1>b, <1>d, <2>1, <2>2, <2>4, <2>5 DEF RunsBounded
  <1>2. ASSUME NEW i \in Reports, AskerStep(i) \/ WorkStep(i) PROVE RunsBounded'
    <2>1. /\ table' = table /\ ReportRight(i) /\ run[i] \in RunRec
          /\ run' = run \/ \E n : run' = [run EXCEPT ![i] = n]
      BY <1>2, <1>d, WorkIs DEF RunsRight
    <2>2. \/ run' = run
          \/ run[i].status \in {"queued", "running"}
      BY <1>2, <2>1, WorkIs DEF ReportRight
    <2>3. Unfinished' \subseteq Unfinished
      <3> SUFFICES ASSUME NEW k \in Unfinished' PROVE k \in Unfinished OBVIOUS
      <3>1. k \in Range(table) /\ run'[k].status \in {"queued", "running"} BY <2>1 DEF Unfinished
      <3>2. k \in Reports BY <1>d, <3>1 DEF Range
      <3>3. k # i => run'[k] = run[k] BY <1>d, <2>1, <3>2
      <3>. QED BY <2>2, <3>1, <3>3 DEF Unfinished
    <2>4. Busy' <= Busy
      <3>1. IsFiniteSet(Unfinished) BY UnfinishedFinite
      <3>2. Cardinality(Unfinished') <= Cardinality(Unfinished) BY <2>3, <3>1, FS_Subset
      <3>. QED BY <3>2 DEF Busy
    <2>5. Busy' \in Nat
      <3>1. IsFiniteSet(Unfinished') BY <2>3, UnfinishedFinite, FS_Subset
      <3>. QED BY <3>1, FS_CardinalityType DEF Busy
    <2>. QED BY <1>b, <1>d, <2>1, <2>4, <2>5 DEF RunsBounded
  <1>. QED BY <1>1, <1>2 DEF RunsNext

(* Neither more reports than are kept, nor more at work than are let in: although a report is evicted before it *)
(* ends, and the pool goes on with it.                                                                           *)
THEOREM RunsAreBounded == RunsSpec => []RunsBounded
  <1> DEFINE Inv == RunsTyped /\ RunsRight /\ RunsBounded
  <1>1. RunsInit => Inv
    <2> SUFFICES ASSUME RunsInit PROVE RunsBounded BY RunsStart
    <2>1. Len(table) = 0 /\ Unfinished = {} BY DEF RunsInit, Unfinished, Range
    <2>2. Busy = 0 BY <2>1, FS_EmptySet DEF Busy
    <2>. QED BY <2>1, <2>2, RunsAssumption DEF RunsBounded
  <1>2. Inv /\ [RunsNext]_runsVars => Inv'
    <2>1. CASE RunsNext BY <2>1, RunsStep, BoundStep
    <2>2. CASE UNCHANGED runsVars
      BY <2>2 DEF runsVars, RunsTyped, RunsRight, ReportRight, RunsBounded, Busy, Unfinished, Range
    <2>. QED BY <2>1, <2>2
  <1>3. Inv => RunsBounded OBVIOUS
  <1> HIDE DEF Inv
  <1>. QED BY <1>1, <1>2, <1>3, PTL DEF RunsSpec
==============================================================================
