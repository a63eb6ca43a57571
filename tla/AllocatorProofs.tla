--------------------------- MODULE AllocatorProofs ----------------------------
(***************************************************************************)
(* What the allocator can be relied on for, for any length of a block, any *)
(* prices and any bookings: the facts about starts and about the load of a *)
(* block that the proofs of its users rest on, the safety of waiting, and  *)
(* that the start it returns is the best there is.                         *)
(***************************************************************************)
EXTENDS Allocator, TLAPS, FiniteSetTheorems, WellFoundedInduction

-----------------------------------------------------------------------------
(* Numbers *)

(* A finite set of integers has a greatest element: the one with the fewest above it. *)
LEMMA GreatestExists ==
    ASSUME NEW T \in SUBSET Int, IsFiniteSet(T), T # {}
    PROVE  \E x \in T : \A y \in T : y <= x
  <1> DEFINE Above(x) == {y \in T : x < y}
             R == StrictSubsetOrdering(T)
             Sets == {Above(x) : x \in T}
  <1>1. IsWellFoundedOn(R, FiniteSubsetsOf(T)) BY FS_StrictSubsetOrderingWellFounded
  <1>2. Sets \subseteq FiniteSubsetsOf(T) /\ Sets # {}
    <2>1. FiniteSubsetsOf(T) = SUBSET T BY FS_FiniteSubsetsOfFinite
    <2>2. Sets \subseteq SUBSET T OBVIOUS
    <2>3. Sets # {} OBVIOUS
    <2> HIDE DEF Sets
    <2>. QED BY <2>1, <2>2, <2>3
  <1>3. \E U \in Sets : \A V \in Sets : ~(<<V, U>> \in R)
    <2> HIDE DEF Sets, R
    <2>. QED BY <1>1, <1>2, WFMin
  <1>4. PICK x \in T : \A y \in T : ~(<<Above(y), Above(x)>> \in R) BY <1>3
  <1>5. ASSUME NEW y \in T, x < y PROVE FALSE
    <2>0. x \in Int /\ y \in Int OBVIOUS
    <2>1. \A z \in T : y < z => x < z BY <1>5, <2>0
    <2>2. Above(y) \subseteq Above(x) BY <2>1
    <2>3. y \in Above(x) /\ y \notin Above(y) BY <1>5, <2>0
    <2>. QED BY <1>4, <2>2, <2>3 DEF StrictSubsetOrdering
  <1>. QED BY <1>5

LEMMA MaxIs ==
    ASSUME NEW T \in SUBSET Int, IsFiniteSet(T), T # {}
    PROVE  Max(T) \in T /\ \A y \in T : y <= Max(T)
  <1>1. \E x \in T : \A y \in T : x >= y BY GreatestExists
  <1>. QED BY <1>1 DEF Max

LEMMA LeastExists ==
    ASSUME NEW T \in SUBSET Nat, T # {}
    PROVE  \E n \in T : \A m \in T : n <= m
  <1>1. PICK top \in T : TRUE OBVIOUS
  <1> DEFINE N == {m \in (0 - top) .. 0 : 0 - m \in T}
  <1>2. top \in Nat /\ 0 - top \in Int /\ 0 \in Int OBVIOUS
  <1>3. IsFiniteSet(N)
    <2>1. IsFiniteSet((0 - top) .. 0) BY <1>2, FS_Interval
    <2>. QED BY <2>1, FS_Subset
  <1>4. N \in SUBSET Int /\ 0 - top \in N BY <1>2
  <1>5. PICK m \in N : \A k \in N : k <= m
    <2> HIDE DEF N
    <2>. QED BY <1>3, <1>4, GreatestExists
  <1>6. 0 - m \in T /\ m \in Int /\ 0 - top <= m BY <1>2
  <1>7. ASSUME NEW k \in T PROVE 0 - m <= k
    <2>1. k \in Nat OBVIOUS
    <2>2. CASE k <= top
      <3>1. 0 - k \in (0 - top) .. 0 /\ 0 - (0 - k) = k BY <1>2, <2>1, <2>2
      <3>2. 0 - k \in N BY <3>1
      <3>3. 0 - k <= m BY <1>5, <3>2
      <3>. QED BY <1>6, <2>1, <3>3
    <2>3. CASE k > top BY <1>2, <1>6, <2>1, <2>3
    <2>. QED BY <1>2, <2>1, <2>2, <2>3
  <1>. QED BY <1>6, <1>7

-----------------------------------------------------------------------------
(* Functions that are defined one number after the other: F[r][f] is the value at r of the function whose values  *)
(* before r are those of f.                                                                                        *)

Stepwise(R, S, F) ==
    /\ \A r \in R, f \in [R -> S] : F[r][f] \in S
    /\ \A r \in R, f, g \in [R -> S] : (\A i \in R : i < r => f[i] = g[i]) => F[r][f] = F[r][g]

(* Right up to n. *)
RightTo(R, F, f, n) == \A r \in R : r <= n => f[r] = F[r][f]

LEMMA SameSoFar ==
    ASSUME NEW R \in SUBSET Nat, NEW S, NEW F, Stepwise(R, S, F), NEW f \in [R -> S], NEW g \in [R -> S],
           NEW n \in Nat, RightTo(R, F, f, n), RightTo(R, F, g, n)
    PROVE  \A r \in R : r <= n => f[r] = g[r]
  <1> DEFINE D == {r \in R : r <= n /\ f[r] # g[r]}
  <1> SUFFICES ASSUME D # {} PROVE FALSE OBVIOUS
  <1>1. PICK r \in D : \A m \in D : r <= m
    <2>1. D \in SUBSET Nat OBVIOUS
    <2> HIDE DEF D
    <2>. QED BY <2>1, LeastExists
  <1>2. r \in R /\ r <= n /\ r \in Nat /\ f[r] # g[r] OBVIOUS
  <1>3. \A i \in R : i < r => f[i] = g[i]
    <2> SUFFICES ASSUME NEW i \in R, i < r, f[i] # g[i] PROVE FALSE OBVIOUS
    <2>1. i \in Nat /\ i <= n BY <1>2
    <2>2. i \in D BY <2>1
    <2>. QED BY <1>1, <1>2, <2>1, <2>2
  <1>4. F[r][f] = F[r][g] BY <1>2, <1>3 DEF Stepwise
  <1>. QED BY <1>2, <1>4 DEF RightTo

LEMMA OnlyOne ==
    ASSUME NEW R \in SUBSET Nat, NEW S, NEW F, Stepwise(R, S, F), NEW f \in [R -> S], NEW g \in [R -> S],
           \A r \in R : f[r] = F[r][f], \A r \in R : g[r] = F[r][g]
    PROVE  f = g
  <1>1. ASSUME NEW r \in R PROVE f[r] = g[r]
    <2>1. r \in Nat /\ RightTo(R, F, f, r) /\ RightTo(R, F, g, r) BY DEF RightTo
    <2>. QED BY <2>1, SameSoFar
  <1>2. f = [r \in R |-> f[r]] /\ g = [r \in R |-> g[r]] OBVIOUS
  <1>. QED BY <1>1, <1>2, Zenon

(* Up to r, h is put together from functions that are right up to their number. *)
Together(R, S, F, h, part, r) ==
    \A i \in R : i <= r => part[i] \in [R -> S] /\ RightTo(R, F, part[i], i) /\ h[i] = part[i][i]

LEMMA PutTogether ==
    ASSUME NEW R \in SUBSET Nat, NEW S, NEW F, Stepwise(R, S, F), NEW h \in [R -> S], NEW part, NEW r \in R,
           Together(R, S, F, h, part, r)
    PROVE  h[r] = F[r][h]
  <1> DEFINE f == part[r]
  <1>0. \A i \in R : i \in Nat OBVIOUS
  <1>1. f \in [R -> S] /\ RightTo(R, F, f, r) /\ h[r] = f[r] BY <1>0 DEF Together
  <1>2. ASSUME NEW i \in R, i < r PROVE f[i] = h[i]
    <2>1. i <= r BY <1>0, <1>2
    <2>2. part[i] \in [R -> S] /\ RightTo(R, F, part[i], i) /\ h[i] = part[i][i] BY <2>1 DEF Together
    <2> HIDE DEF f
    <2>3. RightTo(R, F, f, i)
      <3>1. \A q \in R : q <= i => q <= r BY <1>0, <1>2
      <3>. QED BY <1>1, <3>1 DEF RightTo
    <2>4. f[i] = part[i][i] BY <1>0, <1>1, <2>2, <2>3, SameSoFar
    <2>. QED BY <2>2, <2>4
  <1> HIDE DEF f
  <1>3. F[r][f] = F[r][h] BY <1>1, <1>2 DEF Stepwise
  <1>4. f[r] = F[r][f] BY <1>0, <1>1 DEF RightTo
  <1>. QED BY <1>1, <1>3, <1>4

(* There is such a function: a recursive definition of this shape means what it says. *)
LEMMA ThereIsOne ==
    ASSUME NEW R \in SUBSET Nat, NEW S, S # {}, NEW F, Stepwise(R, S, F)
    PROVE  \E f \in [R -> S] : \A r \in R : f[r] = F[r][f]
  <1> DEFINE Upto(n) == {f \in [R -> S] : RightTo(R, F, f, n)}
             part == [n \in Nat |-> CHOOSE f \in Upto(n) : TRUE]
             Bad == {n \in Nat : Upto(n) = {}}
  <1>1. PICK s \in S : TRUE OBVIOUS
  <1>2. \A n \in Nat \ Bad : part[n] \in [R -> S] /\ RightTo(R, F, part[n], n)
    <2> SUFFICES ASSUME NEW n \in Nat \ Bad PROVE part[n] \in Upto(n) OBVIOUS
    <2>1. Upto(n) # {} OBVIOUS
    <2> HIDE DEF Upto, Bad
    <2>. QED BY <2>1
  <1>3. ASSUME Bad # {} PROVE FALSE
    <2>1. PICK n \in Bad : \A m \in Bad : n <= m
      <3>1. Bad \in SUBSET Nat OBVIOUS
      <3> HIDE DEF Bad
      <3>. QED BY <1>3, <3>1, LeastExists
    <2>n. n \in Nat OBVIOUS
    <2>2. \A m \in Nat : m < n => m \in Nat \ Bad BY <2>1, <2>n
    <2> DEFINE h == [r \in R |-> IF r < n THEN part[r][r] ELSE s]
               g == [h EXCEPT ![n] = F[n][h]]
    <2> HIDE DEF part, Bad
    <2>3. h \in [R -> S] BY <1>1, <1>2, <2>2
    <2>4. ASSUME NEW r \in R, r < n PROVE h[r] = F[r][h]
      <3>1. Together(R, S, F, h, part, r)
        <4> SUFFICES ASSUME NEW i \in R, i <= r PROVE i \in Nat \ Bad /\ i < n BY <1>2 DEF Together
        <4>1. i \in Nat /\ r \in Nat OBVIOUS
        <4>. QED BY <2>2, <2>4, <2>n, <4>1
      <3> HIDE DEF h
      <3>. QED BY <2>3, <3>1, PutTogether
    <2> HIDE DEF h
    <2>5. g \in [R -> S] BY <2>3 DEF Stepwise
    <2>6. \A i \in R : i < n => g[i] = h[i] BY <2>3, <2>n
    <2>7. ASSUME NEW r \in R, r <= n PROVE g[r] = F[r][g]
      <3>0. \A i \in R : i \in Nat OBVIOUS
      <3>1. F[r][g] = F[r][h]
        <4>1. \A i \in R : i < r => i < n BY <2>7, <2>n, <3>0
        <4> HIDE DEF g
        <4>. QED BY <2>3, <2>5, <2>6, <4>1 DEF Stepwise
      <3>2. CASE r = n BY <2>3, <3>1, <3>2
      <3>3. CASE r < n BY <2>4, <2>6, <3>1, <3>3
      <3>. QED BY <2>7, <2>n, <3>0, <3>2, <3>3
    <2>8. g \in Upto(n) BY <2>5, <2>7 DEF RightTo
    <2>. QED BY <2>8 DEF Bad
  <1> DEFINE h == [r \in R |-> part[r][r]]
  <1>4. \A r \in R : r \in Nat \ Bad BY <1>3
  <1> HIDE DEF part, Bad
  <1>5. h \in [R -> S] BY <1>2, <1>4
  <1>6. ASSUME NEW r \in R PROVE h[r] = F[r][h]
    <2>1. Together(R, S, F, h, part, r) BY <1>2, <1>4 DEF Together
    <2> HIDE DEF h
    <2>. QED BY <1>5, <2>1, PutTogether
  <1>. QED BY <1>5, <1>6

-----------------------------------------------------------------------------
(* A union has no more elements than its parts together. *)
LEMMA UnionBound ==
    ASSUME NEW A, NEW B, IsFiniteSet(A), IsFiniteSet(B), NEW S \in SUBSET (A \cup B)
    PROVE  Cardinality(S) <= Cardinality(A) + Cardinality(B)
  <1>1. IsFiniteSet(A \cup B) /\ Cardinality(A \cup B) = Cardinality(A) + Cardinality(B) - Cardinality(A \cap B)
    BY FS_Union
  <1>2. IsFiniteSet(A \cap B) BY FS_Intersection
  <1>3. Cardinality(S) <= Cardinality(A \cup B) BY <1>1, FS_Subset
  <1>4. /\ IsFiniteSet(S) /\ Cardinality(S) \in Nat /\ Cardinality(A) \in Nat /\ Cardinality(B) \in Nat
        /\ Cardinality(A \cap B) \in Nat
    BY <1>1, <1>2, FS_Subset, FS_CardinalityType
  <1>. QED BY <1>1, <1>3, <1>4

LEMMA BlockNumber ==
    ASSUME NEW t \in Int
    PROVE  /\ t \div BLOCK_MIN \in Int /\ t % BLOCK_MIN \in 0 .. BLOCK_MIN - 1
           /\ t = (BLOCK_MIN * (t \div BLOCK_MIN)) + (t % BLOCK_MIN)
           /\ floor_block(t) \in Int /\ floor_block(t) <= t /\ t < floor_block(t) + BLOCK_MIN
           /\ floor_block(t) = BLOCK_MIN * (t \div BLOCK_MIN)
  BY AllocatorAssumption DEF floor_block

(* Blocks are at least their length apart. *)
LEMMA MultiplesApart ==
    ASSUME NEW p \in Int, NEW q \in Int, BLOCK_MIN * p < (BLOCK_MIN * q) + BLOCK_MIN
    PROVE  p <= q /\ BLOCK_MIN * p <= BLOCK_MIN * q
  BY AllocatorAssumption

LEMMA IsFloor ==
    ASSUME NEW q \in Int, NEW r \in 0 .. BLOCK_MIN - 1
    PROVE  floor_block((BLOCK_MIN * q) + r) = BLOCK_MIN * q
  <1> DEFINE b == BLOCK_MIN * q
  <1>1. b \in Int /\ (b + r) % BLOCK_MIN = r BY AllocatorAssumption
  <1> HIDE DEF b
  <1>2. floor_block(b + r) = b BY <1>1, AllocatorAssumption DEF floor_block
  <1>. QED BY <1>2 DEF b

LEMMA BlockIs ==
    ASSUME NEW b \in Blocks
    PROVE  b \in Int /\ 0 <= b /\ b <= Horizon /\ \E q \in Int : b = BLOCK_MIN * q
  <1>1. b \in Int /\ 0 <= b /\ b <= Horizon /\ floor_block(b) = b BY AllocatorAssumption DEF Blocks, Minute
  <1>2. b = BLOCK_MIN * (b \div BLOCK_MIN) /\ b \div BLOCK_MIN \in Int BY <1>1, BlockNumber
  <1>. QED BY <1>1, <1>2

(* A block that begins before another one ends, begins no later. *)
LEMMA BlocksApart ==
    ASSUME NEW b \in Int, NEW c \in Int, NEW p \in Int, NEW q \in Int, b = BLOCK_MIN * p, c = BLOCK_MIN * q,
           b < c + BLOCK_MIN
    PROVE  b <= c
  BY MultiplesApart

(* From any minute on, a start with a given offset comes within the length of a block. *)
LEMMA NextStart ==
    ASSUME NEW jitter \in 0 .. BLOCK_MIN - 1, NEW from \in Int
    PROVE  \E q \in Int : from <= (BLOCK_MIN * q) + jitter /\ (BLOCK_MIN * q) + jitter < from + BLOCK_MIN
  <1> DEFINE q0 == (from - jitter) \div BLOCK_MIN
             b == BLOCK_MIN * q0
  <1>1. q0 \in Int /\ b \in Int /\ b <= from - jitter /\ from - jitter < b + BLOCK_MIN
    <2>1. from - jitter \in Int BY AllocatorAssumption
    <2>2. floor_block(from - jitter) = b BY <2>1, BlockNumber
    <2>. QED BY <2>1, <2>2, BlockNumber
  <1>2. BLOCK_MIN * (q0 + 1) = b + BLOCK_MIN
    <2> HIDE DEF q0
    <2>. QED BY <1>1, AllocatorAssumption DEF b
  <1>3. CASE b + jitter >= from
    <2>1. b + jitter < from + BLOCK_MIN
      <3> HIDE DEF b
      <3>. QED BY <1>1, AllocatorAssumption
    <2>. QED BY <1>1, <1>3, <2>1
  <1>4. CASE b + jitter < from
    <2>1. from <= (b + BLOCK_MIN) + jitter /\ (b + BLOCK_MIN) + jitter < from + BLOCK_MIN
      <3> HIDE DEF b
      <3>. QED BY <1>1, <1>4, AllocatorAssumption
    <2>2. q0 + 1 \in Int BY <1>1
    <2> HIDE DEF b, q0
    <2>. QED BY <1>2, <2>1, <2>2
  <1> HIDE DEF b
  <1>. QED BY <1>1, <1>3, <1>4, AllocatorAssumption

-----------------------------------------------------------------------------
(* Starts *)

(* What allocate returns is one of the starts it compares. *)
LEMMA AllocateIn ==
    ASSUME NEW jitter, NEW dur, NEW earliest, NEW deadline, NEW r, NEW ledger, NEW cap, NEW weight,
           allocate(jitter, dur, earliest, deadline, r, ledger, cap, weight) # NoStart
    PROVE  allocate(jitter, dur, earliest, deadline, r, ledger, cap, weight)
              \in Starts(jitter, dur, earliest, deadline, r, ledger, cap, weight)
  <1> DEFINE starts == Starts(jitter, dur, earliest, deadline, r, ledger, cap, weight)
             best == {s \in starts : \A t \in starts : Better(r, dur, s, t)}
  <1>1. best # {} BY DEF allocate
  <1>2. (CHOOSE s \in best : TRUE) \in best BY <1>1
  <1>3. allocate(jitter, dur, earliest, deadline, r, ledger, cap, weight) = CHOOSE s \in best : TRUE BY <1>1 DEF allocate
  <1> HIDE DEF starts
  <1>. QED BY <1>2, <1>3 DEF starts

LEMMA AllocateInTime ==
    ASSUME NEW jitter, NEW dur, NEW earliest, NEW deadline, NEW r, NEW ledger, NEW cap, NEW weight, NEW start,
           start = allocate(jitter, dur, earliest, deadline, r, ledger, cap, weight), start # NoStart
    PROVE  start + dur <= deadline
  BY AllocateIn DEF Starts

LEMMA AllocateTyped ==
    ASSUME NEW jitter \in Nat, NEW dur \in Nat, NEW earliest \in Nat, NEW deadline \in Minute, NEW r, DOMAIN r \subseteq Blocks,
           NEW ledger, NEW cap, NEW weight
    PROVE  allocate(jitter, dur, earliest, deadline, r, ledger, cap, weight) \in MaybeMinute
  <1> DEFINE start == allocate(jitter, dur, earliest, deadline, r, ledger, cap, weight)
  <1> SUFFICES ASSUME start # NoStart PROVE start \in Minute BY DEF MaybeMinute
  <1>1. start \in Starts(jitter, dur, earliest, deadline, r, ledger, cap, weight) BY AllocateIn
  <1> HIDE DEF start
  <1>2. PICK b \in DOMAIN r : start = b + jitter BY <1>1 DEF Starts
  <1>3. earliest <= start /\ start + dur <= deadline BY <1>1 DEF Starts
  <1>4. start \in Int BY <1>2 DEF Blocks, Minute
  <1>. QED BY <1>3, <1>4, AllocatorAssumption DEF Minute

(* A job that is told to wait can still be placed at the next re-plan, too late for that one to be moved into the  *)
(* freeze margin, though no price has been added: for blocks, margins, jobs, deadlines and prices of any size, as  *)
(* long as no block is missing between two that are priced.                                                        *)
THEOREM WaitingIsSafe ==
    ASSUME NEW rate, DOMAIN rate \subseteq Blocks, Contiguous(rate), NEW jitter \in 0 .. BLOCK_MIN - 1,
           NEW dur \in Nat \ {0}, NEW deadline \in Int, NEW t \in Int
    PROVE  WaitSafe(rate, jitter, dur, deadline, t)
  <1> DEFINE free == [b \in Blocks |-> 0]
             D(at) == DOMAIN PricesIn(rate, at, deadline)
             start == allocate(jitter, dur, t, deadline, PricesIn(rate, t, deadline), free, BLOCK_MIN, 1)
             last == Max(D(t))
  <1> SUFFICES ASSUME start # NoStart, wait_for_prices(PricesIn(rate, t, deadline), start, dur, deadline, t),
                      NEW next \in t .. t + REPLAN
               PROVE  \E s \in Starts(jitter, dur, next + FREEZE, deadline, PricesIn(rate, next, deadline), free,
                                       BLOCK_MIN, 1) : TRUE
    BY DEF WaitSafe
  <1>i. BLOCK_MIN \in Nat /\ BLOCK_MIN > 0 /\ FREEZE \in Nat /\ REPLAN \in Nat /\ next \in Int /\ t <= next /\ next <= t + REPLAN
    BY AllocatorAssumption
  <1>d. \A at : D(at) = {x \in DOMAIN rate : floor_block(at) <= x /\ x < deadline} BY DEF PricesIn
  <1>r. DOMAIN rate \subseteq Int /\ \A c \in Blocks : c \in Int BY BlockIs
  <1> HIDE DEF D
  <1>1. PICK first \in D(t) : /\ start = first + jitter /\ t <= start
                              /\ Spans(start, dur) \subseteq D(t)
    <2>1. start \in Starts(jitter, dur, t, deadline, PricesIn(rate, t, deadline), free, BLOCK_MIN, 1) BY AllocateIn
    <2> HIDE DEF start
    <2>. QED BY <2>1 DEF Starts, D
  <1> HIDE DEF start
  <1>2. first \in DOMAIN rate /\ first \in Int /\ start \in Int /\ first <= start BY <1>1, <1>d, <1>r
  <1>3. last \in D(t) /\ \A y \in D(t) : y <= last
    <2>1. D(t) \subseteq 0 .. Horizon BY <1>d, BlockIs
    <2>2. IsFiniteSet(D(t))
      <3>1. 0 \in Int /\ Horizon \in Int BY AllocatorAssumption
      <3>2. IsFiniteSet(0 .. Horizon) BY <3>1, FS_Interval
      <3>. QED BY <2>1, <3>2, FS_Subset
    <2>3. D(t) \in SUBSET Int BY <1>d, <1>r
    <2>. QED BY <1>1, <2>2, <2>3, MaxIs
  <1>4. last + BLOCK_MIN < deadline /\ start <= (t + FREEZE) + REPLAN
        /\ t < (((last + BLOCK_MIN) - dur) - (FREEZE + REPLAN)) - BLOCK_MIN
    <2>1. priced_to(PricesIn(rate, t, deadline), t) = last + BLOCK_MIN BY <1>1 DEF priced_to, D
    <2> HIDE DEF last
    <2>. QED BY <2>1 DEF wait_for_prices
  <1> HIDE DEF last
  <1>5. last \in DOMAIN rate /\ last \in Int BY <1>3, <1>d, <1>r
  <1> DEFINE from == Latest(next + FREEZE, start)
  <1>6. from \in Int /\ next + FREEZE <= from /\ start <= from /\ from <= (t + FREEZE) + REPLAN
    BY <1>2, <1>4, <1>i DEF Latest
  <1> HIDE DEF from
  <1>7. PICK q \in Int : from <= (BLOCK_MIN * q) + jitter /\ (BLOCK_MIN * q) + jitter < from + BLOCK_MIN
    BY <1>6, NextStart
  <1> DEFINE b == BLOCK_MIN * q
             s == b + jitter
  <1>8. b \in Int /\ from <= s /\ s < from + BLOCK_MIN /\ b <= s /\ s < b + BLOCK_MIN BY <1>7, <1>i
  <1>q. \E p \in Int : b = BLOCK_MIN * p OBVIOUS
  <1> HIDE DEF b
  <1>9. s \in Int /\ start <= s /\ next + FREEZE <= s /\ s + dur < last + BLOCK_MIN /\ s + dur <= deadline
    BY <1>2, <1>4, <1>5, <1>6, <1>8, <1>i
  <1> HIDE DEF s
  <1>10. ASSUME NEW c \in Int, \E p \in Int : c = BLOCK_MIN * p, c < s + dur, s < c + BLOCK_MIN PROVE first <= c /\ c <= last
    <2>1. first < c + BLOCK_MIN /\ c < last + BLOCK_MIN BY <1>2, <1>5, <1>9, <1>10, <1>i
    <2>2. (\E p \in Int : first = BLOCK_MIN * p) /\ (\E p \in Int : last = BLOCK_MIN * p) BY <1>2, <1>5, BlockIs
    <2>. QED BY <1>2, <1>5, <1>10, <2>1, <2>2, BlocksApart
  <1>11. Spans(s, dur) \subseteq D(next)
    <2> SUFFICES ASSUME NEW c \in Spans(s, dur) PROVE c \in DOMAIN rate /\ floor_block(next) <= c /\ c < deadline
      BY <1>d
    <2>1. c \in Blocks /\ c < s + dur /\ s < c + BLOCK_MIN BY DEF Spans
    <2>2. c \in Int /\ \E p \in Int : c = BLOCK_MIN * p BY <2>1, BlockIs
    <2>3. first <= c /\ c <= last BY <2>1, <2>2, <1>10
    <2>4. c \in DOMAIN rate BY <2>1, <2>3, <1>2, <1>5 DEF Contiguous
    <2>5. floor_block(next) <= c
      <3>1. floor_block(next) \in Int /\ floor_block(next) <= next /\ \E p \in Int : floor_block(next) = BLOCK_MIN * p
        BY <1>i, BlockNumber
      <3>2. floor_block(next) < c + BLOCK_MIN BY <1>9, <1>i, <2>1, <2>2, <3>1
      <3>. QED BY <2>2, <3>1, <3>2, BlocksApart
    <2>6. c < deadline BY <2>1, <2>2, <1>9, <1>i
    <2>. QED BY <2>4, <2>5, <2>6
  <1>12. b \in D(next)
    <2>1. first <= b /\ b <= last
      <3>1. b < s + dur BY <1>8, <1>9
      <3>. QED BY <1>8, <1>q, <3>1, <1>10
    <2>2. b \in Blocks
      <3>1. 0 <= first /\ last <= Horizon BY <1>2, <1>5, BlockIs
      <3>2. b \in Minute BY <1>2, <1>5, <1>8, <2>1, <3>1, AllocatorAssumption DEF Minute
      <3>3. floor_block(b) = b
        <4>1. PICK p \in Int : b = BLOCK_MIN * p BY <1>q
        <4>0. 0 \in 0 .. BLOCK_MIN - 1 BY <1>i
        <4>2. floor_block((BLOCK_MIN * p) + 0) = BLOCK_MIN * p BY <4>0, IsFloor
        <4>3. b + 0 = b BY <1>8
        <4>. QED BY <4>1, <4>2, <4>3
      <3>. QED BY <3>2, <3>3 DEF Blocks
    <2>3. b \in Spans(s, dur) BY <1>8, <1>9, <2>2 DEF Spans
    <2>. QED BY <2>3, <1>11
  <1>13. \A c \in Spans(s, dur) : free[c] + MinutesIn(c, s, dur) * 1 <= BLOCK_MIN
    BY <1>9, <1>i, <1>r DEF Spans, MinutesIn, Earliest, Latest
  <1>14. s \in Starts(jitter, dur, next + FREEZE, deadline, PricesIn(rate, next, deadline), free, BLOCK_MIN, 1)
    BY <1>9, <1>11, <1>12, <1>13 DEF Starts, D, s
  <1>. QED BY <1>14

-----------------------------------------------------------------------------
(* The load of a block *)

Bookable(k) == k.win \in Int /\ k.dur \in Nat /\ k.weight \in Nat
Bookables(S) == IsFiniteSet(S) /\ \A k \in S : Bookable(k)

(* What a booking takes of a block it runs in: its minutes there, times its weight; of others, nothing. *)
LEMMA UnitsAre ==
    ASSUME NEW k, Bookable(k), NEW b \in Blocks
    PROVE  /\ IsFiniteSet(Units(k, b))
           /\ b \in Spans(k.win, k.dur) => Cardinality(Units(k, b)) = MinutesIn(b, k.win, k.dur) * k.weight
           /\ b \notin Spans(k.win, k.dur) => Units(k, b) = {}
  <1> DEFINE lo == Latest(k.win, b)
             hi == Earliest(k.win + k.dur, b + BLOCK_MIN) - 1
             minutes == lo .. hi
             weights == 1 .. k.weight
  <1>i. k.win \in Int /\ k.dur \in Nat /\ k.weight \in Nat /\ b \in Int /\ BLOCK_MIN \in Nat /\ BLOCK_MIN > 0
    BY BlockIs, AllocatorAssumption DEF Bookable
  <1>1. lo \in Int /\ hi \in Int BY <1>i DEF Latest, Earliest
  <1>2. IsFiniteSet(minutes) /\ Cardinality(minutes) = IF lo > hi THEN 0 ELSE hi - lo + 1
    <2> HIDE DEF lo, hi
    <2>. QED BY <1>1, FS_Interval
  <1>3. IsFiniteSet(weights) /\ Cardinality(weights) = k.weight
    <2>0. 1 \in Int /\ k.weight \in Int BY <1>i
    <2>1. IsFiniteSet(1 .. k.weight) /\ Cardinality(1 .. k.weight) = IF 1 > k.weight THEN 0 ELSE k.weight - 1 + 1
      BY <2>0, FS_Interval
    <2>. QED BY <2>1, <1>i
  <1>4. IsFiniteSet({k}) /\ Cardinality({k}) = 1 BY FS_Singleton
  <1> HIDE DEF minutes, weights
  <1>5. IsFiniteSet(minutes \X weights) /\ Cardinality(minutes \X weights) = Cardinality(minutes) * Cardinality(weights)
    BY <1>2, <1>3, FS_Product
  <1>6. IsFiniteSet({k} \X (minutes \X weights))
        /\ Cardinality({k} \X (minutes \X weights)) = Cardinality({k}) * Cardinality(minutes \X weights)
    BY <1>4, <1>5, FS_Product
  <1>7. Units(k, b) = {k} \X (minutes \X weights) BY DEF Units, minutes, weights
  <1>8. ASSUME b \in Spans(k.win, k.dur) PROVE Cardinality(Units(k, b)) = MinutesIn(b, k.win, k.dur) * k.weight
    <2>1. b < k.win + k.dur /\ k.win < b + BLOCK_MIN BY <1>8 DEF Spans
    <2>2. k.dur > 0 \/ b < k.win BY <1>i, <2>1
    <2>3. lo <= hi + 1 /\ MinutesIn(b, k.win, k.dur) = (hi - lo) + 1
      BY <1>i, <2>1, <2>2 DEF Latest, Earliest, MinutesIn
    <2>4. Cardinality(minutes) = MinutesIn(b, k.win, k.dur) /\ Cardinality(minutes) \in Nat
      <3> HIDE DEF lo, hi
      <3>. QED BY <1>1, <1>2, <2>3
    <2>5. \A n, w \in Nat : 1 * (n * w) = n * w OBVIOUS
    <2>. QED BY <1>i, <1>3, <1>4, <1>5, <1>6, <1>7, <2>4, <2>5
  <1>9. ASSUME b \notin Spans(k.win, k.dur) PROVE Units(k, b) = {}
    <2>1. b >= k.win + k.dur \/ k.win >= b + BLOCK_MIN BY <1>i, <1>9 DEF Spans
    <2>2. lo > hi BY <1>i, <2>1 DEF Latest, Earliest
    <2>3. minutes = {} BY <1>1, <2>2 DEF minutes
    <2>. QED BY <1>7, <2>3
  <1>. QED BY <1>6, <1>7, <1>8, <1>9

LEMMA LoadFinite ==
    ASSUME NEW S, Bookables(S), NEW b \in Blocks
    PROVE  IsFiniteSet(UNION {Units(k, b) : k \in S}) /\ Load(S, b) \in Nat
  <1> DEFINE T == {Units(k, b) : k \in S}
             f == [k \in S |-> Units(k, b)]
  <1>1. f \in Surjection(S, T) BY DEF Surjection
  <1>2. IsFiniteSet(T)
    <2> HIDE DEF T, f
    <2>. QED BY <1>1, FS_Surjection DEF Bookables
  <1>3. \A U \in T : IsFiniteSet(U) BY UnitsAre DEF Bookables
  <1> HIDE DEF T
  <1>4. IsFiniteSet(UNION T) BY <1>2, <1>3, FS_UNION
  <1>. QED BY <1>4, FS_CardinalityType DEF T, Load

(* Only the bookings that run in a block count there. *)
LEMMA LoadWithin ==
    ASSUME NEW S, Bookables(S), NEW T, Bookables(T), NEW b \in Blocks,
           \A k \in S : b \in Spans(k.win, k.dur) => k \in T
    PROVE  Load(S, b) <= Load(T, b)
  <1>1. UNION {Units(k, b) : k \in S} \subseteq UNION {Units(k, b) : k \in T}
    <2>1. \A k \in S : k \in T \/ Units(k, b) = {} BY UnitsAre DEF Bookables
    <2>. QED BY <2>1
  <1>. QED BY <1>1, LoadFinite, FS_Subset DEF Load

(* One booking more adds its minutes there, times its weight. *)
LEMMA LoadAdded ==
    ASSUME NEW S, Bookables(S), NEW T, Bookables(T), NEW b \in Blocks, NEW k, Bookable(k), b \in Spans(k.win, k.dur),
           \A i \in S : b \in Spans(i.win, i.dur) => i \in T \/ i = k
    PROVE  Load(S, b) <= Load(T, b) + MinutesIn(b, k.win, k.dur) * k.weight
  <1> DEFINE all == UNION {Units(i, b) : i \in S}
             old == UNION {Units(i, b) : i \in T}
             new == Units(k, b)
  <1>1. all \subseteq old \cup new
    <2>1. \A i \in S : i \in T \/ i = k \/ Units(i, b) = {} BY UnitsAre DEF Bookables
    <2>. QED BY <2>1
  <1>2. IsFiniteSet(old) /\ IsFiniteSet(new) /\ Cardinality(new) = MinutesIn(b, k.win, k.dur) * k.weight
    BY LoadFinite, UnitsAre
  <1>3. Load(S, b) = Cardinality(all) /\ Load(T, b) = Cardinality(old) BY DEF Load
  <1> HIDE DEF all, old, new
  <1>4. Cardinality(all) <= Cardinality(old) + Cardinality(new) BY <1>1, <1>2, UnionBound
  <1>. QED BY <1>2, <1>3, <1>4

(* Bookings made one after the other, each where there was room for it beside those before it, and beside those  *)
(* made already, do not exceed the cap together: the last of them in a block saw all the others there.           *)
LEMMA LastBooked ==
    ASSUME NEW P, Bookables(P), NEW S, Bookables(S), NEW b \in Blocks, NEW cap \in Int, Load(P, b) <= cap,
           \A k \in S : k.job \in Int, \A k, i \in S : k.job = i.job => k = i,
           \A k \in S : b \in Spans(k.win, k.dur) =>
                Load(P \cup {i \in S : i.job < k.job}, b) + MinutesIn(b, k.win, k.dur) * k.weight <= cap
    PROVE  Load(P \cup S, b) <= cap
  <1> DEFINE here == {k \in S : b \in Spans(k.win, k.dur)}
             jobs == {k.job : k \in here}
             earlier(k) == {i \in S : i.job < k.job}
  <1>f. Bookables(P \cup S) /\ \A k \in S : Bookables(P \cup earlier(k))
    <2>1. IsFiniteSet(P \cup S) BY FS_Union DEF Bookables
    <2>2. \A k \in S : P \cup earlier(k) \subseteq P \cup S OBVIOUS
    <2>. QED BY <2>1, <2>2, FS_Subset DEF Bookables
  <1>n. Load(P, b) \in Nat /\ Load(P \cup S, b) \in Nat BY <1>f, LoadFinite
  <1>1. CASE here = {}
    <2>1. Load(P \cup S, b) <= Load(P, b) BY <1>1, <1>f, LoadWithin
    <2>. QED BY <2>1, <1>n
  <1>2. CASE here # {}
    <2>1. jobs \in SUBSET Int /\ jobs # {} BY <1>2
    <2>2. IsFiniteSet(jobs)
      <3> DEFINE f == [k \in here |-> k.job]
      <3>1. f \in Surjection(here, jobs) BY DEF Surjection
      <3>2. IsFiniteSet(here) BY FS_Subset DEF Bookables
      <3> HIDE DEF here, jobs, f
      <3>. QED BY <3>1, <3>2, FS_Surjection
    <2>3. \E n \in jobs : \A m \in jobs : m <= n
      <3> HIDE DEF jobs
      <3>. QED BY <2>1, <2>2, GreatestExists
    <2>4. PICK k \in here : \A i \in here : i.job <= k.job BY <2>3
    <2>5. \A i \in P \cup S : b \in Spans(i.win, i.dur) => i \in P \cup earlier(k) \/ i = k
      <3> SUFFICES ASSUME NEW i \in S, b \in Spans(i.win, i.dur), i # k PROVE i.job < k.job OBVIOUS
      <3>1. i.job \in Int /\ k.job \in Int /\ i.job <= k.job /\ i.job # k.job BY <2>4
      <3>. QED BY <3>1
    <2>6. Load(P \cup S, b) <= Load(P \cup earlier(k), b) + MinutesIn(b, k.win, k.dur) * k.weight
      <3>1. k \in S /\ b \in Spans(k.win, k.dur) /\ Bookable(k) BY DEF Bookables
      <3> HIDE DEF earlier
      <3>. QED BY <1>f, <2>5, <3>1, LoadAdded
    <2>7. MinutesIn(b, k.win, k.dur) * k.weight \in Int /\ Load(P \cup earlier(k), b) \in Nat
      <3>1. k.win \in Int /\ k.dur \in Nat /\ k.weight \in Nat /\ b \in Int BY BlockIs DEF Bookables, Bookable
      <3>2. MinutesIn(b, k.win, k.dur) \in Int BY <3>1, AllocatorAssumption DEF MinutesIn, Earliest, Latest
      <3>3. Load(P \cup earlier(k), b) \in Nat BY <1>f, LoadFinite
      <3>. QED BY <3>1, <3>2, <3>3
    <2>8. Load(P \cup earlier(k), b) + MinutesIn(b, k.win, k.dur) * k.weight <= cap OBVIOUS
    <2> DEFINE more == MinutesIn(b, k.win, k.dur) * k.weight
    <2> HIDE DEF more, earlier
    <2>. QED BY <1>n, <2>6, <2>7, <2>8 DEF more
  <1>. QED BY <1>1, <1>2

-----------------------------------------------------------------------------
(* The best start *)

LEMMA BlocksFinite == IsFiniteSet(Blocks)
  <1>1. IsFiniteSet(Minute) BY FS_Interval, AllocatorAssumption DEF Minute
  <1>. QED BY <1>1, FS_Subset DEF Blocks

LEMMA RangeFinite ==
    ASSUME NEW S, IsFiniteSet(S), NEW f
    PROVE  IsFiniteSet({f[x] : x \in S})
  <1> DEFINE g == [x \in S |-> f[x]]
             T == {f[x] : x \in S}
  <1>1. g \in Surjection(S, T) BY DEF Surjection
  <1> HIDE DEF g, T
  <1>. QED BY <1>1, FS_Surjection DEF T

(* A sum over a finite set, one element after the other, is a number: it is defined by the number of elements. *)
SumStep(S, val, sum) ==
    [s \in SUBSET S |-> IF s = {} THEN 0 ELSE val[CHOOSE x \in s : TRUE] + sum[s \ {CHOOSE x \in s : TRUE}]]

LEMMA SumExists ==
    ASSUME NEW S, IsFiniteSet(S), NEW val \in [S -> Int]
    PROVE  \E sum \in [SUBSET S -> Int] : sum = SumStep(S, val, sum)
  <1> DEFINE Sums == [SUBSET S -> Int]
             Of(n, g) == [s \in SUBSET S |->
                             IF n = 0 \/ s = {} THEN 0
                             ELSE val[CHOOSE x \in s : TRUE] + g[n - 1][s \ {CHOOSE x \in s : TRUE}]]
             F == [n \in Nat |-> [g \in [Nat -> Sums] |-> Of(n, g)]]
  <1>1. \A s \in SUBSET S : s # {} => (CHOOSE x \in s : TRUE) \in s OBVIOUS
  <1>2. \A n \in Nat, g \in [Nat -> Sums] : Of(n, g) \in Sums
    <2> SUFFICES ASSUME NEW n \in Nat, NEW g \in [Nat -> Sums], NEW s \in SUBSET S, n # 0, s # {}
                 PROVE  val[CHOOSE x \in s : TRUE] + g[n - 1][s \ {CHOOSE x \in s : TRUE}] \in Int
      OBVIOUS
    <2>1. n - 1 \in Nat OBVIOUS
    <2>2. g[n - 1] \in Sums BY <2>1
    <2>3. val[CHOOSE x \in s : TRUE] \in Int BY <1>1
    <2>4. s \ {CHOOSE x \in s : TRUE} \in SUBSET S OBVIOUS
    <2>5. g[n - 1][s \ {CHOOSE x \in s : TRUE}] \in Int BY <2>2, <2>4
    <2>. QED BY <2>3, <2>5
  <1>3. Stepwise(Nat, Sums, F)
    <2>1. ASSUME NEW n \in Nat, NEW f \in [Nat -> Sums], NEW g \in [Nat -> Sums], \A i \in Nat : i < n => f[i] = g[i]
          PROVE  F[n][f] = F[n][g]
      <3>1. n # 0 => f[n - 1] = g[n - 1] BY <2>1
      <3>2. Of(n, f) = Of(n, g) BY <3>1
      <3>. QED BY <3>2
    <2>2. \A n \in Nat, g \in [Nat -> Sums] : F[n][g] \in Sums
      <3> HIDE DEF Of, Sums
      <3>. QED BY <1>2
    <2> HIDE DEF F, Sums
    <2>. QED BY <2>1, <2>2 DEF Stepwise
  <1>4. PICK g \in [Nat -> Sums] : \A n \in Nat : g[n] = F[n][g]
    <2>1. Sums # {} /\ Nat \in SUBSET Nat
      <3>1. [s \in SUBSET S |-> 0] \in Sums OBVIOUS
      <3>. QED BY <3>1
    <2> HIDE DEF F, Sums, Of
    <2>2. ASSUME NEW R, R = Nat PROVE \E g \in [R -> Sums] : \A n \in R : g[n] = F[n][g]
      <3>1. Stepwise(R, Sums, F) BY <1>3, <2>2
      <3>2. R \in SUBSET Nat BY <2>2
      <3>. QED BY <2>1, <3>1, <3>2, ThereIsOne
    <2>. QED BY <2>2
  <1>5. \A n \in Nat : g[n] = Of(n, g) /\ g[n] \in Sums
    <2> HIDE DEF Of, Sums
    <2>. QED BY <1>4
  <1> DEFINE sum == [s \in SUBSET S |-> g[Cardinality(s)][s]]
  <1>6. ASSUME NEW s \in SUBSET S PROVE IsFiniteSet(s) /\ Cardinality(s) \in Nat /\ (Cardinality(s) = 0 <=> s = {})
    BY FS_Subset, FS_CardinalityType, FS_EmptySet
  <1>7. sum \in [SUBSET S -> Int]
    <2>1. \A s \in SUBSET S : g[Cardinality(s)] \in [SUBSET S -> Int] BY <1>5, <1>6
    <2>. QED BY <2>1
  <1>8. ASSUME NEW s \in SUBSET S
        PROVE  sum[s] = IF s = {} THEN 0 ELSE val[CHOOSE x \in s : TRUE] + sum[s \ {CHOOSE x \in s : TRUE}]
    <2>1. g[Cardinality(s)] = Of(Cardinality(s), g) BY <1>5, <1>6
    <2>2. CASE s = {} BY <2>1, <2>2, <1>6
    <2>3. CASE s # {}
      <3> DEFINE x == CHOOSE x \in s : TRUE
      <3>1. x \in s BY <2>3
      <3>2. s \ {x} \in SUBSET S OBVIOUS
      <3>3. Cardinality(s \ {x}) = Cardinality(s) - 1 BY <1>6, <3>1, FS_RemoveElement
      <3>4. sum[s] = val[x] + g[Cardinality(s) - 1][s \ {x}] BY <2>1, <2>3, <1>6
      <3> HIDE DEF x
      <3>5. sum[s \ {x}] = g[Cardinality(s \ {x})][s \ {x}] BY <3>2
      <3>6. sum[s] = val[x] + sum[s \ {x}] BY <3>3, <3>4, <3>5
      <3>. QED BY <2>3, <3>6 DEF x
    <2>. QED BY <2>2, <2>3
  <1>9. sum = SumStep(S, val, sum)
    <2>1. sum = [s \in SUBSET S |-> sum[s]] OBVIOUS
    <2> HIDE DEF sum
    <2>. QED BY <1>8, <2>1 DEF SumStep
  <1>. QED BY <1>7, <1>9

LEMMA SumTyped ==
    ASSUME NEW S, IsFiniteSet(S), NEW val \in [S -> Int], NEW sum, sum = CHOOSE g : g = SumStep(S, val, g)
    PROVE  sum[S] \in Int
  <1>1. \E f : f = SumStep(S, val, f) BY SumExists
  <1>2. sum = SumStep(S, val, sum) BY <1>1
  <1>3. \A s \in SUBSET S : IsFiniteSet(s) /\ Cardinality(s) \in Nat BY FS_Subset, FS_CardinalityType
  <1> DEFINE Wrong == {s \in SUBSET S : sum[s] \notin Int}
             sizes == {Cardinality(s) : s \in Wrong}
  <1>4. ASSUME Wrong # {} PROVE FALSE
    <2>1. sizes \in SUBSET Nat /\ sizes # {} BY <1>3, <1>4
    <2>2. PICK n \in sizes : \A m \in sizes : n <= m
      <3> HIDE DEF sizes
      <3>. QED BY <2>1, LeastExists
    <2>3. PICK s \in Wrong : n = Cardinality(s) BY <2>2
    <2> DEFINE x == CHOOSE x \in s : TRUE
    <2>4. sum[s] = IF s = {} THEN 0 ELSE val[x] + sum[s \ {x}] BY <1>2, <2>3 DEF SumStep
    <2>5. s # {} /\ s \in SUBSET S /\ sum[s] \notin Int BY <2>3, <2>4
    <2>6. x \in s BY <2>5
    <2> HIDE DEF x
    <2>7. val[x] \in Int /\ sum[s \ {x}] \notin Int BY <2>4, <2>5, <2>6
    <2>8. s \ {x} \in Wrong BY <2>5, <2>7
    <2>9. Cardinality(s \ {x}) = n - 1 BY <1>3, <2>3, <2>5, <2>6, FS_RemoveElement
    <2>10. n - 1 \in sizes /\ n \in Nat BY <2>1, <2>2, <2>8, <2>9
    <2>. QED BY <2>2, <2>10
  <1>5. S \in SUBSET S OBVIOUS
  <1>. QED BY <1>4, <1>5

(* A bill is a number. *)
LEMMA CostTyped ==
    ASSUME NEW rate, NEW start \in Int, NEW dur \in Int, Spans(start, dur) \subseteq DOMAIN rate,
           \A b \in DOMAIN rate : rate[b] \in Int
    PROVE  Cost(rate, start, dur) \in Int
  <1> DEFINE S == Spans(start, dur)
             val == [b \in S |-> rate[b] * MinutesIn(b, start, dur)]
             sum == CHOOSE g : g = SumStep(S, val, g)
  <1>1. IsFiniteSet(S) BY BlocksFinite, FS_Subset DEF Spans
  <1>2. val \in [S -> Int]
    <2> SUFFICES ASSUME NEW b \in S PROVE rate[b] * MinutesIn(b, start, dur) \in Int OBVIOUS
    <2>1. rate[b] \in Int /\ b \in Int BY DEF Spans, Blocks, Minute
    <2>2. MinutesIn(b, start, dur) \in Int BY <2>1, AllocatorAssumption DEF MinutesIn, Earliest, Latest
    <2>. QED BY <2>1, <2>2
  <1>3. Cost(rate, start, dur) = sum[S]
    <2> DEFINE g1 == CHOOSE g : g = [s \in SUBSET S |-> IF s = {} THEN 0 ELSE
                        rate[CHOOSE x \in s : TRUE] * MinutesIn(CHOOSE x \in s : TRUE, start, dur) + g[s \ {CHOOSE x \in s : TRUE}]]
    <2>1. Cost(rate, start, dur) = g1[S] BY DEF Cost, MapThenSumSet, MapThenFoldSet
    <2>2. \A g : SumStep(S, val, g) = [s \in SUBSET S |-> IF s = {} THEN 0 ELSE
                        rate[CHOOSE x \in s : TRUE] * MinutesIn(CHOOSE x \in s : TRUE, start, dur) + g[s \ {CHOOSE x \in s : TRUE}]]
      <3> SUFFICES ASSUME NEW g, NEW s \in SUBSET S, s # {}
                   PROVE  val[CHOOSE x \in s : TRUE] = rate[CHOOSE x \in s : TRUE] * MinutesIn(CHOOSE x \in s : TRUE, start, dur)
        BY DEF SumStep
      <3>1. (CHOOSE x \in s : TRUE) \in S OBVIOUS
      <3>. QED BY <3>1
    <2>3. g1 = sum BY <2>2
    <2>. QED BY <2>1, <2>3
  <1> HIDE DEF S, val
  <1>. QED BY <1>1, <1>2, <1>3, SumTyped

(* Of finitely many things with an integer each, there is one with the least. *)
LEMMA LeastOf ==
    ASSUME NEW S, IsFiniteSet(S), S # {}, NEW f \in [S -> Int]
    PROVE  \E x \in S : \A y \in S : f[x] <= f[y]
  <1> DEFINE g == [x \in S |-> 0 - f[x]]
             T == {g[x] : x \in S}
  <1>1. IsFiniteSet(T)
    <2> HIDE DEF g
    <2>. QED BY RangeFinite
  <1>2. T \in SUBSET Int /\ T # {} OBVIOUS
  <1>3. PICK t \in T : \A u \in T : u <= t
    <2> HIDE DEF T
    <2>. QED BY <1>1, <1>2, GreatestExists
  <1>4. PICK x \in S : t = 0 - f[x] OBVIOUS
  <1>5. ASSUME NEW y \in S PROVE f[x] <= f[y]
    <2>1. 0 - f[y] <= 0 - f[x] BY <1>3, <1>4
    <2>. QED BY <2>1
  <1>. QED BY <1>5

(* allocate raises NoCapacityError only when no start fits; otherwise it returns the cheapest, and the earliest of  *)
(* those that cost the same: for blocks, prices, jitters, jobs, caps and bookings of any kind.                      *)
THEOREM AllocateFindsTheBest ==
    ASSUME NEW jitter \in Nat, NEW dur \in Nat, NEW earliest, NEW deadline, NEW ledger, NEW cap, NEW weight,
           NEW rate, DOMAIN rate \subseteq Blocks, \A b \in DOMAIN rate : rate[b] \in Int
    PROVE  LET starts == Starts(jitter, dur, earliest, deadline, rate, ledger, cap, weight)
               start == allocate(jitter, dur, earliest, deadline, rate, ledger, cap, weight)
           IN IF starts = {} THEN start = NoStart
              ELSE start \in starts /\ \A s \in starts : Better(rate, dur, start, s) /\ (Better(rate, dur, s, start) => s = start)
  <1> DEFINE starts == Starts(jitter, dur, earliest, deadline, rate, ledger, cap, weight)
             start == allocate(jitter, dur, earliest, deadline, rate, ledger, cap, weight)
             best == {s \in starts : \A t \in starts : Better(rate, dur, s, t)}
             cost == [s \in starts |-> Cost(rate, s, dur)]
  <1> SUFFICES IF starts = {} THEN start = NoStart
               ELSE start \in starts /\ \A s \in starts : Better(rate, dur, start, s) /\ (Better(rate, dur, s, start) => s = start)
    OBVIOUS
  <1>0. start = IF best = {} THEN NoStart ELSE CHOOSE s \in best : TRUE BY DEF allocate
  <1>1. starts \subseteq Int /\ \A s \in starts : Spans(s, dur) \subseteq DOMAIN rate BY DEF Starts, Blocks, Minute
  <1>2. IsFiniteSet(starts)
    <2> DEFINE f == [b \in DOMAIN rate |-> b + jitter]
               T == {f[b] : b \in DOMAIN rate}
    <2>1. IsFiniteSet(T)
      <3>1. IsFiniteSet(DOMAIN rate) BY BlocksFinite, FS_Subset
      <3> HIDE DEF f
      <3>. QED BY <3>1, RangeFinite
    <2>2. starts \subseteq T BY DEF Starts
    <2> HIDE DEF T, starts
    <2>. QED BY <2>1, <2>2, FS_Subset
  <1>3. \A s \in starts : Cost(rate, s, dur) \in Int
    <2>1. dur \in Int OBVIOUS
    <2> HIDE DEF starts
    <2>. QED BY <1>1, <2>1, CostTyped
  <1> HIDE DEF starts, start
  <1>4. CASE starts = {} BY <1>0, <1>4
  <1>5. CASE starts # {}
    <2>1. PICK c \in starts : \A t \in starts : cost[c] <= cost[t]
      <3>1. cost \in [starts -> Int] BY <1>3
      <3> HIDE DEF cost
      <3>. QED BY <1>2, <1>5, <3>1, LeastOf
    <2> DEFINE cheapest == {s \in starts : cost[s] = cost[c]}
    <2>2. PICK s \in cheapest : \A t \in cheapest : s <= t
      <3> DEFINE id == [s \in cheapest |-> s]
      <3>1. IsFiniteSet(cheapest) /\ cheapest # {} /\ id \in [cheapest -> Int] BY <1>1, <1>2, FS_Subset
      <3>2. \A x \in cheapest : id[x] = x OBVIOUS
      <3> HIDE DEF id, cheapest
      <3>. QED BY <3>1, <3>2, LeastOf
    <2>3. s \in best
      <3> SUFFICES ASSUME NEW t \in starts PROVE Better(rate, dur, s, t) OBVIOUS
      <3>1. cost[s] = cost[c] /\ cost[c] <= cost[t] BY <2>1
      <3>2. cost[t] = cost[c] => s <= t BY <2>2
      <3>. QED BY <1>3, <3>1, <3>2 DEF Better
    <2>4. start \in best BY <1>0, <2>3
    <2>5. ASSUME NEW t \in starts, Better(rate, dur, t, start) PROVE t = start
      <3>1. Better(rate, dur, start, t) /\ start \in starts BY <2>4
      <3>2. start \in Int /\ t \in Int BY <1>1, <3>1
      <3>. QED BY <1>3, <2>5, <3>1, <3>2 DEF Better
    <2>. QED BY <1>5, <2>4, <2>5
  <1>. QED BY <1>4, <1>5
=============================================================================
