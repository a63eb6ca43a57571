------------------------------ MODULE Allocator ------------------------------
(***************************************************************************)
(* The slot allocator and the bill, shared by the job service, the site    *)
(* planner and the backtests.  Pure: operators only.                       *)
(*                                                                         *)
(* Times are whole minutes.  A block is the minute it starts at; a ledger  *)
(* gives the minutes booked in every block; prices give a rate to the      *)
(* blocks that have one.  A cost is a sum of minutes times a rate: the     *)
(* code divides it by the job's length or multiplies it by its power, both *)
(* the same for every start of one job.                                    *)
(***************************************************************************)
EXTENDS Integers, FiniteSets, FiniteSetsExt

CONSTANTS
    BLOCK_MIN,   \* allocator.BLOCK_MIN
    Horizon,     \* the last minute of the instance; no job runs past it
    NoStart,     \* NoCapacityError; also a window that is not assigned
    FREEZE,      \* settings.freeze_minutes
    REPLAN       \* settings.replan_seconds, in minutes

ASSUME AllocatorAssumption ==
    BLOCK_MIN \in Nat \ {0} /\ Horizon \in Nat /\ NoStart \notin Int
    /\ FREEZE \in Nat /\ REPLAN \in Nat

Minute == 0 .. Horizon
MaybeMinute == Minute \cup {NoStart}
Latest(a, b) == IF a >= b THEN a ELSE b
Earliest(a, b) == IF a <= b THEN a ELSE b

floor_block(t) == t - (t % BLOCK_MIN)
Blocks == {b \in Minute : floor_block(b) = b}

(* overlaps: the blocks of a job that runs in [start, start + dur), and its minutes in each. *)
Spans(start, dur) == {b \in Blocks : b < start + dur /\ start < b + BLOCK_MIN}
MinutesIn(b, start, dur) == Earliest(start + dur, b + BLOCK_MIN) - Latest(start, b)

(* What a booking [job, win, dur, weight] takes of block b: its minutes there, as often as its weight. *)
Units(k, b) == {k} \X ((Latest(k.win, b) .. Earliest(k.win + k.dur, b + BLOCK_MIN) - 1) \X (1 .. k.weight))

(* What a set of bookings, as _book adds them up, takes of it. *)
Load(bookings, b) == Cardinality(UNION {Units(k, b) : k \in bookings})

(* The sum that bill_cost and allocate make of a job's minutes at the rate of their block. *)
Cost(rate, start, dur) == MapThenSumSet(LAMBDA b : rate[b] * MinutesIn(b, start, dur), Spans(start, dur))

(* PriceSignal rows a query for [from, to) gives. *)
PricesIn(rate, from, to) == [b \in {x \in DOMAIN rate : floor_block(from) <= x /\ x < to} |-> rate[b]]

(* The starts that allocate compares: in time, and every block priced and with room. *)
Starts(jitter, dur, earliest, deadline, rate, ledger, cap, weight) ==
    {s \in {b + jitter : b \in DOMAIN rate} :
        /\ earliest <= s /\ s + dur <= deadline
        /\ Spans(s, dur) \subseteq DOMAIN rate
        /\ \A b \in Spans(s, dur) : ledger[b] + MinutesIn(b, s, dur) * weight <= cap}

Better(rate, dur, s, t) ==
    \/ Cost(rate, s, dur) < Cost(rate, t, dur)
    \/ Cost(rate, s, dur) = Cost(rate, t, dur) /\ s <= t

(* allocate: the cheapest start, the earliest of those. *)
allocate(jitter, dur, earliest, deadline, rate, ledger, cap, weight) ==
    LET starts == Starts(jitter, dur, earliest, deadline, rate, ledger, cap, weight)
        best == {s \in starts : \A t \in starts : Better(rate, dur, s, t)}
    IN IF best = {} THEN NoStart ELSE CHOOSE s \in best : TRUE

priced_to(prices, t) == IF DOMAIN prices = {} THEN t ELSE Max(DOMAIN prices) + BLOCK_MIN

(* Mutant: the job's length is not kept. *)
wait_ignoring_length(prices, start, dur, deadline, t) ==
    /\ priced_to(prices, t) < deadline /\ start <= t + FREEZE + REPLAN
    /\ t < priced_to(prices, t) - (FREEZE + REPLAN) - BLOCK_MIN

(* wait_for_prices: a job stays queued, since the prices stop before its deadline and its best start is now. *)
wait_for_prices(prices, start, dur, deadline, t) ==
    /\ priced_to(prices, t) < deadline /\ start <= t + FREEZE + REPLAN
    /\ t < priced_to(prices, t) - dur - (FREEZE + REPLAN) - BLOCK_MIN

-----------------------------------------------------------------------------
(* No block is missing between two that are priced. *)
Contiguous(rate) == \A b, d \in DOMAIN rate, c \in Blocks : b <= c /\ c <= d => c \in DOMAIN rate

(* "a job never waits itself out of the only windows it has" (service.py:50): where one is told at t to   *)
(* wait, it can still be placed at the next re-plan, too late for that one to be moved into the freeze    *)
(* margin, though no price has been added.  Capacity apart: others may have booked what there was.        *)
WaitSafe(rate, jitter, dur, deadline, t) ==
    LET free == [b \in Blocks |-> 0]
        start(at) == allocate(jitter, dur, at, deadline, PricesIn(rate, at, deadline), free, BLOCK_MIN, 1)
    IN start(t) # NoStart /\ wait_for_prices(PricesIn(rate, t, deadline), start(t), dur, deadline, t)
       => \A next \in t .. t + REPLAN : \E s \in Starts(jitter, dur, next + FREEZE, deadline,
                                                     PricesIn(rate, next, deadline), free, BLOCK_MIN, 1) : TRUE
=============================================================================
