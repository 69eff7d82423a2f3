---------------------------- MODULE SlidingWindow ----------------------------
(***************************************************************************)
(* SlidingWindowCounter (src/budget/sliding_window.rs): a rolling-window    *)
(* token counter kept in two atomic words, each packing a u32 bucket index  *)
(* with a u32 count, and updated without locks by any number of threads.    *)
(*                                                                          *)
(* Every access to an atomic word is one action; what a thread computes     *)
(* between two accesses is part of the first of them.  A bucket index is a  *)
(* number modulo IndexMod (2^32 in the code) and indices are compared as    *)
(* serial numbers, as is_ahead does.                                        *)
(***************************************************************************)
EXTENDS Integers

CONSTANTS Threads,    \* threads calling add and estimate
          Times,      \* now_ms values a caller may pass
          Amounts,    \* amounts a caller may pass to add
          Window,     \* window_ms
          HalfIndex,  \* half the range of a bucket index: 2^31 in the code
          CountMax    \* the largest count a slot holds: u32::MAX in the code

ASSUME ConstantsOK == /\ Times \subseteq Nat
                      /\ Amounts \subseteq Nat
                      /\ Window \in Nat \ {0}
                      /\ HalfIndex \in Nat /\ HalfIndex >= 3
                      /\ CountMax \in Nat \ {0}

VARIABLES current,    \* the slot of the newest bucket
          previous,   \* the slot of the bucket before it
          pc,         \* pc[t]: the atomic access t performs next
          arg,        \* arg[t]: now_ms and amount of t's call
          word,       \* word[t]: the slot value t has loaded last
          carry       \* carry[t]: what t merges into previous

locals == <<pc, arg, word, carry>>
vars == <<current, previous, pc, arg, word, carry>>

IndexMod == 2 * HalfIndex
Indices == 0 .. IndexMod - 1
Counts == 0 .. CountMax
Slot == [index : Indices, count : Counts]
Slots(i, c) == [index |-> i, count |-> c]
EmptySlot == Slots(0, 0)

\* Never adjacent to a bucket index near 0.
Sentinel == Slots(IndexMod - 2, 0)

NoCall == [now |-> 0, amount |-> 0]

-----------------------------------------------------------------------------
(* The arithmetic of the counter.                                            *)

\* Mutant: the sum is not saturated.
Unclamped(n) == n

Clamp(n) == IF n > CountMax THEN CountMax ELSE n

WrappingSub(a, b) == IF a >= b THEN a - b ELSE a + IndexMod - b

\* Mutants of IsAhead: any other bucket is ahead; only the next bucket is.
IsOther(a, b) == a # b
IsNext(a, b) == WrappingSub(a, b) = 1

\* (a.wrapping_sub(b) as i32) > 0
IsAhead(a, b) == WrappingSub(a, b) \in 1 .. HalfIndex - 1

BucketOf(now) == (now \div Window) % IndexMod

\* Half of the window is added before the division: f64::round.
Weighted(curr, prev, i, now) ==
    LET start   == i * Window
        elapsed == IF now < start THEN 0
                   ELSE IF now > start + Window THEN Window ELSE now - start
    IN  curr + (2 * prev * (Window - elapsed) + Window) \div (2 * Window)

\* The estimate of a caller that loaded c from current and p from previous.
Estimate(c, p, now) ==
    LET i == BucketOf(now)
    IN  IF c.index = i
        THEN Weighted(c.count,
                      IF p.index = WrappingSub(i, 1) THEN p.count ELSE 0, i, now)
        ELSE IF c.index = WrappingSub(i, 1)
             THEN Weighted(0, c.count, i, now)
             ELSE 0

-----------------------------------------------------------------------------
Init == /\ current = EmptySlot
        /\ previous = Sentinel
        /\ pc = [t \in Threads |-> "idle"]
        /\ arg = [t \in Threads |-> NoCall]
        /\ word = [t \in Threads |-> EmptySlot]
        /\ carry = [t \in Threads |-> EmptySlot]

\* add(amount, now_ms) is entered.
CallAdd(t, n, a) == /\ pc[t] = "idle"
                    /\ pc' = [pc EXCEPT ![t] = "load"]
                    /\ arg' = [arg EXCEPT ![t] = [now |-> n, amount |-> a]]
                    /\ UNCHANGED <<current, previous, word, carry>>

\* estimate(now_ms) is entered.
CallEstimate(t, n) == /\ pc[t] = "idle"
                      /\ pc' = [pc EXCEPT ![t] = "readCurrent"]
                      /\ arg' = [arg EXCEPT ![t] = [now |-> n, amount |-> 0]]
                      /\ UNCHANGED <<current, previous, word, carry>>

MyBucket(t) == BucketOf(arg[t].now)

\* The load at the head of add's loop, and the branch it selects: exchange
\* current, merge into previous when one bucket late, or give up.
Load(t) ==
    /\ pc[t] = "load"
    /\ LET i == MyBucket(t)
           MayExchange == i = current.index \/ IsAhead(i, current.index)
           OneLate     == ~MayExchange /\ WrappingSub(current.index, i) = 1
       IN  /\ \/ /\ MayExchange
                 /\ pc' = [pc EXCEPT ![t] = "exchange"]
                 /\ word' = [word EXCEPT ![t] = current]
                 /\ UNCHANGED carry
              \/ /\ OneLate
                 /\ pc' = [pc EXCEPT ![t] = "mergeLoad"]
                 /\ carry' = [carry EXCEPT ![t] = Slots(i, Clamp(arg[t].amount))]
                 /\ UNCHANGED word
              \/ /\ ~MayExchange /\ ~OneLate
                 /\ pc' = [pc EXCEPT ![t] = "readCurrent"]
                 /\ UNCHANGED <<word, carry>>
    /\ UNCHANGED <<current, previous, arg>>

\* Mutant: the old count is handed over whatever the gap.
CarryAcrossGap(c, i) == Slots(WrappingSub(i, 1), c.count)

\* What the caller that moves current from slot c to bucket i hands to
\* previous: c's count if c is the bucket before i, an empty bucket otherwise.
CarryOver(c, i) == IF WrappingSub(i, c.index) = 1 THEN c
                   ELSE Slots(WrappingSub(i, 1), 0)

\* The compare-exchange of current succeeds ...
ExchangeOk(t) ==
    /\ pc[t] = "exchange"
    /\ current = word[t]
    /\ LET i == MyBucket(t)
           a == arg[t].amount
       IN  \/ /\ i = current.index
              /\ current' = Slots(i, Clamp(current.count + a))
              /\ pc' = [pc EXCEPT ![t] = "readCurrent"]
              /\ UNCHANGED carry
           \/ /\ i # current.index
              /\ current' = Slots(i, Clamp(a))
              /\ carry' = [carry EXCEPT ![t] = CarryOver(current, i)]
              /\ pc' = [pc EXCEPT ![t] = "mergeLoad"]
    /\ word' = [word EXCEPT ![t] = EmptySlot]
    /\ UNCHANGED <<previous, arg>>

\* Mutant: a failed exchange is retried without a reload.
RetrySameWord(t) == /\ pc[t] = "exchange"
                    /\ current # word[t]
                    /\ UNCHANGED vars

\* ... or fails, and the caller reloads.
ExchangeFail(t) == /\ pc[t] = "exchange"
                   /\ current # word[t]
                   /\ pc' = [pc EXCEPT ![t] = "load"]
                   /\ word' = [word EXCEPT ![t] = EmptySlot]
                   /\ UNCHANGED <<current, previous, arg, carry>>

\* The load at the head of merge_into_previous's loop; a carry older than
\* what previous holds is dropped.
MergeLoad(t) ==
    /\ pc[t] = "mergeLoad"
    /\ \/ /\ carry[t].index = previous.index \/ IsAhead(carry[t].index, previous.index)
          /\ pc' = [pc EXCEPT ![t] = "mergeExchange"]
          /\ word' = [word EXCEPT ![t] = previous]
          /\ UNCHANGED carry
       \/ /\ carry[t].index # previous.index
          /\ ~IsAhead(carry[t].index, previous.index)
          /\ pc' = [pc EXCEPT ![t] = "readCurrent"]
          /\ carry' = [carry EXCEPT ![t] = EmptySlot]
          /\ UNCHANGED word
    /\ UNCHANGED <<current, previous, arg>>

\* Mutant: a carry overwrites what previous holds of its bucket.
Overwritten(p, c) == c

\* previous after a carry is merged into it: added to or re-seeded.
Merged(p, c) == IF c.index = p.index THEN Slots(p.index, Clamp(p.count + c.count))
                ELSE c

MergeExchangeOk(t) == /\ pc[t] = "mergeExchange"
                      /\ previous = word[t]
                      /\ previous' = Merged(previous, carry[t])
                      /\ pc' = [pc EXCEPT ![t] = "readCurrent"]
                      /\ word' = [word EXCEPT ![t] = EmptySlot]
                      /\ carry' = [carry EXCEPT ![t] = EmptySlot]
                      /\ UNCHANGED <<current, arg>>

MergeExchangeFail(t) == /\ pc[t] = "mergeExchange"
                        /\ previous # word[t]
                        /\ pc' = [pc EXCEPT ![t] = "mergeLoad"]
                        /\ word' = [word EXCEPT ![t] = EmptySlot]
                        /\ UNCHANGED <<current, previous, arg, carry>>

\* estimate's two loads; the second one ends the call.
ReadCurrent(t) == /\ pc[t] = "readCurrent"
                  /\ pc' = [pc EXCEPT ![t] = "readPrevious"]
                  /\ word' = [word EXCEPT ![t] = current]
                  /\ UNCHANGED <<current, previous, arg, carry>>

\* The value the call returns when its second load is now.
Returned(t) == Estimate(word[t], previous, arg[t].now)

ReadPrevious(t) == /\ pc[t] = "readPrevious"
                   /\ pc' = [pc EXCEPT ![t] = "idle"]
                   /\ word' = [word EXCEPT ![t] = EmptySlot]
                   /\ arg' = [arg EXCEPT ![t] = NoCall]
                   /\ UNCHANGED <<current, previous, carry>>

\* The steps of a call that is already running.
Step(t) == \/ Load(t)
           \/ ExchangeOk(t) \/ ExchangeFail(t)
           \/ MergeLoad(t)
           \/ MergeExchangeOk(t) \/ MergeExchangeFail(t)
           \/ ReadCurrent(t) \/ ReadPrevious(t)

Next == \E t \in Threads :
           \/ \E n \in Times, a \in Amounts : CallAdd(t, n, a)
           \/ \E n \in Times : CallEstimate(t, n)
           \/ Step(t)

Spec == Init /\ [][Next]_vars

\* add and estimate never block: a thread the scheduler runs takes its step.
FairSpec == Spec /\ \A t \in Threads : WF_vars(Step(t))
=============================================================================
