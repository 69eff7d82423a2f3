-------------------------- MODULE BudgetGate_proofs --------------------------
(***************************************************************************)
(* Proofs about a tenant's budget, for any number of callers, any limit,     *)
(* amounts and window, however the calls interleave and the clock is set:    *)
(* what is granted on time stays within the limit, what is granted late is   *)
(* bounded, a settled counter is exact, no refusal is spurious, and a tenant *)
(* at its limit is not admitted.                                             *)
(*                                                                           *)
(* Sums over the callers relate what was offered to a bucket and granted in  *)
(* it to what the counter holds and the callers still have in hand.          *)
(***************************************************************************)
EXTENDS BudgetGate, SlidingWindow_proofs, InductionTheorems

\* The bucket a running call is stamped with.
Stamp(t) == TrueBucket(arg[t].now)
StampedIn(t, b) == pc[t] # "idle" /\ Stamp(t) = b

\* Sums over the callers: the amounts of the calls running in bucket b, ...
Running(b) == [t \in Threads |-> IF StampedIn(t, b) THEN arg[t].amount ELSE 0]

\* ... of those that have not taken effect, ...
Unapplied(b) == [t \in Threads |-> IF StampedIn(t, b) /\ Phase(t) = "called"
                                   THEN arg[t].amount ELSE 0]

\* ... of those that have and may still be granted on time, ...
MayBeGranted(t) == pc[t] = "readPrevious" /\ OnTime(t) /\ word[t].count <= MaxTokens
Grantable(b) == [t \in Threads |-> IF StampedIn(t, b) /\ MayBeGranted(t)
                                   THEN arg[t].amount ELSE 0]

\* ... what a caller has in hand for bucket b: its own amount, or a carry, ...
InHand(b) == [t \in Threads |-> IF Rolling(t)
                                THEN IF carry[t].index = Index(b) THEN carry[t].count ELSE 0
                                ELSE Unapplied(b)[t]]

\* ... and the most that each record running in b can cost.
CouldCost(b) == [t \in Threads |-> IF StampedIn(t, b) /\ op[t] = "record" THEN MaxAmount ELSE 0]

Total(f) == SumFunctionOnSet(f, Threads)

\* What has been counted of the amounts offered to b.
Counted(b) == offered[b] - Total(Unapplied(b))

-----------------------------------------------------------------------------
(* The invariant.                                                            *)

\* A running call has the clock's time, and a check has no amount.
CallsTyped ==
    /\ clock \in StartTime .. MaxTime
    /\ back \in 0 .. MaxBack
    /\ calls \in 0 .. MaxCalls
    /\ op \in [Threads -> {"none", "record", "is_within_budget"}]
    /\ stamped \subseteq TrueBuckets
    /\ offered \in [TrueBuckets -> Nat]
    /\ onTime \in [TrueBuckets -> Nat]
    /\ late \in [TrueBuckets -> Nat]
    /\ \A t \in Threads :
          /\ op[t] = "none" <=> pc[t] = "idle"
          /\ pc[t] = "idle" => arg[t] = NoCall
          /\ pc[t] # "idle" => arg[t].now \in StartTime .. MaxTime
          /\ op[t] = "record" => arg[t].amount \in Amounts
          /\ op[t] = "is_within_budget" =>
                arg[t].amount = 0 /\ pc[t] \in {"readCurrent", "readPrevious"}

\* No more is granted and under way in a bucket than was offered to it.
GrantsOffered ==
    \A b \in TrueBuckets : /\ onTime[b] + late[b] + Total(Running(b)) <= offered[b]
                           /\ offered[b] <= calls * MaxAmount

\* The counter holds what the calls that took effect have offered.
CountsExact ==
    \A b \in TrueBuckets :
       /\ Index(b) = current.index => current.count = Clamp(Counted(b))
       /\ Index(b) + 1 = current.index => Carried = Clamp(Counted(b))
       /\ Index(b) > current.index => Counted(b) = 0

\* current is at a bucket some record was stamped in, and behind such a bucket
\* only as long as a record stamped there has still to take effect.
StampsSeen ==
    /\ current = EmptySlot \/ \E b \in stamped : Index(b) = current.index
    /\ \A t \in Threads : op[t] = "record" => Stamp(t) \in stamped
    /\ \A b \in stamped : \/ Index(b) <= current.index
                          \/ \E t \in Threads : StampedIn(t, b) /\ Phase(t) = "called"

\* A call that has taken effect finds current in its bucket or a later one.
EffectSeen ==
    \A t \in Threads :
       /\ Phase(t) = "applied" /\ op[t] = "record" => MyBucket(t) <= current.index
       /\ pc[t] = "readPrevious" =>
             /\ word[t].index <= current.index
             /\ op[t] = "record" => MyBucket(t) <= word[t].index

\* What was granted on time and what may still be are within the limit.
OnTimeBounded == \A b \in TrueBuckets : onTime[b] + Total(Grantable(b)) <= MaxTokens

\* While the clock has not been set back, no call starts in a bucket that
\* current has left, and those still running there are not all the callers.
LateBounded ==
    back = 0 =>
       /\ \A t \in Threads : pc[t] # "idle" => arg[t].now <= clock
       /\ \A b \in TrueBuckets :
             IF current.index <= Index(b) THEN late[b] = 0
             ELSE /\ b < TrueBucket(clock)
                  /\ late[b] + Total(CouldCost(b)) <= (Cardinality(Threads) - 1) * MaxAmount

Known(s) == s.count = 0 \/ \E b \in TrueBuckets : Index(b) = s.index

\* The slots and what is in hand for a bucket never exceed what was offered
\* to it, and nothing is counted in a bucket that does not exist.
SlotsOffered ==
    /\ Known(previous)
    /\ \A t \in Threads : Rolling(t) => Known(carry[t])
    /\ \A b \in TrueBuckets :
          CountOf(current, b) + CountOf(previous, b) + Total(InHand(b)) <= offered[b]

\* So was every word of current that a caller has read.
WordsOffered ==
    \A t \in Threads : pc[t] = "readPrevious" =>
       word[t].count = 0
          \/ \E b \in TrueBuckets : Index(b) = word[t].index /\ word[t].count <= offered[b]

GateInv == /\ TypeOK
           /\ SlotsOrdered
           /\ CallsTyped
           /\ GrantsOffered
           /\ CountsExact
           /\ StampsSeen
           /\ EffectSeen
           /\ OnTimeBounded
           /\ LateBounded
           /\ SlotsOffered
           /\ WordsOffered
-----------------------------------------------------------------------------
(* Buckets and estimates.                                                    *)

\* Division with remainder, ...
LEMMA Divides ==
  ASSUME NEW a \in Nat, NEW d \in Nat \ {0}
  PROVE  /\ a \div d \in Nat /\ d * (a \div d) <= a /\ a < d * (a \div d) + d
         /\ a % d = a - d * (a \div d) /\ a % d \in 0 .. d - 1
  OBVIOUS

\* ... which is monotone, ...
LEMMA DivisionGrows ==
  ASSUME NEW a \in Nat, NEW b \in Nat, NEW d \in Nat \ {0}, a <= b
  PROVE  a \div d <= b \div d
  OBVIOUS

\* ... and the quotient it determines.
LEMMA QuotientIs ==
  ASSUME NEW a \in Nat, NEW k \in Nat, NEW d \in Nat \ {0}, d * k <= a, a < d * k + d
  PROVE  a \div d = k
  OBVIOUS

\* Multiples are at least their factor apart.
LEMMA MultiplesApart ==
  ASSUME NEW a \in Nat, NEW b \in Nat, NEW d \in Nat \ {0}, a < b
  PROVE  d * a + d <= d * b
  OBVIOUS

\* The bucket of an instant the clock can show.
LEMMA ClockBucket ==
  /\ TrueBuckets \subseteq Nat
  /\ \A n \in StartTime .. MaxTime : n \in Nat /\ TrueBucket(n) \in TrueBuckets
  /\ \A m, n \in StartTime .. MaxTime : m <= n => TrueBucket(m) <= TrueBucket(n)
  /\ {StartTime, MaxTime} \subseteq StartTime .. MaxTime
  /\ TrueBucket(StartTime) \in Nat /\ TrueBucket(MaxTime) \in Nat
<1>1. \A m, n \in Nat : m <= n => TrueBucket(m) <= TrueBucket(n)
  BY DivisionGrows, ConstantsOK DEF TrueBucket
<1>2. \A n \in Nat : TrueBucket(n) \in Nat
  BY Divides, ConstantsOK DEF TrueBucket
<1>3. /\ {StartTime, MaxTime} \subseteq StartTime .. MaxTime
      /\ TrueBucket(StartTime) \in Nat /\ TrueBucket(MaxTime) \in Nat
      /\ StartTime .. MaxTime \subseteq Nat
  BY <1>2, GateOK
<1>4. TrueBuckets \subseteq Nat
  BY <1>3 DEF TrueBuckets
<1>5. ASSUME NEW n \in StartTime .. MaxTime
      PROVE  TrueBucket(n) \in TrueBuckets
  <2>1. n \in Nat /\ StartTime <= n /\ n <= MaxTime /\ StartTime \in Nat /\ MaxTime \in Nat
    BY <1>3, GateOK
  <2>2. TrueBucket(StartTime) <= TrueBucket(n) /\ TrueBucket(n) <= TrueBucket(MaxTime)
    BY <1>1, <2>1
  <2> QED
    BY <1>2, <1>3, <2>1, <2>2 DEF TrueBuckets
<1> QED
  BY <1>1, <1>3, <1>4, <1>5

\* Each of these buckets is that of some instant, so none wraps around.
LEMMA IndexLow == ASSUME NEW b \in TrueBuckets PROVE Index(b) \in 0 .. HalfIndex - 3
<1>1. b \in Nat /\ TrueBucket(StartTime) <= b /\ b <= TrueBucket(MaxTime)
  BY ClockBucket, GateOK DEF TrueBuckets
<1>2. PICK n \in StartTime .. MaxTime : TrueBucket(n) = b
  <2>1. CASE b = TrueBucket(StartTime)
    BY <2>1, GateOK
  <2>2. CASE b # TrueBucket(StartTime)
    <3>1. TrueBucket(StartTime) < b /\ TrueBucket(StartTime) \in Nat /\ TrueBucket(MaxTime) \in Nat
      BY <1>1, <2>2, ClockBucket, GateOK
    <3>2. Window * TrueBucket(StartTime) + Window <= Window * b
      BY <1>1, <3>1, MultiplesApart, ConstantsOK
    <3>3. StartTime < Window * TrueBucket(StartTime) + Window
      BY Divides, ConstantsOK, GateOK DEF TrueBucket
    <3>4. Window * TrueBucket(MaxTime) <= MaxTime
      BY Divides, ConstantsOK, GateOK DEF TrueBucket
    <3>5. Window * b <= Window * TrueBucket(MaxTime)
      BY <1>1, <3>1, MultiplesApart, ConstantsOK
    <3>6. Window * b \in Nat /\ Window * b < Window * b + Window
      BY <1>1, ConstantsOK
    <3>7. Window * b \in StartTime .. MaxTime
      <4> DEFINE x == Window * b
                 y == Window * TrueBucket(StartTime)
                 z == Window * TrueBucket(MaxTime)
      <4>1. y \in Nat /\ z \in Nat
        BY <3>1, ConstantsOK
      <4> HIDE DEF x, y, z
      <4> QED
        BY <3>2, <3>3, <3>4, <3>5, <3>6, <4>1, ConstantsOK, GateOK DEF x, y, z
    <3>8. TrueBucket(Window * b) = b
      BY <1>1, <3>6, QuotientIs, ConstantsOK DEF TrueBucket
    <3> QED
      BY <3>7, <3>8
  <2> QED
    BY <2>1, <2>2
<1>3. BucketOf(n) <= HalfIndex - 3 /\ BucketOf(n) = Index(b)
  BY <1>2, NoWrap, GateOK DEF BucketOf, TrueBucket, Index
<1>4. Index(b) \in 0 .. IndexMod - 1
  BY <1>1, Divides, ConstantsOK DEF Index, IndexMod
<1> QED
  BY <1>3, <1>4, ConstantsOK DEF IndexMod

\* So the indices are the buckets, counted from one multiple of the modulus.
LEMMA IndexShift == \E base \in Nat : \A b \in TrueBuckets : b \in Nat /\ Index(b) = b - base
<1> DEFINE first == TrueBucket(StartTime)
           q == first \div IndexMod
<1>1. IndexMod \in Nat \ {0} /\ HalfIndex - 3 < IndexMod - 1
  BY ConstantsOK DEF IndexMod
<1>2. first \in TrueBuckets /\ first \in Nat
  BY ClockBucket, GateOK
<1>3. q \in Nat /\ first < IndexMod * q + IndexMod
  BY <1>1, <1>2, Divides
<1>4. ASSUME NEW b \in TrueBuckets PROVE b \div IndexMod = q
  <2>1. b \in Nat /\ first <= b
    BY ClockBucket, GateOK DEF TrueBuckets
  <2>2. /\ b \div IndexMod \in Nat /\ IndexMod * (b \div IndexMod) <= b
        /\ q <= b \div IndexMod
    BY <1>1, <1>2, <2>1, Divides, DivisionGrows
  <2> SUFFICES ASSUME q < b \div IndexMod PROVE FALSE
    BY <1>3, <2>2
  <2> HIDE DEF first, q
  <2> DEFINE c == IndexMod * q + IndexMod - 1
             k == IndexMod * q
             z == IndexMod * (b \div IndexMod)
  <2>3. k + IndexMod <= z /\ k \in Nat /\ z \in Nat
    BY <1>1, <1>3, <2>2, MultiplesApart
  <2>4. c = k + IndexMod - 1 /\ z <= b /\ first < k + IndexMod
    BY <1>3, <2>2
  <2> HIDE DEF k, z, c
  <2>5. c \in Nat /\ first <= c /\ c <= b
    BY <1>1, <1>2, <2>1, <2>3, <2>4
  <2>6. c \in TrueBuckets
    <3>1. b <= TrueBucket(MaxTime) /\ TrueBucket(MaxTime) \in Nat
      BY ClockBucket, GateOK DEF TrueBuckets
    <3> QED
      BY <1>2, <2>1, <2>5, <3>1 DEF TrueBuckets, first
  <2>7. c \div IndexMod = q
    BY <1>1, <1>3, <2>3, <2>4, <2>5, QuotientIs DEF k
  <2>8. Index(c) = IndexMod - 1
    <3>1. c % IndexMod = c - IndexMod * (c \div IndexMod)
      BY <1>1, <2>5, Divides
    <3>2. IndexMod * (c \div IndexMod) = k
      BY <2>7 DEF k
    <3> QED
      BY <1>1, <2>3, <2>4, <3>1, <3>2 DEF Index
  <2> QED
    BY <1>1, <2>6, <2>8, IndexLow, ConstantsOK
<1>5. \A b \in TrueBuckets : b \in Nat /\ Index(b) = b - IndexMod * q
  <2> SUFFICES ASSUME NEW b \in TrueBuckets PROVE b \in Nat /\ Index(b) = b - IndexMod * q
    OBVIOUS
  <2>1. b \in Nat
    BY ClockBucket
  <2>2. Index(b) = b - IndexMod * (b \div IndexMod)
    BY <1>1, <2>1, Divides DEF Index
  <2> QED
    BY <1>4, <2>1, <2>2
<1>6. IndexMod * q \in Nat
  BY <1>1, <1>3
<1> QED
  BY <1>5, <1>6

\* Buckets compare as their indices do.
LEMMA BucketsCompare ==
  ASSUME NEW b \in TrueBuckets, NEW c \in TrueBuckets
  PROVE  /\ Index(b) = Index(c) <=> b = c
         /\ Index(b) < Index(c) <=> b < c
         /\ Index(b) + 1 = Index(c) <=> b + 1 = c
<1>1. PICK base \in Nat : \A x \in TrueBuckets : x \in Nat /\ Index(x) = x - base
  BY IndexShift
<1>2. b \in Nat /\ c \in Nat /\ Index(b) = b - base /\ Index(c) = c - base
  BY <1>1
<1> QED
  BY <1>2

\* The weight of the bucket before lies between nothing and all of its count.
LEMMA WeightedBetween ==
  ASSUME NEW c \in Nat, NEW p \in Nat, NEW i \in Nat, NEW now \in Nat
  PROVE  /\ Weighted(c, p, i, now) \in Nat
         /\ c <= Weighted(c, p, i, now)
         /\ Weighted(c, p, i, now) <= c + p
<1> DEFINE start == i * Window
           elapsed == IF now < start THEN 0
                      ELSE IF now > start + Window THEN Window ELSE now - start
           rest == Window - elapsed
<1>1. rest \in 0 .. Window
  <2>1. start \in Nat
    BY ConstantsOK
  <2> HIDE DEF start
  <2> QED
    BY <2>1, ConstantsOK
<1>2. Weighted(c, p, i, now) = c + (2 * p * rest + Window) \div (2 * Window)
  BY DEF Weighted
<1> HIDE DEF rest
<1>3. 2 * p * rest \in Nat /\ 2 * p * rest <= 2 * p * Window
  BY <1>1, ConstantsOK
<1>4. 2 * p * Window = 2 * Window * p
  BY ConstantsOK
<1> DEFINE n == 2 * p * rest + Window
           d == 2 * Window
<1>5. n \in Nat /\ d \in Nat \ {0} /\ n < d * p + d
  <2> DEFINE x == 2 * p * rest
             y == 2 * Window * p
  <2>1. x \in Nat /\ x <= y /\ y \in Nat
    BY <1>3, <1>4, ConstantsOK
  <2>2. n = x + Window /\ d * p = y
    BY ConstantsOK
  <2> HIDE DEF x, y, n
  <2> QED
    BY <2>1, <2>2, ConstantsOK
<1> HIDE DEF n, d
<1>6. n \div d \in Nat /\ n \div d <= p
  <2>1. n \div d \in Nat /\ d * (n \div d) <= n
    BY <1>5, Divides
  <2>2. p < n \div d => d * p + d <= d * (n \div d)
    BY <1>5, <2>1, MultiplesApart
  <2> DEFINE x == d * (n \div d)
             y == d * p
  <2>3. x \in Nat /\ y \in Nat
    BY <1>5, <2>1
  <2> HIDE DEF x, y
  <2> QED
    BY <1>5, <2>1, <2>2, <2>3 DEF x, y
<1> QED
  BY <1>2, <1>6 DEF n, d

-----------------------------------------------------------------------------
(* The steps, and the types.                                                 *)

\* A step of the gate is a step of the counter, or leaves it alone.
LEMMA CounterStep == CallsTyped /\ [GateNext]_gateVars => [Next]_vars
<1> SUFFICES ASSUME CallsTyped, [GateNext]_gateVars PROVE [Next]_vars
  OBVIOUS
<1>1. clock \in Times
  BY GateOK DEF CallsTyped
<1>2. CASE Tick \/ SetBack \/ UNCHANGED gateVars
  BY <1>2 DEF Tick, SetBack, gateVars
<1>3. ASSUME NEW t \in Threads, NEW a \in Amounts, StartRecord(t, a) PROVE Next
  BY <1>1, <1>3 DEF StartRecord, Next
<1>4. ASSUME NEW t \in Threads, StartCheck(t) PROVE Next
  BY <1>1, <1>4 DEF StartCheck, Next
<1>5. ASSUME NEW t \in Threads, Run(t) \/ Finish(t) PROVE Next
  BY <1>5 DEF Run, Finish, Step, Next
<1> QED
  BY <1>2, <1>3, <1>4, <1>5 DEF GateNext

\* So the counter's own invariant holds.
LEMMA CounterKept ==
  ASSUME TypeOK, SlotsOrdered, CallsTyped, [GateNext]_gateVars
  PROVE  TypeOK' /\ SlotsOrdered'
  BY CounterStep, TypeNext, OrderedNext

\* A call enters with the clock's time ...
LEMMA StartForm ==
  ASSUME TypeOK, CallsTyped, NEW t \in Threads, NEW a \in Amounts \cup {0},
         \/ a \in Amounts /\ StartRecord(t, a)
         \/ a = 0 /\ StartCheck(t)
  PROVE  /\ OthersStill(t) /\ \A u \in Threads \ {t} : op'[u] = op[u]
         /\ UNCHANGED <<current, previous, word, carry, clock, back, onTime, late>>
         /\ pc[t] = "idle" /\ op[t] = "none"
         /\ arg'[t] = [now |-> clock, amount |-> a]
         /\ calls + back < MaxCalls /\ calls' = calls + 1
         /\ \/ /\ a \in Amounts /\ op'[t] = "record" /\ pc'[t] = "load"
               /\ stamped' = stamped \cup {TrueBucket(clock)}
               /\ offered' = [offered EXCEPT ![TrueBucket(clock)] = @ + a]
               /\ reached' = reached
            \/ /\ a = 0 /\ op'[t] = "is_within_budget" /\ pc'[t] = "readCurrent"
               /\ stamped' = stamped
               /\ offered' = offered
               /\ reached' = [reached EXCEPT ![t] = LimitReached(TrueBucket(clock))]
<1>1. clock \in Times
  BY GateOK DEF CallsTyped
<1>2. CASE a \in Amounts /\ StartRecord(t, a)
  <2>1. CallAdd(t, clock, a)
    BY <1>2 DEF StartRecord
  <2>2. OthersStill(t)
    BY <1>1, <1>2, <2>1, StepsAlone
  <2> QED
    BY <1>2, <2>1, <2>2 DEF StartRecord, CallAdd, CallsTyped, TypeOK
<1>3. CASE a = 0 /\ StartCheck(t)
  <2>1. CallEstimate(t, clock)
    BY <1>3 DEF StartCheck
  <2>2. OthersStill(t)
    BY <1>1, <2>1, StepsAlone
  <2> QED
    BY <1>3, <2>1, <2>2 DEF StartCheck, CallEstimate, CallsTyped, TypeOK
<1> QED
  BY <1>2, <1>3

\* ... runs the counter's code ...
LEMMA RunForm ==
  ASSUME TypeOK, CallsTyped, NEW t \in Threads, Run(t)
  PROVE  /\ OthersStill(t) /\ Step(t)
         /\ UNCHANGED <<arg, clock, back, registry>>
         /\ pc[t] \notin {"idle", "readPrevious"} /\ pc'[t] # "idle"
         /\ pc[t] = "readCurrent" <=> pc'[t] = "readPrevious"
         /\ pc[t] = "readCurrent" => ReadCurrent(t)
         /\ pc'[t] \in PCs
<1>1. Step(t) /\ pc[t] # "readPrevious" /\ UNCHANGED <<clock, back, registry>>
  BY DEF Run
<1>2. OthersStill(t)
  BY <1>1, StepsAlone
<1> QED
  BY <1>1, <1>2 DEF Step, TypeOK, PCs, Load, ExchangeOk, ExchangeFail, MergeLoad, MergeExchangeOk,
     MergeExchangeFail, ReadCurrent, ReadPrevious

\* ... and returns what the second load of estimate finds.
LEMMA FinishForm ==
  ASSUME TypeOK, CallsTyped, NEW t \in Threads, Finish(t)
  PROVE  /\ OthersStill(t) /\ \A u \in Threads \ {t} : op'[u] = op[u]
         /\ UNCHANGED <<current, previous, carry, clock, back, calls, stamped, offered>>
         /\ reached' = [reached EXCEPT ![t] = FALSE]
         /\ pc[t] = "readPrevious" /\ pc'[t] = "idle"
         /\ op'[t] = "none" /\ arg'[t] = NoCall
         /\ Stamp(t) \in TrueBuckets
         /\ onTime' = IF Granted(t) /\ OnTime(t) THEN Add(onTime, Stamp(t), arg[t].amount)
                                                 ELSE onTime
         /\ late' = IF Granted(t) /\ ~OnTime(t) THEN Add(late, Stamp(t), arg[t].amount)
                                                ELSE late
<1>1. ReadPrevious(t)
  BY DEF Finish
<1>2. OthersStill(t)
  BY <1>1, StepsAlone DEF Step
<1>3. Stamp(t) \in TrueBuckets
  BY <1>1, ClockBucket DEF CallsTyped, ReadPrevious, Stamp
<1> QED
  BY <1>1, <1>2, <1>3 DEF Finish, ReadPrevious, CallsTyped, TypeOK, Stamp

\* Nothing but the clock moves.
LEMMA ClockForm ==
  ASSUME CallsTyped, Tick \/ SetBack \/ UNCHANGED gateVars
  PROVE  /\ UNCHANGED <<vars, registry>>
         /\ clock' \in StartTime .. MaxTime
         /\ back' \in 0 .. MaxBack
         /\ back' = 0 => back = 0 /\ clock <= clock'
  BY GateOK DEF CallsTyped, Tick, SetBack, gateVars

\* Every step keeps the types of the calls.
LEMMA CallsStep ==
  ASSUME TypeOK, CallsTyped, [GateNext]_gateVars
  PROVE  CallsTyped'
<1>0. /\ clock \in StartTime .. MaxTime /\ back \in Nat /\ calls \in Nat /\ MaxCalls \in Nat
      /\ TrueBucket(clock) \in TrueBuckets
      /\ Amounts \subseteq Nat
  BY GateOK, ConstantsOK, ClockBucket DEF CallsTyped
<1>1. CASE Tick \/ SetBack \/ UNCHANGED gateVars
  BY <1>1, ClockForm DEF CallsTyped, vars, registry
<1>2. ASSUME NEW t \in Threads, NEW a \in Amounts \cup {0},
             \/ a \in Amounts /\ StartRecord(t, a)
             \/ a = 0 /\ StartCheck(t)
      PROVE  CallsTyped'
  <2>1. /\ OthersStill(t) /\ \A u \in Threads \ {t} : op'[u] = op[u]
        /\ UNCHANGED <<clock, back, onTime, late>>
        /\ arg'[t] = [now |-> clock, amount |-> a]
        /\ calls + back < MaxCalls /\ calls' = calls + 1
        /\ \/ /\ a \in Amounts /\ op'[t] = "record" /\ pc'[t] = "load"
              /\ stamped' = stamped \cup {TrueBucket(clock)}
              /\ offered' = [offered EXCEPT ![TrueBucket(clock)] = @ + a]
           \/ /\ a = 0 /\ op'[t] = "is_within_budget" /\ pc'[t] = "readCurrent"
              /\ stamped' = stamped
              /\ offered' = offered
    BY <1>2, StartForm
  <2>2. calls' \in 0 .. MaxCalls
    BY <1>0, <2>1
  <2>3. offered' \in [TrueBuckets -> Nat]
    <3>1. offered \in [TrueBuckets -> Nat]
      BY DEF CallsTyped
    <3>2. a \in Nat
      BY ConstantsOK
    <3> QED
      BY <1>0, <2>1, <3>1, <3>2
  <2>4. op' \in [Threads -> {"none", "record", "is_within_budget"}]
    BY <1>2 DEF StartRecord, StartCheck, CallsTyped
  <2>5. ASSUME NEW u \in Threads \ {t}
        PROVE  pc'[u] = pc[u] /\ arg'[u] = arg[u] /\ op'[u] = op[u]
    BY <2>1 DEF OthersStill
  <2>6. \A u \in Threads :
          /\ op'[u] = "none" <=> pc'[u] = "idle"
          /\ pc'[u] = "idle" => arg'[u] = NoCall
          /\ pc'[u] # "idle" => arg'[u].now \in StartTime .. MaxTime
          /\ op'[u] = "record" => arg'[u].amount \in Amounts
          /\ op'[u] = "is_within_budget" =>
                arg'[u].amount = 0 /\ pc'[u] \in {"readCurrent", "readPrevious"}
    BY <1>0, <2>1, <2>5 DEF CallsTyped
  <2>7. stamped' \subseteq TrueBuckets
    BY <1>0, <2>1 DEF CallsTyped
  <2> QED
    BY <2>1, <2>2, <2>3, <2>4, <2>6, <2>7 DEF CallsTyped
<1>3. ASSUME NEW t \in Threads, Run(t)
      PROVE  CallsTyped'
  <2>1. /\ OthersStill(t)
        /\ UNCHANGED <<arg, clock, back, op, calls, stamped, offered, onTime, late>>
        /\ pc[t] \notin {"idle", "readPrevious"} /\ pc'[t] # "idle"
        /\ pc[t] = "readCurrent" <=> pc'[t] = "readPrevious"
    BY <1>3, RunForm DEF registry
  <2> QED
    BY <2>1 DEF CallsTyped, OthersStill
<1>4. ASSUME NEW t \in Threads, Finish(t)
      PROVE  CallsTyped'
  <2>1. /\ OthersStill(t) /\ \A u \in Threads \ {t} : op'[u] = op[u]
        /\ UNCHANGED <<clock, back, calls, stamped, offered>>
        /\ pc'[t] = "idle" /\ op'[t] = "none" /\ arg'[t] = NoCall
        /\ Stamp(t) \in TrueBuckets
        /\ onTime' = IF Granted(t) /\ OnTime(t) THEN Add(onTime, Stamp(t), arg[t].amount)
                                                ELSE onTime
        /\ late' = IF Granted(t) /\ ~OnTime(t) THEN Add(late, Stamp(t), arg[t].amount)
                                               ELSE late
    BY <1>4, FinishForm
  <2>2. arg[t].amount \in Nat
    BY CallType
  <2>3. onTime' \in [TrueBuckets -> Nat] /\ late' \in [TrueBuckets -> Nat]
    BY <2>1, <2>2 DEF CallsTyped, Add
  <2>4. op' \in [Threads -> {"none", "record", "is_within_budget"}]
    BY <1>4 DEF Finish, CallsTyped
  <2>5. ASSUME NEW u \in Threads \ {t}
        PROVE  pc'[u] = pc[u] /\ arg'[u] = arg[u] /\ op'[u] = op[u]
    BY <2>1 DEF OthersStill
  <2> QED
    BY <2>1, <2>3, <2>4, <2>5 DEF CallsTyped
<1> QED
  BY <1>1, <1>2, <1>3, <1>4 DEF GateNext

-----------------------------------------------------------------------------
(* The sums.                                                                 *)

\* What is summed are numbers, in every state ...
PartsNat(b, u) ==
    /\ Running(b)[u] \in Nat /\ Unapplied(b)[u] \in Nat /\ Grantable(b)[u] \in Nat
    /\ InHand(b)[u] \in Nat /\ CouldCost(b)[u] \in Nat

\* As they are by the types.
LEMMA PartsTyped == TypeOK => \A b : \A u \in Threads : PartsNat(b, u)
<1> SUFFICES ASSUME TypeOK, NEW b, NEW u \in Threads PROVE PartsNat(b, u)
  OBVIOUS
<1>1. arg[u].amount \in Nat /\ carry[u].count \in Nat /\ MaxAmount \in Nat
  BY CallType, GateOK, ConstantsOK DEF TypeOK, Slot, Counts
<1>2. Unapplied(b)[u] \in Nat
  BY <1>1 DEF Unapplied
<1> QED
  BY <1>1, <1>2 DEF PartsNat, Running, Grantable, InHand, CouldCost

\* ... and in the next one.
LEMMA PartsTypedNext == (TypeOK => \A b : \A u \in Threads : PartsNat(b, u))'
  BY PartsTyped, PTL

\* And so are the sums; what has taken no effect and what may be granted are
\* different parts of what is running.
SumsTyped(b) ==
    /\ Total(Running(b)) \in Nat /\ Total(Unapplied(b)) \in Nat
    /\ Total(Grantable(b)) \in Nat /\ Total(InHand(b)) \in Nat
    /\ Total(CouldCost(b)) \in Nat
    /\ Total(Grantable(b)) + Total(Unapplied(b)) <= Total(Running(b))

\* By the types, and part by part.
LEMMA TotalsTyped == TypeOK => \A b : SumsTyped(b)
<1> SUFFICES ASSUME TypeOK, NEW b PROVE SumsTyped(b)
  OBVIOUS
<1> DEFINE both == [u \in Threads |-> Grantable(b)[u] + Unapplied(b)[u]]
<1>1. IsFiniteSet(Threads)
  BY GateOK
<1>2. /\ Total(Running(b)) \in Nat /\ Total(Unapplied(b)) \in Nat
      /\ Total(Grantable(b)) \in Nat /\ Total(InHand(b)) \in Nat
      /\ Total(CouldCost(b)) \in Nat
  BY <1>1, PartsTyped, SumType DEF Total, PartsNat
<1>3. Total(both) = Total(Grantable(b)) + Total(Unapplied(b))
  BY <1>1, PartsTyped, SumOfSum DEF Total, PartsNat
<1>4. ASSUME NEW u \in Threads
      PROVE  both[u] \in Nat /\ Running(b)[u] \in Nat /\ both[u] <= Running(b)[u]
  <2>1. arg[u].amount \in Nat
    BY CallType
  <2>2. MayBeGranted(u) => Phase(u) # "called"
    BY DEF MayBeGranted, Phase, Merging
  <2> QED
    BY <2>1, <2>2 DEF Running, Unapplied, Grantable
<1> HIDE DEF both
<1>5. Total(both) <= Total(Running(b))
  BY <1>1, <1>4, SumMonotone DEF Total
<1> QED
  BY <1>2, <1>3, <1>5 DEF SumsTyped

\* The same of the next state.
LEMMA TotalsTypedNext == (TypeOK => \A b : SumsTyped(b))'
  BY TotalsTyped, PTL

OthersCall(t) == OthersStill(t) /\ \A u \in Threads \ {t} : op'[u] = op[u]

\* A step of t moves t's part alone.
LEMMA TotalsMove ==
  ASSUME TypeOK, TypeOK', NEW t \in Threads, OthersCall(t), NEW b
  PROVE  /\ Total(Running(b))' + Running(b)[t] = Total(Running(b)) + Running(b)'[t]
         /\ Total(Unapplied(b))' + Unapplied(b)[t] = Total(Unapplied(b)) + Unapplied(b)'[t]
         /\ Total(Grantable(b))' + Grantable(b)[t] = Total(Grantable(b)) + Grantable(b)'[t]
         /\ Total(InHand(b))' + InHand(b)[t] = Total(InHand(b)) + InHand(b)'[t]
         /\ Total(CouldCost(b))' + CouldCost(b)[t] = Total(CouldCost(b)) + CouldCost(b)'[t]
<1>1. IsFiniteSet(Threads)
  BY GateOK
<1>2. ASSUME NEW u \in Threads \ {t}
      PROVE  /\ Running(b)'[u] = Running(b)[u] /\ Unapplied(b)'[u] = Unapplied(b)[u]
             /\ Grantable(b)'[u] = Grantable(b)[u] /\ InHand(b)'[u] = InHand(b)[u]
             /\ CouldCost(b)'[u] = CouldCost(b)[u]
  <2>1. /\ pc'[u] = pc[u] /\ arg'[u] = arg[u] /\ word'[u] = word[u] /\ carry'[u] = carry[u]
        /\ op'[u] = op[u]
    BY DEF OthersCall, OthersStill
  <2>2. /\ StampedIn(u, b)' <=> StampedIn(u, b)
        /\ Phase(u)' = Phase(u)
        /\ MayBeGranted(u)' <=> MayBeGranted(u)
        /\ Rolling(u)' <=> Rolling(u)
    BY <2>1 DEF StampedIn, Stamp, Phase, MayBeGranted, OnTime, Rolling, Merging, MyBucket
  <2> QED
    BY <2>1, <2>2 DEF Running, Unapplied, Grantable, InHand, CouldCost
<1>3. \A u \in Threads :
         /\ Running(b)'[u] \in Nat /\ Unapplied(b)'[u] \in Nat /\ Grantable(b)'[u] \in Nat
         /\ InHand(b)'[u] \in Nat /\ CouldCost(b)'[u] \in Nat
  BY PartsTypedNext DEF PartsNat
<1>4. \A u \in Threads :
         /\ Running(b)[u] \in Nat /\ Unapplied(b)[u] \in Nat /\ Grantable(b)[u] \in Nat
         /\ InHand(b)[u] \in Nat /\ CouldCost(b)[u] \in Nat
  BY PartsTyped DEF PartsNat
<1>5. Total(Running(b))' + Running(b)[t] = Total(Running(b)) + Running(b)'[t]
  BY <1>1, <1>2, <1>3, <1>4, SumOfChanged DEF Total
<1>6. Total(Unapplied(b))' + Unapplied(b)[t] = Total(Unapplied(b)) + Unapplied(b)'[t]
  BY <1>1, <1>2, <1>3, <1>4, SumOfChanged DEF Total
<1>7. Total(Grantable(b))' + Grantable(b)[t] = Total(Grantable(b)) + Grantable(b)'[t]
  BY <1>1, <1>2, <1>3, <1>4, SumOfChanged DEF Total
<1>8. Total(InHand(b))' + InHand(b)[t] = Total(InHand(b)) + InHand(b)'[t]
  BY <1>1, <1>2, <1>3, <1>4, SumOfChanged DEF Total
<1>9. Total(CouldCost(b))' + CouldCost(b)[t] = Total(CouldCost(b)) + CouldCost(b)'[t]
  BY <1>1, <1>2, <1>3, <1>4, SumOfChanged DEF Total
<1> QED
  BY <1>5, <1>6, <1>7, <1>8, <1>9

\* A step of the clock leaves the sums alone.
LEMMA SumsStill ==
  ASSUME UNCHANGED <<vars, registry>>, NEW b
  PROVE  /\ Total(Running(b))' = Total(Running(b)) /\ Total(Unapplied(b))' = Total(Unapplied(b))
         /\ Total(Grantable(b))' = Total(Grantable(b)) /\ Total(InHand(b))' = Total(InHand(b))
         /\ Total(CouldCost(b))' = Total(CouldCost(b))
  BY DEF vars, registry, Total, Running, Unapplied, Grantable, InHand, CouldCost, StampedIn,
         Stamp, Phase, MayBeGranted, OnTime, Rolling, Merging, MyBucket

-----------------------------------------------------------------------------
(* What is granted was offered.                                              *)

\* One more call may cost once more the most a chunk costs.
LEMMA ProductOfOneMore ==
  ASSUME NEW n \in Nat, NEW m \in Nat
  PROVE  n * m \in Nat /\ (n + 1) * m = n * m + m
  OBVIOUS

\* No step breaks it: a record's amount is offered as it starts and moves from
\* what is running to what is granted as it ends.
LEMMA GrantsStep ==
  ASSUME TypeOK, TypeOK', CallsTyped, CallsTyped', GrantsOffered, [GateNext]_gateVars
  PROVE  GrantsOffered'
<1> SUFFICES ASSUME NEW b \in TrueBuckets
             PROVE  /\ onTime'[b] + late'[b] + Total(Running(b))' <= offered'[b]
                    /\ offered'[b] <= calls' * MaxAmount
  BY DEF GrantsOffered
<1>0. /\ onTime[b] + late[b] + Total(Running(b)) <= offered[b]
      /\ offered[b] <= calls * MaxAmount
      /\ onTime[b] \in Nat /\ late[b] \in Nat /\ offered[b] \in Nat /\ calls \in Nat
      /\ Total(Running(b)) \in Nat /\ Total(Running(b))' \in Nat
  BY TotalsTyped, TotalsTypedNext DEF GrantsOffered, CallsTyped, SumsTyped
<1>1. CASE Tick \/ SetBack \/ UNCHANGED gateVars
  BY <1>0, <1>1, ClockForm, SumsStill DEF registry
<1>2. ASSUME NEW t \in Threads, NEW a \in Amounts \cup {0},
             \/ a \in Amounts /\ StartRecord(t, a)
             \/ a = 0 /\ StartCheck(t)
      PROVE  /\ onTime'[b] + late'[b] + Total(Running(b))' <= offered'[b]
             /\ offered'[b] <= calls' * MaxAmount
  <2>1. /\ OthersCall(t)
        /\ UNCHANGED <<onTime, late>>
        /\ pc[t] = "idle"
        /\ arg'[t] = [now |-> clock, amount |-> a]
        /\ calls' = calls + 1
        /\ \/ /\ a \in Amounts /\ op'[t] = "record" /\ pc'[t] = "load"
              /\ offered' = [offered EXCEPT ![TrueBucket(clock)] = @ + a]
           \/ /\ a = 0 /\ op'[t] = "is_within_budget" /\ pc'[t] = "readCurrent"
              /\ offered' = offered
    BY <1>2, StartForm DEF OthersCall
  <2>2. a \in Nat /\ a <= MaxAmount /\ MaxAmount \in Nat
    <3>1. MaxAmount \in Nat /\ Amounts \subseteq 0 .. MaxAmount
      BY GateOK
    <3> QED
      BY <3>1
  <2>3. TrueBucket(clock) \in TrueBuckets
    BY ClockBucket DEF CallsTyped
  <2>4. Running(b)[t] = 0 /\ Running(b)'[t] = IF b = TrueBucket(clock) THEN a ELSE 0
    BY <2>1 DEF Running, StampedIn, Stamp
  <2>5. Total(Running(b))' = Total(Running(b)) + IF b = TrueBucket(clock) THEN a ELSE 0
    <3>1. Total(Running(b))' + 0 = Total(Running(b)) + IF b = TrueBucket(clock) THEN a ELSE 0
      BY <2>1, <2>4, TotalsMove
    <3> QED
      BY <1>0, <2>2, <3>1
  <2>6. offered'[b] = offered[b] + IF b = TrueBucket(clock) THEN a ELSE 0
    BY <1>0, <2>1, <2>2, <2>3 DEF CallsTyped
  <2>7. calls' * MaxAmount = calls * MaxAmount + MaxAmount /\ calls * MaxAmount \in Nat
    BY <1>0, <2>1, <2>2, ProductOfOneMore
  <2> DEFINE d == IF b = TrueBucket(clock) THEN a ELSE 0
             m == calls * MaxAmount
  <2>8. d \in Nat /\ d <= MaxAmount
    BY <2>2
  <2> HIDE DEF d, m
  <2> QED
    BY <1>0, <2>1, <2>2, <2>5, <2>6, <2>7, <2>8 DEF d, m
<1>3. ASSUME NEW t \in Threads, Run(t)
      PROVE  /\ onTime'[b] + late'[b] + Total(Running(b))' <= offered'[b]
             /\ offered'[b] <= calls' * MaxAmount
  <2>1. /\ OthersCall(t)
        /\ UNCHANGED <<arg, calls, offered, onTime, late>>
        /\ pc[t] # "idle" /\ pc'[t] # "idle"
    BY <1>3, RunForm DEF OthersCall, registry
  <2>2. Running(b)'[t] = Running(b)[t] /\ Running(b)[t] \in Nat
    BY <2>1, PartsTyped DEF Running, StampedIn, Stamp, PartsNat
  <2>3. Total(Running(b))' + Running(b)[t] = Total(Running(b)) + Running(b)'[t]
    BY <2>1, TotalsMove
  <2> QED
    BY <1>0, <2>1, <2>2, <2>3
<1>4. ASSUME NEW t \in Threads, Finish(t)
      PROVE  /\ onTime'[b] + late'[b] + Total(Running(b))' <= offered'[b]
             /\ offered'[b] <= calls' * MaxAmount
  <2> DEFINE r == IF b = Stamp(t) THEN arg[t].amount ELSE 0
  <2>1. /\ OthersCall(t)
        /\ UNCHANGED <<calls, offered>>
        /\ pc[t] # "idle" /\ pc'[t] = "idle" /\ Stamp(t) \in TrueBuckets
        /\ onTime' = IF Granted(t) /\ OnTime(t) THEN Add(onTime, Stamp(t), arg[t].amount)
                                                ELSE onTime
        /\ late' = IF Granted(t) /\ ~OnTime(t) THEN Add(late, Stamp(t), arg[t].amount)
                                               ELSE late
    BY <1>4, FinishForm DEF OthersCall
  <2>2. arg[t].amount \in Nat /\ r \in Nat
    BY CallType
  <2>3. Running(b)[t] = r /\ Running(b)'[t] = 0
    BY <2>1 DEF Running, StampedIn
  <2>4. Total(Running(b))' + r = Total(Running(b)) + 0
    BY <2>1, <2>3, TotalsMove
  <2>5. onTime'[b] + late'[b] <= onTime[b] + late[b] + r
    <3>1. CASE ~Granted(t)
      BY <1>0, <2>1, <2>2, <3>1
    <3>2. CASE Granted(t) /\ OnTime(t)
      <4>1. late' = late /\ onTime'[b] = onTime[b] + r
        BY <1>0, <2>1, <2>2, <3>2 DEF Add, CallsTyped
      <4> HIDE DEF r
      <4> QED
        BY <1>0, <2>2, <4>1
    <3>3. CASE Granted(t) /\ ~OnTime(t)
      <4>1. onTime' = onTime /\ late'[b] = late[b] + r
        BY <1>0, <2>1, <2>2, <3>3 DEF Add, CallsTyped
      <4> HIDE DEF r
      <4> QED
        BY <1>0, <2>2, <4>1
    <3> QED
      BY <3>1, <3>2, <3>3
  <2>6. onTime'[b] \in Nat /\ late'[b] \in Nat
    BY DEF CallsTyped
  <2> HIDE DEF r
  <2> QED
    BY <1>0, <2>1, <2>2, <2>4, <2>5, <2>6
<1> QED
  BY <1>1, <1>2, <1>3, <1>4 DEF GateNext

-----------------------------------------------------------------------------
(* What the counter holds is what was counted.                               *)

\* What has been counted in a bucket is a part of what it was offered, ...
LEMMA CountedType ==
  TypeOK /\ CallsTyped /\ GrantsOffered
     => \A b \in TrueBuckets : Counted(b) \in Nat /\ Counted(b) <= offered[b]
<1> SUFFICES ASSUME TypeOK, CallsTyped, GrantsOffered, NEW b \in TrueBuckets
             PROVE  Counted(b) \in Nat /\ Counted(b) <= offered[b]
  OBVIOUS
<1>1. /\ onTime[b] + late[b] + Total(Running(b)) <= offered[b]
      /\ onTime[b] \in Nat /\ late[b] \in Nat /\ offered[b] \in Nat
  BY DEF GrantsOffered, CallsTyped
<1>2. /\ Total(Running(b)) \in Nat /\ Total(Unapplied(b)) \in Nat /\ Total(Grantable(b)) \in Nat
      /\ Total(Grantable(b)) + Total(Unapplied(b)) <= Total(Running(b))
  BY TotalsTyped DEF SumsTyped
<1> QED
  BY <1>1, <1>2 DEF Counted

\* ... in the next state too.
LEMMA CountedTypeNext ==
  (TypeOK /\ CallsTyped /\ GrantsOffered
     => \A b \in TrueBuckets : Counted(b) \in Nat /\ Counted(b) <= offered[b])'
  BY CountedType, PTL

\* A call that has not taken effect is a record, in one of the buckets.
LEMMA CalledForm ==
  ASSUME TypeOK, CallsTyped, NEW t \in Threads, pc[t] # "idle"
  PROVE  /\ Stamp(t) \in TrueBuckets
         /\ MyBucket(t) = Index(Stamp(t))
         /\ arg[t].amount \in Nat
         /\ Phase(t) = "called" => op[t] = "record" /\ arg[t].amount \in Amounts
         /\ op[t] = "record" => arg[t].amount \in 0 .. MaxAmount
<1>1. Stamp(t) \in TrueBuckets
  BY ClockBucket DEF CallsTyped, Stamp
<1>2. MyBucket(t) = Index(Stamp(t))
  BY DEF MyBucket, BucketOf, Index, Stamp, TrueBucket
<1>3. Phase(t) = "called" => op[t] = "record"
  BY DEF CallsTyped, Phase, Merging
<1> QED
  BY <1>1, <1>2, <1>3, CallType, GateOK DEF CallsTyped

\* The call takes effect: it counts into current, moves it forward, counts into
\* the bucket before, or is too late.
TakesEffect(t) ==
    LET i == MyBucket(t)
        a == arg[t].amount
    IN  /\ Phase(t) = "called" /\ Phase(t)' = "applied"
        /\ \/ /\ i = current.index /\ current'.index = i
              /\ current'.count = Clamp(current.count + a) /\ Carried' = Carried
           \/ /\ i > current.index /\ current'.index = i /\ current'.count = Clamp(a)
              /\ Carried' = IF i = current.index + 1 THEN current.count ELSE 0
           \/ /\ i + 1 = current.index /\ Carried' = Clamp(Carried + a)
              /\ current'.index = current.index /\ current'.count = current.count
           \/ /\ i + 1 < current.index /\ Carried' = Carried
              /\ current'.index = current.index /\ current'.count = current.count

\* A step of a running call leaves the counter alone or takes effect.
LEMMA StepEffect ==
  ASSUME TypeOK, TypeOK', SlotsOrdered, NEW t \in Threads, Step(t), pc[t] # "readPrevious"
  PROVE  \/ /\ Phase(t)' = Phase(t) /\ Carried' = Carried
            /\ current'.index = current.index /\ current'.count = current.count
         \/ TakesEffect(t)
<1>1. Atomic!Apply(t) \/ UNCHANGED Atomic!vars
  BY LoadRefines, ExchangeRefines, RetryRefines, MergeLoadRefines, MergeRefines
     DEF Step, ReadPrevious
<1>2. Phases[t] = Phase(t) /\ Phases'[t] = Phase(t)'
  BY DEF Phases
<1>3. CASE UNCHANGED Atomic!vars
  BY <1>2, <1>3 DEF Atomic!vars
<1>4. CASE Atomic!Apply(t)
  <2>1. Calls[t].bucket = MyBucket(t) /\ Calls[t].amount = arg[t].amount
    BY DEF Calls
  <2>2. Phase(t) = "called" /\ Phase(t)' = "applied"
    BY <1>2, <1>4 DEF Atomic!Apply, Phases
  <2> QED
    BY <1>4, <2>1, <2>2 DEF Atomic!Apply, Atomic!Count, Atomic!Advance, Atomic!CountLate,
       Atomic!TooLate, Atomic!Clamp, Clamp, TakesEffect
<1> QED
  BY <1>1, <1>3, <1>4

\* What is counted in a bucket moves with what it is offered and with t's part.
LEMMA CountedMoves ==
  ASSUME TypeOK, TypeOK', CallsTyped, CallsTyped', GrantsOffered,
         NEW t \in Threads, OthersCall(t), NEW b \in TrueBuckets
  PROVE  Counted(b)' + offered[b] + Unapplied(b)'[t] = Counted(b) + offered'[b] + Unapplied(b)[t]
<1>1. Total(Unapplied(b))' + Unapplied(b)[t] = Total(Unapplied(b)) + Unapplied(b)'[t]
  BY TotalsMove
<1>2. Unapplied(b)[t] \in Nat /\ Unapplied(b)'[t] \in Nat
  BY PartsTyped, PartsTypedNext DEF PartsNat
<1>3. Total(Unapplied(b)) \in Nat /\ Total(Unapplied(b))' \in Nat
  BY TotalsTyped, TotalsTypedNext DEF SumsTyped
<1>4. offered[b] \in Nat /\ offered'[b] \in Nat
  BY DEF CallsTyped
<1> QED
  BY <1>1, <1>2, <1>3, <1>4 DEF Counted

\* A step that moves neither the counter nor what is counted keeps it exact.
LEMMA CountsStill ==
  ASSUME TypeOK, TypeOK', CountsExact, CallsTyped, CallsTyped',
         current'.index = current.index, current'.count = current.count, Carried' = Carried,
         \A b \in TrueBuckets : Counted(b)' = Counted(b)
  PROVE  CountsExact'
<1>1. current' = current
  <2>1. /\ current = Slots(current.index, current.count)
        /\ current' = Slots(current'.index, current'.count)
    BY DEF TypeOK, Slot, Slots
  <2> QED
    BY <2>1
<1> QED
  BY <1>1 DEF CountsExact

\* A call that takes effect is counted in its bucket, if the counter has it.
LEMMA EffectCounts ==
  ASSUME TypeOK, TypeOK', SlotsOrdered, CallsTyped, CallsTyped', GrantsOffered, CountsExact,
         NEW t \in Threads, OthersCall(t), TakesEffect(t), UNCHANGED <<arg, offered>>
  PROVE  CountsExact'
<1> PICK s \in TrueBuckets : s = Stamp(t)
  BY CalledForm DEF TakesEffect, Phase
<1> DEFINE a == arg[t].amount
<1>1. /\ pc[t] # "idle" /\ Phase(t) = "called" /\ Phase(t)' = "applied"
      /\ s = Stamp(t) /\ s \in TrueBuckets /\ MyBucket(t) = Index(s) /\ a \in Nat
  <2>1. pc[t] # "idle" /\ Phase(t) = "called" /\ Phase(t)' = "applied"
    BY DEF TakesEffect, Phase
  <2>2. /\ s \in TrueBuckets /\ MyBucket(t) = Index(s) /\ a \in Nat
    BY <2>1, CalledForm
  <2> QED
    BY <2>1, <2>2
<1>2. ASSUME NEW b \in TrueBuckets
      PROVE  /\ Counted(b) \in Nat /\ offered'[b] = offered[b] /\ offered[b] \in Nat
             /\ Counted(b)' = IF b = s THEN Counted(b) + a ELSE Counted(b)
  <2>1. Counted(b) \in Nat /\ offered'[b] = offered[b] /\ offered[b] \in Nat
    BY CountedType DEF CallsTyped
  <2>2. Unapplied(b)[t] = (IF b = s THEN a ELSE 0) /\ Unapplied(b)'[t] = 0
    BY <1>1 DEF Unapplied, StampedIn, Stamp
  <2>3. Counted(b)' + offered[b] + 0 = Counted(b) + offered[b] + IF b = s THEN a ELSE 0
    BY <2>1, <2>2, CountedMoves
  <2>4. Counted(b)' \in Int
    <3>1. offered'[b] \in Nat /\ Total(Unapplied(b))' \in Nat
      BY TotalsTypedNext DEF CallsTyped, SumsTyped
    <3> QED
      BY <3>1 DEF Counted
  <2>5. CASE b = s
    BY <1>1, <2>1, <2>3, <2>4, <2>5
  <2>6. CASE b # s
    BY <1>1, <2>1, <2>3, <2>4, <2>6
  <2> QED
    BY <2>1, <2>5, <2>6
<1>4. /\ current.index \in Nat /\ Index(s) \in Nat /\ current.count \in Nat
      /\ \A b \in TrueBuckets : Index(b) \in Nat
      /\ Carried \in Nat
  BY <1>1, IndexLow, ConstantsOK, SlotIndices, CarriedType, ClampFits DEF Carried, Counts
<1>5. \A b \in TrueBuckets :
          /\ Index(b) = current.index => current.count = Clamp(Counted(b))
          /\ Index(b) + 1 = current.index => Carried = Clamp(Counted(b))
          /\ Index(b) > current.index => Counted(b) = 0
  BY DEF CountsExact
<1>6. \A b \in TrueBuckets : Index(b) = Index(s) => b = s
  BY <1>1, BucketsCompare
<1>7. \A b \in TrueBuckets : Clamp(Clamp(Counted(b)) + a) = Clamp(Counted(b) + a)
  BY <1>1, <1>2, ClampSum
<1>8. Clamp(0) = 0 /\ 0 + a = a
  BY <1>1, ConstantsOK DEF Clamp
<1> DEFINE Exact(b) == /\ Index(b) = current'.index => current'.count = Clamp(Counted(b)')
                       /\ Index(b) + 1 = current'.index => Carried' = Clamp(Counted(b)')
                       /\ Index(b) > current'.index => Counted(b)' = 0
<1>9. CASE /\ Index(s) = current.index /\ current'.index = Index(s)
           /\ current'.count = Clamp(current.count + a) /\ Carried' = Carried
  <2> SUFFICES ASSUME NEW b \in TrueBuckets PROVE Exact(b)
    BY <1>1, <1>2, <1>9 DEF CountsExact
  <2>1. CASE b = s
    BY <1>1, <1>2, <1>4, <1>5, <1>7, <1>9, <2>1
  <2>2. CASE b # s
    BY <1>1, <1>2, <1>4, <1>5, <1>6, <1>9, <2>2
  <2> QED
    BY <2>1, <2>2
<1>10. CASE /\ Index(s) > current.index /\ current'.index = Index(s)
            /\ current'.count = Clamp(a)
            /\ Carried' = IF Index(s) = current.index + 1 THEN current.count ELSE 0
  <2> SUFFICES ASSUME NEW b \in TrueBuckets PROVE Exact(b)
    BY <1>1, <1>2, <1>10 DEF CountsExact
  <2>1. CASE b = s
    BY <1>1, <1>2, <1>4, <1>5, <1>8, <1>10, <2>1
  <2>2. CASE b # s
    BY <1>1, <1>2, <1>4, <1>5, <1>6, <1>8, <1>10, <2>2
  <2> QED
    BY <2>1, <2>2
<1>11. CASE /\ Index(s) + 1 = current.index /\ Carried' = Clamp(Carried + a)
            /\ current'.index = current.index /\ current'.count = current.count
  <2>1. ASSUME NEW b \in TrueBuckets PROVE Exact(b)
    <3>1. CASE b = s
      BY <1>1, <1>2, <1>4, <1>5, <1>7, <1>11, <3>1
    <3>2. CASE b # s
      BY <1>1, <1>2, <1>4, <1>5, <1>6, <1>11, <3>2
    <3> QED
      BY <3>1, <3>2
  <2>2. current' = current
    BY <1>11 DEF TypeOK, Slot
  <2> QED
    BY <1>2, <2>1, <2>2 DEF CountsExact
<1>12. CASE /\ Index(s) + 1 < current.index /\ Carried' = Carried
            /\ current'.index = current.index /\ current'.count = current.count
  <2>1. ASSUME NEW b \in TrueBuckets PROVE Exact(b)
    <3>1. CASE b = s
      BY <1>1, <1>2, <1>4, <1>12, <3>1
    <3>2. CASE b # s
      BY <1>1, <1>2, <1>4, <1>5, <1>6, <1>12, <3>2
    <3> QED
      BY <3>1, <3>2
  <2>2. current' = current
    BY <1>12 DEF TypeOK, Slot
  <2> QED
    BY <1>2, <2>1, <2>2 DEF CountsExact
<1> QED
  BY <1>1, <1>9, <1>10, <1>11, <1>12 DEF TakesEffect

\* Every step keeps it.
LEMMA CountsStep ==
  ASSUME TypeOK, TypeOK', SlotsOrdered, CallsTyped, CallsTyped', GrantsOffered,
         CountsExact, [GateNext]_gateVars
  PROVE  CountsExact'
<1>0. \A b \in TrueBuckets :
         /\ offered[b] \in Nat /\ Counted(b) \in Nat /\ Total(Unapplied(b)) \in Nat
         /\ offered'[b] \in Nat /\ Total(Unapplied(b))' \in Nat /\ Counted(b)' \in Int
  BY CountedType, TotalsTyped, TotalsTypedNext DEF CallsTyped, SumsTyped, Counted
<1>1. CASE Tick \/ SetBack \/ UNCHANGED gateVars
  <2>1. UNCHANGED <<vars, registry>>
    BY <1>1, ClockForm
  <2>2. \A b \in TrueBuckets : Counted(b)' = Counted(b) /\ offered'[b] = offered[b]
    BY <2>1, SumsStill DEF Counted, registry
  <2>3. current' = current /\ Carried' = Carried
    BY <2>1 DEF vars, Carried, InPrevious, InFlight, Handovers, Adjacent, Rolling, Merging,
       MyBucket, Clamp
  <2> QED
    BY <1>0, <2>2, <2>3, CountsStill
<1>2. ASSUME NEW t \in Threads, NEW a \in Amounts \cup {0},
             \/ a \in Amounts /\ StartRecord(t, a)
             \/ a = 0 /\ StartCheck(t)
      PROVE  CountsExact'
  <2>1. /\ OthersCall(t)
        /\ UNCHANGED current
        /\ pc[t] = "idle"
        /\ arg'[t] = [now |-> clock, amount |-> a]
        /\ \/ /\ a \in Amounts /\ op'[t] = "record" /\ pc'[t] = "load"
              /\ offered' = [offered EXCEPT ![TrueBucket(clock)] = @ + a]
           \/ /\ a = 0 /\ op'[t] = "is_within_budget" /\ pc'[t] = "readCurrent"
              /\ offered' = offered
    BY <1>2, StartForm DEF OthersCall
  <2>2. Carried' = Carried
    <3>1. clock \in Times
      BY GateOK DEF CallsTyped
    <3>2. CASE a \in Amounts /\ StartRecord(t, a)
      <4>1. Atomic!CallAdd(t, BucketOf(clock), a)
        BY <3>1, <3>2, CallRefines DEF StartRecord
      <4> QED
        BY <4>1 DEF Atomic!CallAdd
    <3>3. CASE a = 0 /\ StartCheck(t)
      <4>1. Atomic!CallEstimate(t, BucketOf(clock))
        BY <3>1, <3>3, CallRefines DEF StartCheck
      <4> QED
        BY <4>1 DEF Atomic!CallEstimate
    <3> QED
      BY <1>2, <3>2, <3>3
  <2>3. ASSUME NEW b \in TrueBuckets
        PROVE  Counted(b)' = Counted(b)
    <3> DEFINE d == IF b = TrueBucket(clock) THEN a ELSE 0
    <3>1. a \in Nat /\ d \in Nat
      BY ConstantsOK
    <3>2. offered'[b] = offered[b] + d
      BY <1>0, <2>1, <3>1 DEF CallsTyped
    <3>3. Unapplied(b)[t] = 0 /\ Unapplied(b)'[t] = d
      BY <2>1 DEF Unapplied, StampedIn, Stamp, Phase, Merging
    <3>4. Counted(b)' + offered[b] + d = Counted(b) + offered'[b] + 0
      BY <2>1, <3>3, CountedMoves
    <3> HIDE DEF d
    <3> QED
      BY <1>0, <3>1, <3>2, <3>4
  <2> QED
    BY <2>1, <2>2, <2>3, CountsStill
<1>3. ASSUME NEW t \in Threads, Run(t)
      PROVE  CountsExact'
  <2>1. /\ OthersCall(t) /\ Step(t)
        /\ UNCHANGED <<arg, offered>>
        /\ pc[t] # "readPrevious" /\ pc[t] # "idle" /\ pc'[t] # "idle"
    BY <1>3, RunForm DEF OthersCall, registry
  <2>2. CASE TakesEffect(t)
    BY <2>1, <2>2, EffectCounts
  <2>3. CASE /\ Phase(t)' = Phase(t) /\ Carried' = Carried
             /\ current'.index = current.index /\ current'.count = current.count
    <3>1. ASSUME NEW b \in TrueBuckets
          PROVE  Counted(b)' = Counted(b)
      <4>1. Unapplied(b)'[t] = Unapplied(b)[t] /\ Unapplied(b)[t] \in Nat
        BY <2>1, <2>3, PartsTyped DEF Unapplied, StampedIn, Stamp, PartsNat
      <4>2. Counted(b)' + offered[b] + Unapplied(b)'[t]
               = Counted(b) + offered'[b] + Unapplied(b)[t]
        BY <2>1, CountedMoves
      <4> QED
        BY <1>0, <2>1, <4>1, <4>2
    <3> QED
      BY <2>3, <3>1, CountsStill
  <2> QED
    BY <2>1, <2>2, <2>3, StepEffect
<1>4. ASSUME NEW t \in Threads, Finish(t)
      PROVE  CountsExact'
  <2>1. /\ OthersCall(t)
        /\ UNCHANGED <<current, offered>>
        /\ pc[t] = "readPrevious" /\ pc'[t] = "idle"
    BY <1>4, FinishForm DEF OthersCall
  <2>2. Carried' = Carried
    <3>1. Atomic!Return(t)
      BY <1>4, ReturnRefines DEF Finish
    <3> QED
      BY <3>1 DEF Atomic!Return
  <2>3. ASSUME NEW b \in TrueBuckets
        PROVE  Counted(b)' = Counted(b)
    <3>1. Unapplied(b)[t] = 0 /\ Unapplied(b)'[t] = 0
      BY <2>1 DEF Unapplied, StampedIn, Phase, Merging
    <3>2. Counted(b)' + offered[b] + 0 = Counted(b) + offered'[b] + 0
      BY <2>1, <3>1, CountedMoves
    <3> QED
      BY <1>0, <2>1, <3>2
  <2> QED
    BY <2>1, <2>2, <2>3, CountsStill
<1> QED
  BY <1>1, <1>2, <1>3, <1>4 DEF GateNext

-----------------------------------------------------------------------------
(* Where a call finds current.                                               *)

\* Nothing offered is taken back, and current never moves back.
LEMMA OnlyForward ==
  ASSUME TypeOK, TypeOK', SlotsOrdered, CallsTyped, CallsTyped', [GateNext]_gateVars
  PROVE  /\ \A b \in TrueBuckets : offered[b] <= offered'[b]
         /\ current.index <= current'.index
<1>0. /\ \A b \in TrueBuckets : offered[b] \in Nat /\ offered'[b] \in Nat
      /\ current.index \in Nat /\ current'.index \in Nat
  BY DEF CallsTyped, TypeOK, Slot, Indices
<1>1. CASE Tick \/ SetBack \/ UNCHANGED gateVars
  BY <1>0, <1>1, ClockForm DEF vars, registry
<1>2. ASSUME NEW t \in Threads, NEW a \in Amounts \cup {0},
             \/ a \in Amounts /\ StartRecord(t, a)
             \/ a = 0 /\ StartCheck(t)
      PROVE  /\ \A b \in TrueBuckets : offered[b] <= offered'[b]
             /\ current.index <= current'.index
  <2>1. /\ UNCHANGED current
        /\ \/ /\ a \in Amounts /\ op'[t] = "record" /\ pc'[t] = "load"
              /\ offered' = [offered EXCEPT ![TrueBucket(clock)] = @ + a]
           \/ /\ a = 0 /\ op'[t] = "is_within_budget" /\ pc'[t] = "readCurrent"
              /\ offered' = offered
    BY <1>2, StartForm
  <2>2. a \in Nat
    BY ConstantsOK
  <2> QED
    BY <1>0, <2>1, <2>2 DEF CallsTyped
<1>3. ASSUME NEW t \in Threads, Run(t)
      PROVE  /\ \A b \in TrueBuckets : offered[b] <= offered'[b]
             /\ current.index <= current'.index
  <2>1. Step(t) /\ pc[t] # "readPrevious" /\ offered' = offered
    BY <1>3, RunForm DEF registry
  <2>2. MyBucket(t) \in Nat
    BY CallType
  <2> QED
    BY <1>0, <2>1, <2>2, StepEffect DEF TakesEffect
<1>4. ASSUME NEW t \in Threads, Finish(t)
      PROVE  /\ \A b \in TrueBuckets : offered[b] <= offered'[b]
             /\ current.index <= current'.index
  BY <1>0, <1>4, FinishForm
<1> QED
  BY <1>1, <1>2, <1>3, <1>4 DEF GateNext

-----------------------------------------------------------------------------
(* Where current is.                                                         *)

\* A step that leaves a record's call alone leaves its stamp and phase.
LEMMA CallStill ==
  ASSUME NEW u \in Threads, UNCHANGED <<pc[u], arg[u], carry[u]>>
  PROVE  /\ Stamp(u)' = Stamp(u) /\ Phase(u)' = Phase(u)
         /\ \A b : StampedIn(u, b)' = StampedIn(u, b)
  BY DEF Stamp, StampedIn, Phase, Rolling, Merging, MyBucket

\* Every step keeps it: only a record that takes effect moves current, to the
\* bucket it is stamped in.
LEMMA StampsStep ==
  ASSUME TypeOK, TypeOK', SlotsOrdered, CallsTyped, CallsTyped', StampsSeen,
         [GateNext]_gateVars
  PROVE  StampsSeen'
<1> DEFINE Waits(u, b) == StampedIn(u, b) /\ Phase(u) = "called"
<1>0. /\ current.index \in Nat /\ current'.index \in Nat
      /\ current.index <= current'.index
      /\ \A b \in TrueBuckets : Index(b) \in Nat
      /\ stamped \subseteq TrueBuckets /\ stamped' \subseteq TrueBuckets
  BY OnlyForward, IndexLow DEF CallsTyped, TypeOK, Slot, Indices
<1>1. CASE Tick \/ SetBack \/ UNCHANGED gateVars
  <2>1. UNCHANGED <<vars, registry>>
    BY <1>1, ClockForm
  <2>2. UNCHANGED <<current, stamped, op>> /\ \A u \in Threads : UNCHANGED <<pc[u], arg[u], carry[u]>>
    BY <2>1 DEF vars, registry
  <2>3. \A u \in Threads : Stamp(u)' = Stamp(u) /\ \A b : Waits(u, b)' = Waits(u, b)
    BY <2>2, CallStill
  <2> HIDE DEF Waits
  <2> QED
    BY <2>2, <2>3 DEF StampsSeen, Waits
<1>2. ASSUME NEW t \in Threads, NEW a \in Amounts \cup {0},
             \/ a \in Amounts /\ StartRecord(t, a)
             \/ a = 0 /\ StartCheck(t)
      PROVE  StampsSeen'
  <2>1. /\ OthersCall(t)
        /\ UNCHANGED <<current, carry>>
        /\ pc[t] = "idle" /\ arg'[t] = [now |-> clock, amount |-> a]
        /\ \/ /\ op'[t] = "record" /\ pc'[t] = "load"
              /\ stamped' = stamped \cup {TrueBucket(clock)}
           \/ /\ op'[t] = "is_within_budget" /\ stamped' = stamped
    BY <1>2, StartForm DEF OthersCall
  <2>2. ASSUME NEW u \in Threads \ {t}
        PROVE  op'[u] = op[u] /\ Stamp(u)' = Stamp(u) /\ \A b : Waits(u, b)' = Waits(u, b)
    BY <2>1, CallStill DEF OthersCall, OthersStill
  <2>3. \A b : ~Waits(t, b)
    BY <2>1 DEF StampedIn
  <2> PICK c : c = TrueBucket(clock)
    OBVIOUS
  <2>4. op'[t] = "record" => Stamp(t)' = c /\ c \in stamped' /\ Waits(t, c)'
    BY <2>1 DEF Stamp, StampedIn, Phase
  <2>5. current'.index = current.index /\ stamped \subseteq stamped'
    BY <2>1
  <2>6. ASSUME NEW b \in stamped'
        PROVE  Index(b) <= current.index \/ \E u \in Threads : Waits(u, b)'
    <3>1. CASE b \in stamped
      BY <2>2, <2>3, <3>1 DEF StampsSeen
    <3>2. CASE b \notin stamped
      <4>1. b = c /\ op'[t] = "record"
        BY <2>1, <2>6, <3>2
      <4> QED
        BY <2>4, <4>1
    <3> QED
      BY <3>1, <3>2
  <2>7. ASSUME NEW u \in Threads, op'[u] = "record" PROVE Stamp(u)' \in stamped'
    <3>1. CASE u = t
      BY <2>4, <2>7, <3>1
    <3>2. CASE u # t
      BY <2>2, <2>5, <2>7, <3>2 DEF StampsSeen
    <3> QED
      BY <3>1, <3>2
  <2> QED
    BY <2>1, <2>5, <2>6, <2>7 DEF StampsSeen
<1>3. ASSUME NEW t \in Threads, Run(t)
      PROVE  StampsSeen'
  <2>1. /\ OthersCall(t) /\ Step(t)
        /\ UNCHANGED <<arg, op, stamped>>
        /\ pc[t] # "readPrevious" /\ pc[t] # "idle" /\ pc'[t] # "idle"
    BY <1>3, RunForm DEF OthersCall, registry
  <2>2. \A u \in Threads \ {t} : \A b : Waits(u, b)' = Waits(u, b)
    BY <2>1, CallStill DEF OthersCall, OthersStill
  <2>3. \A u \in Threads : Stamp(u)' = Stamp(u)
    BY <2>1 DEF Stamp
  <2>4. \A b : StampedIn(t, b)' = StampedIn(t, b)
    BY <2>1, <2>3 DEF StampedIn
  <2>5. CASE /\ Phase(t)' = Phase(t)
             /\ current'.index = current.index /\ current'.count = current.count
    <3>1. current' = current
      <4>1. /\ current = Slots(current.index, current.count)
            /\ current' = Slots(current'.index, current'.count)
        BY DEF TypeOK, Slot, Slots
      <4> QED
        BY <2>5, <4>1
    <3>2. \A u \in Threads : \A b : Waits(u, b)' = Waits(u, b)
      BY <2>2, <2>4, <2>5
    <3> HIDE DEF Waits
    <3> QED
      BY <2>1, <2>3, <3>1, <3>2 DEF StampsSeen, Waits
  <2>6. CASE TakesEffect(t)
    <3> PICK s \in TrueBuckets : s = Stamp(t)
      BY <2>1, CalledForm
    <3>1. Phase(t) = "called" /\ op[t] = "record" /\ MyBucket(t) = Index(s)
      BY <2>1, <2>6, CalledForm DEF TakesEffect
    <3>2. s \in stamped
      BY <3>1 DEF StampsSeen
    <3>3. Index(s) <= current'.index
      BY <1>0, <2>6, <3>1 DEF TakesEffect
    <3>4. \/ current'.index = Index(s)
          \/ current'.index = current.index /\ current'.count = current.count
      BY <2>6, <3>1 DEF TakesEffect
    <3>5. current' = EmptySlot \/ \E b \in stamped : Index(b) = current'.index
      <4>1. CASE current'.index = Index(s)
        BY <3>2, <4>1
      <4>2. CASE current'.index = current.index /\ current'.count = current.count
        <5>1. current' = current
          <6>1. /\ current = Slots(current.index, current.count)
                /\ current' = Slots(current'.index, current'.count)
            BY DEF TypeOK, Slot, Slots
          <6> QED
            BY <4>2, <6>1
        <5> QED
          BY <5>1 DEF StampsSeen
      <4> QED
        BY <3>4, <4>1, <4>2
    <3>6. ASSUME NEW b \in stamped
          PROVE  Index(b) <= current'.index \/ \E u \in Threads : Waits(u, b)'
      <4>1. CASE b = s
        BY <3>3, <4>1
      <4>2. CASE b # s
        <5>1. ~Waits(t, b)
          BY <4>2 DEF StampedIn
        <5>2. CASE Index(b) <= current.index
          BY <1>0, <3>6, <5>2
        <5>3. CASE \E u \in Threads : Waits(u, b)
          BY <2>2, <5>1, <5>3
        <5> QED
          BY <3>6, <5>2, <5>3 DEF StampsSeen
      <4> QED
        BY <4>1, <4>2
    <3> QED
      BY <2>1, <2>3, <3>5, <3>6 DEF StampsSeen
  <2> QED
    BY <2>1, <2>5, <2>6, StepEffect
<1>4. ASSUME NEW t \in Threads, Finish(t)
      PROVE  StampsSeen'
  <2>1. /\ OthersCall(t)
        /\ UNCHANGED <<current, stamped>>
        /\ pc[t] = "readPrevious" /\ op'[t] = "none"
    BY <1>4, FinishForm DEF OthersCall
  <2>2. ASSUME NEW u \in Threads \ {t}
        PROVE  op'[u] = op[u] /\ Stamp(u)' = Stamp(u) /\ \A b : Waits(u, b)' = Waits(u, b)
    BY <2>1, CallStill DEF OthersCall, OthersStill
  <2>3. \A b : ~Waits(t, b)
    BY <2>1 DEF Phase, Merging
  <2>4. ASSUME NEW u \in Threads, op'[u] = "record" PROVE Stamp(u)' \in stamped'
    BY <2>1, <2>2, <2>4 DEF StampsSeen
  <2>5. ASSUME NEW b \in stamped'
        PROVE  Index(b) <= current.index \/ \E u \in Threads : Waits(u, b)'
    BY <2>1, <2>2, <2>3, <2>5 DEF StampsSeen
  <2> QED
    BY <2>1, <2>4, <2>5 DEF StampsSeen
<1> QED
  BY <1>1, <1>2, <1>3, <1>4 DEF GateNext

-----------------------------------------------------------------------------
(* What a call has read.                                                     *)

\* A record that has taken effect finds current in its bucket or a later one.
LEMMA SeenStep ==
  ASSUME TypeOK, TypeOK', SlotsOrdered, CallsTyped, CallsTyped', EffectSeen,
         [GateNext]_gateVars
  PROVE  EffectSeen'
<1>0. /\ current.index \in Nat /\ current'.index \in Nat /\ current.index <= current'.index
      /\ \A u \in Threads : word[u].index \in Nat /\ word'[u].index \in Nat
                            /\ MyBucket(u) \in Nat
  BY OnlyForward, CallType DEF TypeOK, Slot, Indices
<1> DEFINE Seen(u) ==
       /\ Phase(u) = "applied" /\ op[u] = "record" => MyBucket(u) <= current.index
       /\ pc[u] = "readPrevious" =>
             /\ word[u].index <= current.index
             /\ op[u] = "record" => MyBucket(u) <= word[u].index
<1>1. \A u \in Threads : Seen(u)
  BY DEF EffectSeen
<1>2. SUFFICES ASSUME NEW u \in Threads PROVE Seen(u)'
  BY DEF EffectSeen
<1>3. ASSUME UNCHANGED <<pc[u], arg[u], word[u], carry[u], op[u]>> PROVE Seen(u)'
  <2>1. Phase(u)' = Phase(u) /\ MyBucket(u)' = MyBucket(u)
    BY <1>3 DEF Phase, Rolling, Merging, MyBucket
  <2> QED
    BY <1>0, <1>1, <1>3, <2>1
<1>4. CASE Tick \/ SetBack \/ UNCHANGED gateVars
  BY <1>3, <1>4, ClockForm DEF vars, registry
<1>5. ASSUME NEW t \in Threads, NEW a \in Amounts \cup {0},
             \/ a \in Amounts /\ StartRecord(t, a)
             \/ a = 0 /\ StartCheck(t)
      PROVE  Seen(u)'
  <2>1. /\ OthersCall(t)
        /\ \/ op'[t] = "record" /\ pc'[t] = "load"
           \/ op'[t] = "is_within_budget" /\ pc'[t] = "readCurrent"
    BY <1>5, StartForm DEF OthersCall
  <2>2. CASE u = t
    BY <2>1, <2>2 DEF Phase
  <2>3. CASE u # t
    BY <1>3, <2>1, <2>3 DEF OthersCall, OthersStill
  <2> QED
    BY <2>2, <2>3
<1>6. ASSUME NEW t \in Threads, Run(t)
      PROVE  Seen(u)'
  <2>1. /\ OthersCall(t) /\ Step(t)
        /\ UNCHANGED <<arg, op>>
        /\ pc[t] # "readPrevious"
        /\ pc[t] = "readCurrent" <=> pc'[t] = "readPrevious"
        /\ pc[t] = "readCurrent" => ReadCurrent(t)
    BY <1>6, RunForm DEF OthersCall, registry
  <2>2. CASE u = t
    <3>1. MyBucket(t)' = MyBucket(t)
      BY <2>1 DEF MyBucket
    <3>2. Phase(t)' = "applied" /\ op[t] = "record" => MyBucket(t) <= current'.index
      BY <1>0, <1>1, <2>1, StepEffect DEF TakesEffect
    <3>3. pc'[t] = "readPrevious" => word'[t] = current /\ current' = current
                                     /\ Phase(t) = "applied"
      BY <2>1 DEF ReadCurrent, Phase, Merging, TypeOK
    <3> QED
      BY <1>0, <1>1, <2>1, <2>2, <3>1, <3>2, <3>3
  <2>3. CASE u # t
    BY <1>3, <2>1, <2>3 DEF OthersCall, OthersStill
  <2> QED
    BY <2>2, <2>3
<1>7. ASSUME NEW t \in Threads, Finish(t)
      PROVE  Seen(u)'
  <2>1. OthersCall(t) /\ pc'[t] = "idle"
    BY <1>7, FinishForm DEF OthersCall
  <2>2. CASE u = t
    BY <2>1, <2>2 DEF Phase
  <2>3. CASE u # t
    BY <1>3, <2>1, <2>3 DEF OthersCall, OthersStill
  <2> QED
    BY <2>2, <2>3
<1> QED
  BY <1>4, <1>5, <1>6, <1>7 DEF GateNext

\* current never holds more than what was offered in its bucket.
LEMMA CurrentOffered ==
  ASSUME TypeOK, CallsTyped, GrantsOffered, CountsExact, StampsSeen
  PROVE  \/ current.count = 0
         \/ \E b \in TrueBuckets : Index(b) = current.index /\ current.count <= offered[b]
<1>1. CASE current = EmptySlot
  BY <1>1 DEF EmptySlot, Slots
<1>2. ASSUME NEW b \in TrueBuckets, Index(b) = current.index
      PROVE  current.count <= offered[b]
  <2>1. /\ current.count = Clamp(Counted(b)) /\ Counted(b) \in Nat /\ Counted(b) <= offered[b]
        /\ offered[b] \in Nat
    BY <1>2, CountedType DEF CountsExact, CallsTyped
  <2> QED
    BY <2>1, ConstantsOK DEF Clamp
<1> QED
  BY <1>1, <1>2 DEF StampsSeen, CallsTyped

\* So a word read from it does not either.
LEMMA WordsStep ==
  ASSUME TypeOK, TypeOK', SlotsOrdered, CallsTyped, CallsTyped', GrantsOffered, CountsExact,
         StampsSeen, WordsOffered, [GateNext]_gateVars
  PROVE  WordsOffered'
<1> DEFINE Offer(c) == \/ c.count = 0
                       \/ \E b \in TrueBuckets : Index(b) = c.index /\ c.count <= offered[b]
<1>0. \A b \in TrueBuckets : offered[b] <= offered'[b] /\ offered[b] \in Nat /\ offered'[b] \in Nat
  BY OnlyForward DEF CallsTyped
<1>1. ASSUME NEW c \in Slot, Offer(c)
      PROVE  \/ c.count = 0
             \/ \E b \in TrueBuckets : Index(b) = c.index /\ c.count <= offered'[b]
  <2>1. c.count \in Nat
    BY ConstantsOK DEF Slot, Counts
  <2> QED
    BY <1>0, <1>1, <2>1
<1>2. SUFFICES ASSUME NEW u \in Threads, pc'[u] = "readPrevious"
               PROVE  \/ word'[u].count = 0
                      \/ \E b \in TrueBuckets : Index(b) = word'[u].index
                                                /\ word'[u].count <= offered'[b]
  BY DEF WordsOffered
<1>3. CASE pc[u] = "readPrevious" /\ word'[u] = word[u]
  <2>1. Offer(word[u]) /\ word[u] \in Slot
    BY <1>3 DEF WordsOffered, TypeOK
  <2> HIDE DEF Offer
  <2> QED
    BY <1>1, <1>3, <2>1
<1>4. CASE word'[u] = current
  <2>1. Offer(current) /\ current \in Slot
    BY CurrentOffered DEF TypeOK
  <2> HIDE DEF Offer
  <2> QED
    BY <1>1, <1>4, <2>1
<1>5. (pc[u] = "readPrevious" /\ word'[u] = word[u]) \/ word'[u] = current
  <2>1. CASE Tick \/ SetBack \/ UNCHANGED gateVars
    BY <1>2, <2>1, ClockForm DEF vars
  <2>2. ASSUME NEW t \in Threads, NEW a \in Amounts \cup {0},
               \/ a \in Amounts /\ StartRecord(t, a)
               \/ a = 0 /\ StartCheck(t)
        PROVE  (pc[u] = "readPrevious" /\ word'[u] = word[u]) \/ word'[u] = current
    <3>1. OthersStill(t) /\ pc'[t] \in {"load", "readCurrent"}
      BY <2>2, StartForm
    <3> QED
      BY <1>2, <3>1 DEF OthersStill
  <2>3. ASSUME NEW t \in Threads, Run(t)
        PROVE  (pc[u] = "readPrevious" /\ word'[u] = word[u]) \/ word'[u] = current
    <3>1. /\ OthersStill(t)
          /\ pc'[t] = "readPrevious" => ReadCurrent(t)
      BY <2>3, RunForm
    <3> QED
      BY <1>2, <3>1 DEF OthersStill, ReadCurrent, TypeOK
  <2>4. ASSUME NEW t \in Threads, Finish(t)
        PROVE  (pc[u] = "readPrevious" /\ word'[u] = word[u]) \/ word'[u] = current
    <3>1. OthersStill(t) /\ pc'[t] = "idle"
      BY <2>4, FinishForm
    <3> QED
      BY <1>2, <3>1 DEF OthersStill
  <2> QED
    BY <2>1, <2>2, <2>3, <2>4 DEF GateNext
<1> QED
  BY <1>3, <1>4, <1>5

-----------------------------------------------------------------------------
(* Grants on time.                                                           *)

\* A caller is granted on time only what it still found within the limit: the
\* estimate it judges is at least the count it read.
LEMMA GrantedForm ==
  ASSUME TypeOK, CallsTyped, NEW t \in Threads, pc[t] = "readPrevious", Granted(t), OnTime(t)
  PROVE  MayBeGranted(t)
<1>1. Returned(t) <= MaxTokens
  BY DEF Granted, Verdict
<1>2. word[t].index = BucketOf(arg[t].now)
  BY DEF OnTime, MyBucket
<1> DEFINE i == BucketOf(arg[t].now)
           p == IF previous.index = WrappingSub(i, 1) THEN previous.count ELSE 0
<1>3. Returned(t) = Weighted(word[t].count, p, i, arg[t].now)
  BY <1>2 DEF Returned, Estimate
<1>4. /\ word[t].count \in Nat /\ p \in Nat /\ i \in Nat /\ arg[t].now \in Nat
      /\ MaxTokens \in Nat
  <2>1. word[t].count \in Nat /\ previous.count \in Nat
    BY ConstantsOK DEF TypeOK, Slot, Counts
  <2>2. i \in Nat
    BY CallType DEF MyBucket
  <2>3. arg[t].now \in Nat
    <3>1. arg[t].now \in Times \cup {0}
      BY CallType
    <3>2. \A n \in Times \cup {0} : n \in Nat
      BY ConstantsOK
    <3> QED
      BY <3>1, <3>2
  <2> QED
    BY <2>1, <2>2, <2>3, GateOK
<1> HIDE DEF i, p
<1>5. /\ Weighted(word[t].count, p, i, arg[t].now) \in Nat
      /\ word[t].count <= Weighted(word[t].count, p, i, arg[t].now)
  BY <1>4, WeightedBetween
<1>6. word[t].count <= MaxTokens
  BY <1>1, <1>3, <1>4, <1>5
<1> QED
  BY <1>6 DEF MayBeGranted

\* A caller that reads current within the limit in its own bucket finds its
\* own amount, those of the others that may be granted, and all that was
\* granted, counted there: a count below saturation misses none of them.
LEMMA OnTimeStep ==
  ASSUME TypeOK, TypeOK', SlotsOrdered, CallsTyped, CallsTyped', GrantsOffered, GrantsOffered',
         CountsExact, CountsExact', OnTimeBounded, [GateNext]_gateVars
  PROVE  OnTimeBounded'
<1>1. SUFFICES ASSUME NEW b \in TrueBuckets
               PROVE  onTime'[b] + Total(Grantable(b))' <= MaxTokens
  BY DEF OnTimeBounded
<1>0. /\ onTime[b] + Total(Grantable(b)) <= MaxTokens
      /\ onTime[b] \in Nat /\ Total(Grantable(b)) \in Nat /\ MaxTokens \in Nat
      /\ onTime'[b] \in Nat /\ late'[b] \in Nat /\ Total(Grantable(b))' \in Nat
  BY GateOK, TotalsTyped, TotalsTypedNext DEF OnTimeBounded, CallsTyped, SumsTyped
<1>2. CASE Tick \/ SetBack \/ UNCHANGED gateVars
  BY <1>0, <1>2, ClockForm, SumsStill DEF registry
<1>3. ASSUME NEW t \in Threads, OthersCall(t), UNCHANGED onTime,
             Grantable(b)[t] = 0, Grantable(b)'[t] = 0
      PROVE  onTime'[b] + Total(Grantable(b))' <= MaxTokens
  <2>1. Total(Grantable(b))' + 0 = Total(Grantable(b)) + 0
    BY <1>3, TotalsMove
  <2> QED
    BY <1>0, <1>3, <2>1
<1>4. ASSUME NEW t \in Threads, NEW a \in Amounts \cup {0},
             \/ a \in Amounts /\ StartRecord(t, a)
             \/ a = 0 /\ StartCheck(t)
      PROVE  onTime'[b] + Total(Grantable(b))' <= MaxTokens
  <2>1. OthersCall(t) /\ UNCHANGED onTime /\ pc[t] = "idle" /\ pc'[t] # "readPrevious"
    BY <1>4, StartForm DEF OthersCall
  <2> QED
    BY <1>3, <2>1 DEF Grantable, MayBeGranted
<1>5. ASSUME NEW t \in Threads, Run(t)
      PROVE  onTime'[b] + Total(Grantable(b))' <= MaxTokens
  <2>1. /\ OthersCall(t) /\ UNCHANGED <<onTime, arg>>
        /\ pc[t] # "readPrevious" /\ pc[t] # "idle"
        /\ pc[t] = "readCurrent" <=> pc'[t] = "readPrevious"
        /\ pc[t] = "readCurrent" => ReadCurrent(t)
    BY <1>5, RunForm DEF OthersCall, registry
  <2>2. Grantable(b)[t] = 0
    BY <2>1 DEF Grantable, MayBeGranted
  <2>3. CASE Grantable(b)'[t] = 0
    BY <1>3, <2>1, <2>2, <2>3
  <2>4. CASE Grantable(b)'[t] # 0
    <3>1. StampedIn(t, b)' /\ MayBeGranted(t)'
      BY <2>4 DEF Grantable
    <3>2. word'[t] = current /\ current' = current
      BY <2>1, <3>1 DEF MayBeGranted, ReadCurrent, TypeOK
    <3>3. current'.index = Index(b) /\ current'.count <= MaxTokens
      BY <3>1, <3>2 DEF MayBeGranted, OnTime, StampedIn, Stamp, MyBucket, BucketOf, Index, TrueBucket
    <3>4. current'.count = Clamp(Counted(b)') /\ Counted(b)' \in Nat
      BY <3>3, CountedTypeNext DEF CountsExact
    <3>5. Counted(b)' <= MaxTokens
      BY <1>0, <3>3, <3>4, LimitCounts, ConstantsOK DEF Clamp
    <3>6. /\ onTime'[b] + late'[b] + Total(Running(b))' <= offered'[b]
          /\ Counted(b)' = offered'[b] - Total(Unapplied(b))'
          /\ offered'[b] \in Nat
      BY DEF GrantsOffered, Counted, CallsTyped
    <3>7. /\ Total(Running(b))' \in Nat /\ Total(Unapplied(b))' \in Nat
          /\ Total(Grantable(b))' + Total(Unapplied(b))' <= Total(Running(b))'
      BY TotalsTypedNext DEF SumsTyped
    <3> QED
      BY <1>0, <3>4, <3>5, <3>6, <3>7
  <2> QED
    BY <2>3, <2>4
<1>6. ASSUME NEW t \in Threads, Finish(t)
      PROVE  onTime'[b] + Total(Grantable(b))' <= MaxTokens
  <2>1. /\ OthersCall(t)
        /\ pc[t] = "readPrevious" /\ pc'[t] = "idle" /\ Stamp(t) \in TrueBuckets
        /\ onTime' = IF Granted(t) /\ OnTime(t) THEN Add(onTime, Stamp(t), arg[t].amount)
                                                ELSE onTime
    BY <1>6, FinishForm DEF OthersCall
  <2>2. Grantable(b)'[t] = 0 /\ Grantable(b)[t] \in Nat
    BY <2>1, PartsTyped DEF Grantable, MayBeGranted, PartsNat
  <2>3. Total(Grantable(b))' + Grantable(b)[t] = Total(Grantable(b)) + 0
    BY <2>1, <2>2, TotalsMove
  <2>4. CASE Granted(t) /\ OnTime(t) /\ b = Stamp(t)
    <3>1. Grantable(b)[t] = arg[t].amount
      BY <2>1, <2>4, GrantedForm DEF Grantable, StampedIn
    <3>2. onTime'[b] = onTime[b] + arg[t].amount
      BY <2>1, <2>4 DEF Add, CallsTyped
    <3> QED
      BY <1>0, <2>2, <2>3, <3>1, <3>2
  <2>5. CASE ~(Granted(t) /\ OnTime(t) /\ b = Stamp(t))
    <3>1. onTime'[b] = onTime[b]
      BY <2>1, <2>5 DEF Add, CallsTyped
    <3> QED
      BY <1>0, <2>2, <2>3, <3>1
  <2> QED
    BY <2>4, <2>5
<1> QED
  BY <1>2, <1>4, <1>5, <1>6 DEF GateNext

-----------------------------------------------------------------------------
(* Late grants.                                                              *)

\* The most that all callers but one can cost.
Overshoot == (Cardinality(Threads) - 1) * MaxAmount

\* It is a number: there is some caller.
LEMMA OvershootType == Overshoot \in Nat
<1>1. Cardinality(Threads) \in Nat /\ Cardinality(Threads) # 0
  BY GateOK, FS_CardinalityType, FS_EmptySet
<1>2. Cardinality(Threads) - 1 \in Nat /\ MaxAmount \in Nat
  BY <1>1, GateOK
<1> HIDE DEF Overshoot
<1> QED
  BY <1>2 DEF Overshoot

\* While one caller is not among them, the records running in a bucket cost
\* no more than that.
LEMMA CostOfOthers ==
  ASSUME TypeOK, NEW t \in Threads, NEW b, CouldCost(b)[t] = 0
  PROVE  Total(CouldCost(b)) <= Overshoot
<1>1. IsFiniteSet(Threads) /\ MaxAmount \in Nat
  BY GateOK
<1>2. \A u \in Threads : CouldCost(b)[u] \in Nat /\ CouldCost(b)[u] <= MaxAmount
  BY <1>1 DEF CouldCost
<1>3. /\ IsFiniteSet(Threads \ {t}) /\ Cardinality(Threads \ {t}) = Cardinality(Threads) - 1
      /\ \A u \in Threads \ {t} : u \in Threads
  BY <1>1, FS_RemoveElement
<1>4. SumFunctionOnSet(CouldCost(b), Threads \ {t}) <= Overshoot
  BY <1>1, <1>2, <1>3, SumBounded DEF Overshoot
<1>5. /\ SumFunctionOnSet(CouldCost(b), Threads)
           = CouldCost(b)[t] + SumFunctionOnSet(CouldCost(b), Threads \ {t})
      /\ SumFunctionOnSet(CouldCost(b), Threads \ {t}) \in Nat
  BY <1>1, <1>2, <1>3, SumOfOneMore, SumType
<1> QED
  BY <1>4, <1>5 DEF Total

\* A call that finds current past its bucket was already running when current
\* left: the call that moved it on is not one of them.
LEMMA LateStep ==
  ASSUME TypeOK, TypeOK', SlotsOrdered, CallsTyped, CallsTyped', EffectSeen, LateBounded,
         [GateNext]_gateVars
  PROVE  LateBounded'
<1> SUFFICES ASSUME back' = 0
             PROVE  /\ \A t \in Threads : pc'[t] # "idle" => arg'[t].now <= clock'
                    /\ \A b \in TrueBuckets :
                          IF current'.index <= Index(b) THEN late'[b] = 0
                          ELSE /\ b < TrueBucket(clock')
                               /\ late'[b] + Total(CouldCost(b))' <= Overshoot
  BY DEF LateBounded, Overshoot
<1> DEFINE NoneAhead == \A t \in Threads : pc[t] # "idle" => arg[t].now <= clock
           Bounded(b) == IF current.index <= Index(b) THEN late[b] = 0
                       ELSE /\ b < TrueBucket(clock)
                            /\ late[b] + Total(CouldCost(b)) <= Overshoot
<1>0. /\ clock \in Nat /\ clock' \in Nat
      /\ TrueBucket(clock) \in TrueBuckets /\ TrueBucket(clock') \in TrueBuckets
      /\ \A b \in TrueBuckets : b \in Nat /\ Index(b) \in Nat
      /\ Overshoot \in Nat /\ MaxAmount \in Nat
      /\ current.index \in Nat /\ current'.index \in Nat /\ current.index <= current'.index
  <2>1. /\ clock \in StartTime .. MaxTime /\ clock' \in StartTime .. MaxTime
    BY DEF CallsTyped
  <2>2. \A b \in TrueBuckets : b \in Nat /\ Index(b) \in Nat
    BY ClockBucket, IndexLow
  <2> QED
    BY <2>1, <2>2, ClockBucket, OvershootType, GateOK, OnlyForward DEF TypeOK, Slot, Indices
<1>1. \A b \in TrueBuckets :
         /\ late[b] \in Nat /\ late'[b] \in Nat
         /\ Total(CouldCost(b)) \in Nat /\ Total(CouldCost(b))' \in Nat
  BY TotalsTyped, TotalsTypedNext DEF CallsTyped, SumsTyped
<1>2. CASE Tick \/ SetBack \/ UNCHANGED gateVars
  <2>1. UNCHANGED <<vars, registry>> /\ back = 0 /\ clock <= clock'
    BY <1>2, ClockForm
  <2>2. NoneAhead /\ \A b \in TrueBuckets : Bounded(b)
    BY <2>1 DEF LateBounded, Overshoot
  <2>3. TrueBucket(clock) <= TrueBucket(clock')
    BY <2>1, ClockBucket DEF CallsTyped
  <2>4. \A t \in Threads : pc'[t] # "idle" => arg'[t].now <= clock'
    <3>1. \A t \in Threads : pc[t] # "idle" => arg[t].now \in Nat
      BY ClockBucket DEF CallsTyped
    <3> QED
      BY <1>0, <2>1, <2>2, <3>1 DEF vars
  <2>5. ASSUME NEW b \in TrueBuckets
        PROVE  Bounded(b)'
    <3>1. Total(CouldCost(b))' = Total(CouldCost(b)) /\ late' = late /\ current' = current
      BY <2>1, SumsStill DEF vars, registry
    <3> QED
      BY <1>0, <2>2, <2>3, <3>1
  <2> QED
    BY <2>4, <2>5
<1>3. ASSUME UNCHANGED back
      PROVE  /\ back = 0 /\ NoneAhead
             /\ \A b \in TrueBuckets : Bounded(b)
  BY <1>3 DEF LateBounded, Overshoot
<1>4. ASSUME NEW t \in Threads, OthersCall(t), UNCHANGED <<back, clock>>,
             pc'[t] # "idle" => arg'[t].now <= clock
      PROVE  \A u \in Threads : pc'[u] # "idle" => arg'[u].now <= clock'
  BY <1>3, <1>4 DEF OthersCall, OthersStill
<1>5. ASSUME NEW t \in Threads, NEW a \in Amounts \cup {0},
             \/ a \in Amounts /\ StartRecord(t, a)
             \/ a = 0 /\ StartCheck(t)
      PROVE  NoneAhead' /\ \A b \in TrueBuckets : Bounded(b)'
  <2>1. /\ OthersCall(t)
        /\ UNCHANGED <<current, back, clock, late>>
        /\ pc[t] = "idle" /\ op[t] = "none"
        /\ arg'[t] = [now |-> clock, amount |-> a]
    BY <1>5, StartForm DEF OthersCall
  <2>2. NoneAhead'
    BY <1>0, <1>4, <2>1
  <2>3. ASSUME NEW b \in TrueBuckets PROVE Bounded(b)'
    <3>1. CASE current.index <= Index(b)
      BY <1>3, <2>1, <3>1
    <3>2. CASE ~(current.index <= Index(b))
      <4>1. b < TrueBucket(clock) /\ late[b] + Total(CouldCost(b)) <= Overshoot
        BY <1>3, <2>1, <3>2
      <4>2. CouldCost(b)[t] = 0 /\ CouldCost(b)'[t] = 0
        BY <1>0, <2>1, <4>1 DEF CouldCost, StampedIn, Stamp
      <4>3. Total(CouldCost(b))' + 0 = Total(CouldCost(b)) + 0
        BY <2>1, <4>2, TotalsMove
      <4> QED
        BY <1>1, <2>1, <3>2, <4>1, <4>3
    <3> QED
      BY <3>1, <3>2
  <2> QED
    BY <2>2, <2>3
<1>6. ASSUME NEW t \in Threads, Run(t)
      PROVE  NoneAhead' /\ \A b \in TrueBuckets : Bounded(b)'
  <2>1. /\ OthersCall(t) /\ Step(t)
        /\ UNCHANGED <<back, clock, late, arg, op>>
        /\ pc[t] # "idle" /\ pc'[t] # "idle" /\ pc[t] # "readPrevious"
    BY <1>6, RunForm DEF OthersCall, registry
  <2>2. NoneAhead'
    BY <1>3, <1>4, <2>1
  <2>3. ASSUME NEW b \in TrueBuckets PROVE Bounded(b)'
    <3>1. CASE current'.index <= Index(b)
      <4>1. current.index <= Index(b)
        BY <1>0, <3>1
      <4> QED
        BY <1>3, <2>1, <3>1, <4>1
    <3>2. CASE ~(current'.index <= Index(b)) /\ ~(current.index <= Index(b))
      <4>1. b < TrueBucket(clock) /\ late[b] + Total(CouldCost(b)) <= Overshoot
        BY <1>3, <2>1, <3>2
      <4>2. CouldCost(b)'[t] = CouldCost(b)[t] /\ CouldCost(b)[t] \in Nat
        BY <2>1, PartsTyped DEF CouldCost, StampedIn, Stamp, PartsNat
      <4>3. Total(CouldCost(b))' + CouldCost(b)[t] = Total(CouldCost(b)) + CouldCost(b)'[t]
        BY <2>1, TotalsMove
      <4> QED
        BY <1>1, <2>1, <3>2, <4>1, <4>2, <4>3
    <3>3. CASE ~(current'.index <= Index(b)) /\ current.index <= Index(b)
      <4>1. late[b] = 0
        BY <1>3, <2>1, <3>3
      <4>2. current'.index = MyBucket(t)
        BY <1>0, <2>1, <3>3, StepEffect DEF TakesEffect
      <4>3. Stamp(t) \in TrueBuckets /\ MyBucket(t) = Index(Stamp(t))
        BY <2>1, CalledForm
      <4>4. b < Stamp(t)
        BY <1>0, <3>3, <4>2, <4>3, BucketsCompare
      <4>5. Stamp(t) <= TrueBucket(clock)
        BY <1>3, <2>1, ClockBucket DEF CallsTyped, Stamp
      <4>6. CouldCost(b)[t] = 0 /\ CouldCost(b)'[t] = 0
        BY <1>0, <2>1, <4>4 DEF CouldCost, StampedIn, Stamp
      <4>7. Total(CouldCost(b)) <= Overshoot
        BY <4>6, CostOfOthers
      <4>8. Total(CouldCost(b))' + 0 = Total(CouldCost(b)) + 0
        BY <2>1, <4>6, TotalsMove
      <4>9. b < TrueBucket(clock')
        BY <1>0, <2>1, <4>3, <4>4, <4>5
      <4> QED
        BY <1>1, <2>1, <3>3, <4>1, <4>7, <4>8, <4>9
    <3> QED
      BY <3>1, <3>2, <3>3
  <2> QED
    BY <2>2, <2>3
<1>7. ASSUME NEW t \in Threads, Finish(t)
      PROVE  NoneAhead' /\ \A b \in TrueBuckets : Bounded(b)'
  <2>1. /\ OthersCall(t)
        /\ UNCHANGED <<current, back, clock>>
        /\ pc[t] = "readPrevious" /\ pc'[t] = "idle" /\ Stamp(t) \in TrueBuckets
        /\ late' = IF Granted(t) /\ ~OnTime(t) THEN Add(late, Stamp(t), arg[t].amount)
                                               ELSE late
    BY <1>7, FinishForm DEF OthersCall
  <2>2. NoneAhead'
    BY <1>4, <2>1
  <2>3. ASSUME NEW b \in TrueBuckets PROVE Bounded(b)'
    <3> DEFINE grows == Granted(t) /\ ~OnTime(t) /\ b = Stamp(t)
    <3>1. CouldCost(b)'[t] = 0 /\ CouldCost(b)[t] \in Nat
      BY <2>1, PartsTyped DEF CouldCost, StampedIn, PartsNat
    <3>2. Total(CouldCost(b))' + CouldCost(b)[t] = Total(CouldCost(b)) + 0
      BY <2>1, <3>1, TotalsMove
    <3>3. CASE ~grows
      <4>1. late'[b] = late[b]
        BY <2>1, <3>3 DEF Add, CallsTyped
      <4>2. CASE current.index <= Index(b)
        BY <1>3, <2>1, <4>1, <4>2
      <4>3. CASE ~(current.index <= Index(b))
        <5>1. b < TrueBucket(clock) /\ late[b] + Total(CouldCost(b)) <= Overshoot
          BY <1>3, <2>1, <4>3
        <5> HIDE DEF grows
        <5> QED
          BY <1>0, <1>1, <2>1, <3>1, <3>2, <4>1, <4>3, <5>1
      <4> QED
        BY <4>2, <4>3
    <3>4. CASE grows
      <4>1. op[t] = "record" /\ pc[t] # "idle"
        BY <2>1, <3>4 DEF Granted
      <4>2. arg[t].amount \in 0 .. MaxAmount /\ MyBucket(t) = Index(b)
        BY <3>4, <4>1, CalledForm
      <4>3. word[t].index # Index(b) /\ Index(b) <= word[t].index /\ word[t].index <= current.index
        BY <2>1, <3>4, <4>1, <4>2 DEF OnTime, EffectSeen
      <4>4. word[t].index \in Nat
        BY DEF TypeOK, Slot, Indices
      <4>5. ~(current.index <= Index(b))
        BY <1>0, <4>3, <4>4
      <4>6. late'[b] = late[b] + arg[t].amount
        BY <2>1, <3>4 DEF Add, CallsTyped
      <4>7. CouldCost(b)[t] = MaxAmount
        BY <3>4, <4>1 DEF CouldCost, StampedIn
      <4>8. b < TrueBucket(clock) /\ late[b] + Total(CouldCost(b)) <= Overshoot
        BY <1>3, <2>1, <4>5
      <4> HIDE DEF grows
      <4> QED
        BY <1>0, <1>1, <2>1, <3>2, <4>2, <4>5, <4>6, <4>7, <4>8
    <3> QED
      BY <3>3, <3>4
  <2> QED
    BY <2>2, <2>3
<1> QED
  BY <1>2, <1>5, <1>6, <1>7 DEF GateNext

-----------------------------------------------------------------------------
(* What the slots hold was offered.                                          *)

\* A caller's own part of what is in hand: its carry, or its amount until that
\* has taken effect.
HandOf(t, b) ==
    /\ Rolling(t) => InHand(b)[t] = CountOf(carry[t], b)
    /\ ~Rolling(t) => InHand(b)[t] = Unapplied(b)[t]
    /\ Merging(t) => CountOf(carry[t], b) <= InHand(b)[t]
    /\ pc[t] \in {"idle", "readCurrent", "readPrevious"} => InHand(b)[t] = 0
    /\ pc[t] \in {"load", "exchange"} =>
          InHand(b)[t] = IF Index(b) = MyBucket(t) THEN arg[t].amount ELSE 0

\* So it is in every state of the invariant.
LEMMA InHandOf ==
  TypeOK /\ SlotsOrdered /\ CallsTyped
     => \A t \in Threads : \A b \in TrueBuckets : HandOf(t, b)
<1> SUFFICES ASSUME TypeOK, SlotsOrdered, CallsTyped, NEW t \in Threads, NEW b \in TrueBuckets
             PROVE  HandOf(t, b)
  OBVIOUS
<1>1. Rolling(t) => InHand(b)[t] = CountOf(carry[t], b)
  BY DEF InHand, CountOf
<1>2. ~Rolling(t) => InHand(b)[t] = Unapplied(b)[t]
  BY DEF InHand
<1>3. CASE Merging(t) /\ ~Rolling(t)
  <2>1. carry[t].index = MyBucket(t) /\ carry[t].count = Clamp(arg[t].amount)
    BY <1>3 DEF Rolling, SlotsOrdered, LateCarriesAmount
  <2>2. Phase(t) = "called" /\ pc[t] # "idle"
    BY <1>3 DEF Phase, Merging
  <2>3. Stamp(t) \in TrueBuckets /\ MyBucket(t) = Index(Stamp(t)) /\ arg[t].amount \in Nat
    BY <2>2, CalledForm
  <2>4. Clamp(arg[t].amount) <= arg[t].amount
    BY <2>3, ConstantsOK DEF Clamp
  <2>5. Unapplied(b)[t] = IF b = Stamp(t) THEN arg[t].amount ELSE 0
    BY <2>2 DEF Unapplied, StampedIn
  <2>6. Index(b) = Index(Stamp(t)) <=> b = Stamp(t)
    BY <2>3, BucketsCompare
  <2>7. CountOf(carry[t], b) <= Unapplied(b)[t]
    BY <2>1, <2>3, <2>4, <2>5, <2>6 DEF CountOf
  <2> QED
    BY <1>1, <1>2, <1>3, <2>7 DEF Merging, HandOf
<1>4. CASE Rolling(t)
  <2>1. CountOf(carry[t], b) \in Nat
    BY ConstantsOK DEF CountOf, TypeOK, Slot, Counts
  <2> QED
    BY <1>1, <1>4, <2>1 DEF Rolling, Merging, HandOf
<1>5. CASE ~Merging(t)
  <2>1. ~Rolling(t)
    BY <1>5 DEF Rolling
  <2>2. pc[t] \in {"idle", "readCurrent", "readPrevious"} => Unapplied(b)[t] = 0
    BY <1>5 DEF Unapplied, StampedIn, Phase, Merging
  <2>3. pc[t] \in {"load", "exchange"} =>
           Unapplied(b)[t] = IF Index(b) = MyBucket(t) THEN arg[t].amount ELSE 0
    <3> SUFFICES ASSUME pc[t] \in {"load", "exchange"}
                 PROVE  Unapplied(b)[t] = IF Index(b) = MyBucket(t) THEN arg[t].amount ELSE 0
      OBVIOUS
    <3>1. pc[t] # "idle" /\ Phase(t) = "called"
      BY DEF Phase
    <3>2. Stamp(t) \in TrueBuckets /\ MyBucket(t) = Index(Stamp(t))
      BY <3>1, CalledForm
    <3>3. Index(b) = Index(Stamp(t)) <=> b = Stamp(t)
      BY <3>2, BucketsCompare
    <3> QED
      BY <3>1, <3>2, <3>3 DEF Unapplied, StampedIn
  <2> QED
    BY <1>2, <1>5, <2>1, <2>2, <2>3 DEF HandOf
<1> QED
  BY <1>3, <1>4, <1>5

\* The same of the next state.
LEMMA InHandNext ==
  (TypeOK /\ SlotsOrdered /\ CallsTyped
     => \A t \in Threads : \A b \in TrueBuckets : HandOf(t, b))'
  BY InHandOf, PTL

\* What the slots and t hold of bucket b, ...
SlotsHold(b, t) == CountOf(current, b) + CountOf(previous, b) + InHand(b)[t]

\* ... counts all of them, ...
LEMMA HoldTyped ==
  TypeOK => \A b \in TrueBuckets : \A t \in Threads :
               /\ CountOf(current, b) \in Nat /\ CountOf(previous, b) \in Nat
               /\ CountOf(carry[t], b) \in Nat /\ InHand(b)[t] \in Nat
<1> SUFFICES ASSUME TypeOK, NEW b \in TrueBuckets, NEW t \in Threads
             PROVE  /\ CountOf(current, b) \in Nat /\ CountOf(previous, b) \in Nat
                    /\ CountOf(carry[t], b) \in Nat /\ InHand(b)[t] \in Nat
  OBVIOUS
<1>1. current.count \in Nat /\ previous.count \in Nat /\ carry[t].count \in Nat
  BY ConstantsOK DEF TypeOK, Slot, Counts
<1>2. InHand(b)[t] \in Nat
  BY PartsTyped DEF PartsNat
<1> QED
  BY <1>1, <1>2 DEF CountOf

\* ... in the next state too.
LEMMA HoldTypedNext ==
  (TypeOK => \A b \in TrueBuckets : \A t \in Threads :
               /\ CountOf(current, b) \in Nat /\ CountOf(previous, b) \in Nat
               /\ CountOf(carry[t], b) \in Nat /\ InHand(b)[t] \in Nat)'
  BY HoldTyped, PTL

\* A slot that holds a caller's own amount is that of its bucket.
LEMMA OwnKnown ==
  ASSUME TypeOK, CallsTyped, NEW t \in Threads, pc[t] # "idle"
  PROVE  \A c : Known(Slots(MyBucket(t), c))
<1>1. Stamp(t) \in TrueBuckets /\ MyBucket(t) = Index(Stamp(t))
  BY CalledForm
<1> QED
  BY <1>1 DEF Known, Slots

\* The slots and what t has of bucket b move among each other, or are dropped.
Moved(t, b) == SlotsHold(b, t)' <= SlotsHold(b, t)
StillKnown(t) == Known(previous)' /\ (Rolling(t) => Known(carry[t]))'

\* The load of current: what a late caller carries is its own amount.
LEMMA LoadMoves ==
  ASSUME TypeOK, TypeOK', SlotsOrdered, SlotsOrdered', CallsTyped, CallsTyped', SlotsOffered,
         NEW t \in Threads, Load(t)
  PROVE  StillKnown(t) /\ \A b \in TrueBuckets : Moved(t, b)
<1>1. /\ UNCHANGED <<current, previous, arg>> /\ pc[t] = "load" /\ pc[t] # "idle"
      /\ \/ pc'[t] = "exchange" \/ pc'[t] = "readCurrent"
         \/ pc'[t] = "mergeLoad" /\ carry'[t].index = MyBucket(t)
  BY DEF Load, TypeOK, Slots
<1>2. MyBucket(t)' = MyBucket(t) /\ Stamp(t)' = Stamp(t)
  BY <1>1 DEF MyBucket, Stamp
<1>3. ~Rolling(t)'
  BY <1>1, <1>2 DEF Rolling, Merging
<1>4. StillKnown(t)
  BY <1>1, <1>3 DEF StillKnown, Known, SlotsOffered
<1>5. ASSUME NEW b \in TrueBuckets PROVE Moved(t, b)
  <2>1. /\ CountOf(current, b)' = CountOf(current, b)
        /\ CountOf(previous, b)' = CountOf(previous, b)
    BY <1>1 DEF CountOf
  <2>2. InHand(b)'[t] <= InHand(b)[t]
    <3>1. ~Rolling(t) /\ Phase(t) = "called"
      BY <1>1 DEF Rolling, Merging, Phase
    <3>2. InHand(b)[t] = Unapplied(b)[t] /\ InHand(b)'[t] = Unapplied(b)'[t]
      BY <1>3, <3>1, InHandOf, InHandNext DEF HandOf
    <3>3. Unapplied(b)[t] \in Nat
      BY PartsTyped DEF PartsNat
    <3>4. Unapplied(b)'[t] \in {0, Unapplied(b)[t]}
      BY <1>1, <1>2, <3>1 DEF Unapplied, StampedIn
    <3> QED
      BY <3>2, <3>3, <3>4
  <2> QED
    BY <2>1, <2>2, HoldTyped, HoldTypedNext DEF Moved, SlotsHold
<1> QED
  BY <1>4, <1>5

\* The exchange of current: the caller's amount goes into current, and the old
\* count into the caller's hand.
LEMMA ExchangeMoves ==
  ASSUME TypeOK, TypeOK', SlotsOrdered, SlotsOrdered', CallsTyped, CallsTyped',
         GrantsOffered, CountsExact, StampsSeen, SlotsOffered,
         NEW t \in Threads, ExchangeOk(t)
  PROVE  StillKnown(t) /\ \A b \in TrueBuckets : Moved(t, b)
<1> DEFINE i == MyBucket(t)
           a == arg[t].amount
<1>1. /\ UNCHANGED <<previous, arg>> /\ pc[t] = "exchange" /\ pc[t] # "idle"
  BY DEF ExchangeOk
<1>2. /\ i \in Indices /\ i \in Nat /\ a \in Nat
      /\ i' = i
      /\ Clamp(a) \in Nat /\ Clamp(a) <= a
      /\ current.count \in Nat
      /\ Clamp(current.count + a) \in Nat /\ Clamp(current.count + a) <= current.count + a
  <2>1. i \in Indices /\ i \in Nat /\ a \in Nat
    BY CallType
  <2>2. current.count \in Nat
    BY ConstantsOK DEF TypeOK, Slot, Counts
  <2> QED
    BY <1>1, <2>1, <2>2, ConstantsOK DEF Clamp, MyBucket
<1>3. CASE i = current.index
  <2>1. current' = Slots(i, Clamp(current.count + a)) /\ pc'[t] = "readCurrent"
    BY <1>3 DEF ExchangeOk, TypeOK
  <2>2. StillKnown(t)
    BY <1>1, <2>1 DEF StillKnown, Known, SlotsOffered, Rolling, Merging
  <2>3. ASSUME NEW b \in TrueBuckets PROVE Moved(t, b)
    <3>1. InHand(b)'[t] = 0 /\ InHand(b)[t] = IF Index(b) = i THEN a ELSE 0
      BY <1>1, <2>1, InHandOf, InHandNext DEF HandOf
    <3>2. CountOf(previous, b)' = CountOf(previous, b) /\ CountOf(previous, b) \in Nat
      BY <1>1, HoldTyped DEF CountOf
    <3>3. /\ CountOf(current, b)' = IF Index(b) = i THEN Clamp(current.count + a) ELSE 0
          /\ CountOf(current, b) = IF Index(b) = i THEN current.count ELSE 0
      BY <1>3, <2>1 DEF CountOf, Slots
    <3> QED
      BY <1>2, <3>1, <3>2, <3>3 DEF Moved, SlotsHold
  <2> QED
    BY <2>2, <2>3
<1>4. CASE i # current.index
  <2>1. /\ current' = Slots(i, Clamp(a)) /\ pc'[t] = "mergeLoad"
        /\ carry'[t] = CarryOver(current, i)
    BY <1>4 DEF ExchangeOk, TypeOK
  <2>2. carry'[t] = current \/ carry'[t].count = 0
    BY <2>1 DEF CarryOver, Slots
  <2>3. carry'[t].index # i
    BY <1>2, <1>4, <2>1, ConstantsOK DEF CarryOver, Slots, WrappingSub, IndexMod, Indices
  <2>4. Rolling(t)'
    BY <1>2, <2>1, <2>3 DEF Rolling, Merging
  <2>5. Known(current)
    BY CurrentOffered DEF Known
  <2>6. StillKnown(t)
    BY <1>1, <2>2, <2>5 DEF StillKnown, Known, SlotsOffered
  <2>7. ASSUME NEW b \in TrueBuckets PROVE Moved(t, b)
    <3>1. InHand(b)'[t] = CountOf(carry'[t], b)
      <4>1. InHand(b)'[t] = CountOf(carry[t], b)'
        BY <2>4, InHandNext DEF HandOf
      <4> QED
        BY <4>1 DEF CountOf
    <3>2. InHand(b)[t] = IF Index(b) = i THEN a ELSE 0
      BY <1>1, InHandOf DEF HandOf
    <3>3. CountOf(previous, b)' = CountOf(previous, b) /\ CountOf(previous, b) \in Nat
          /\ CountOf(current, b) \in Nat
      BY <1>1, HoldTyped DEF CountOf
    <3>4. CountOf(current, b)' = IF Index(b) = i THEN Clamp(a) ELSE 0
      BY <2>1 DEF CountOf, Slots
    <3>5. CountOf(carry'[t], b) \in Nat /\ CountOf(carry'[t], b) <= CountOf(current, b)
      BY <2>2, <3>3 DEF CountOf
    <3>6. /\ InHand(b)[t] \in Nat /\ CountOf(current, b)' \in Nat
          /\ CountOf(current, b)' <= InHand(b)[t]
      BY <1>2, <3>2, <3>4
    <3> QED
      BY <3>1, <3>3, <3>5, <3>6 DEF Moved, SlotsHold
  <2> QED
    BY <2>6, <2>7
<1> QED
  BY <1>3, <1>4

\* A failed exchange, and the read of current, move nothing.
LEMMA RetryMoves ==
  ASSUME TypeOK, TypeOK', SlotsOrdered, SlotsOrdered', CallsTyped, CallsTyped', SlotsOffered,
         NEW t \in Threads, ExchangeFail(t) \/ MergeExchangeFail(t) \/ ReadCurrent(t)
  PROVE  StillKnown(t) /\ \A b \in TrueBuckets : Moved(t, b)
<1>1. /\ UNCHANGED <<current, previous, arg, carry>>
      /\ MyBucket(t)' = MyBucket(t) /\ Stamp(t)' = Stamp(t)
      /\ Rolling(t)' <=> Rolling(t)
      /\ Phase(t)' = Phase(t)
      /\ pc[t] # "idle" /\ pc'[t] # "idle"
  BY DEF ExchangeFail, MergeExchangeFail, ReadCurrent, TypeOK, MyBucket, Stamp, Rolling, Merging,
         Phase
<1>2. StillKnown(t)
  BY <1>1 DEF StillKnown, Known, SlotsOffered
<1>3. ASSUME NEW b \in TrueBuckets PROVE Moved(t, b)
  <2>1. InHand(b)'[t] = InHand(b)[t]
    BY <1>1 DEF InHand, Unapplied, StampedIn
  <2>2. /\ CountOf(current, b)' = CountOf(current, b)
        /\ CountOf(previous, b)' = CountOf(previous, b)
    BY <1>1 DEF CountOf
  <2> QED
    BY <2>1, <2>2, HoldTyped DEF Moved, SlotsHold
<1> QED
  BY <1>2, <1>3

\* The load of previous: a carry that came too late is dropped.
LEMMA MergeLoadMoves ==
  ASSUME TypeOK, TypeOK', SlotsOrdered, SlotsOrdered', CallsTyped, CallsTyped', SlotsOffered,
         NEW t \in Threads, MergeLoad(t)
  PROVE  StillKnown(t) /\ \A b \in TrueBuckets : Moved(t, b)
<1>1. /\ UNCHANGED <<current, previous, arg>> /\ pc[t] = "mergeLoad" /\ pc[t] # "idle"
      /\ MyBucket(t)' = MyBucket(t) /\ Stamp(t)' = Stamp(t)
      /\ \/ pc'[t] = "mergeExchange" /\ UNCHANGED carry
         \/ pc'[t] = "readCurrent"
  BY DEF MergeLoad, TypeOK, MyBucket, Stamp
<1>2. CASE pc'[t] = "readCurrent"
  <2>1. ~Rolling(t)'
    BY <1>2 DEF Rolling, Merging
  <2>2. StillKnown(t)
    BY <1>1, <2>1 DEF StillKnown, Known, SlotsOffered
  <2>3. ASSUME NEW b \in TrueBuckets PROVE Moved(t, b)
    <3>1. InHand(b)'[t] = 0
      BY <1>2, InHandNext DEF HandOf
    <3>2. /\ CountOf(current, b)' = CountOf(current, b)
          /\ CountOf(previous, b)' = CountOf(previous, b)
      BY <1>1 DEF CountOf
    <3> QED
      BY <3>1, <3>2, HoldTyped DEF Moved, SlotsHold
  <2> QED
    BY <2>2, <2>3
<1>3. CASE pc'[t] = "mergeExchange" /\ UNCHANGED carry
  <2>1. (Rolling(t)' <=> Rolling(t)) /\ Phase(t)' = Phase(t)
    BY <1>1, <1>3 DEF Rolling, Merging, Phase
  <2>2. StillKnown(t)
    BY <1>1, <1>3, <2>1 DEF StillKnown, Known, SlotsOffered
  <2>3. ASSUME NEW b \in TrueBuckets PROVE Moved(t, b)
    <3>1. InHand(b)'[t] = InHand(b)[t]
      BY <1>1, <1>3, <2>1 DEF InHand, Unapplied, StampedIn
    <3>2. /\ CountOf(current, b)' = CountOf(current, b)
          /\ CountOf(previous, b)' = CountOf(previous, b)
      BY <1>1 DEF CountOf
    <3> QED
      BY <3>1, <3>2, HoldTyped DEF Moved, SlotsHold
  <2> QED
    BY <2>2, <2>3
<1> QED
  BY <1>1, <1>2, <1>3

\* The merge: previous gets the carry, added or instead of an older bucket.
LEMMA MergeMoves ==
  ASSUME TypeOK, TypeOK', SlotsOrdered, SlotsOrdered', CallsTyped, CallsTyped', SlotsOffered,
         NEW t \in Threads, MergeExchangeOk(t)
  PROVE  StillKnown(t) /\ \A b \in TrueBuckets : Moved(t, b)
<1> DEFINE c == carry[t]
<1>1. /\ UNCHANGED <<current, arg>> /\ pc[t] = "mergeExchange" /\ pc[t] # "idle"
      /\ pc'[t] = "readCurrent" /\ previous' = Merged(previous, c) /\ Merging(t)
  BY DEF MergeExchangeOk, TypeOK, Merging
<1>2. /\ c.count \in Nat /\ previous.count \in Nat
      /\ Clamp(previous.count + c.count) \in Nat
      /\ Clamp(previous.count + c.count) <= previous.count + c.count
  <2>1. c.count \in Nat /\ previous.count \in Nat
    BY ConstantsOK DEF TypeOK, Slot, Counts
  <2> QED
    BY <2>1, ConstantsOK DEF Clamp
<1>3. Known(c)
  <2>1. CASE Rolling(t)
    BY <2>1 DEF SlotsOffered
  <2>2. CASE ~Rolling(t)
    BY <1>1, <2>2, OwnKnown DEF Rolling, Known, Slots
  <2> QED
    BY <2>1, <2>2
<1>4. StillKnown(t)
  <2>1. Known(previous)'
    <3>1. CASE c.index = previous.index
      <4>1. previous' = Slots(previous.index, Clamp(previous.count + c.count))
        BY <1>1, <3>1 DEF Merged
      <4>2. Known(previous) /\ Known(c)
        BY <1>3 DEF SlotsOffered
      <4>3. previous.count = 0 /\ c.count = 0 => Clamp(previous.count + c.count) = 0
        BY ConstantsOK DEF Clamp
      <4> QED
        BY <3>1, <4>1, <4>2, <4>3 DEF Known, Slots
    <3>2. CASE c.index # previous.index
      BY <1>1, <1>3, <3>2 DEF Merged, Known
    <3> QED
      BY <3>1, <3>2
  <2>2. ~Rolling(t)'
    BY <1>1 DEF Rolling, Merging
  <2> QED
    BY <2>1, <2>2 DEF StillKnown
<1>5. ASSUME NEW b \in TrueBuckets PROVE Moved(t, b)
  <2>1. InHand(b)'[t] = 0 /\ CountOf(c, b) <= InHand(b)[t]
    BY <1>1, InHandOf, InHandNext DEF HandOf
  <2>2. CountOf(current, b)' = CountOf(current, b)
    BY <1>1 DEF CountOf
  <2>3. CountOf(previous, b)' <= CountOf(previous, b) + CountOf(c, b)
    <3>1. CASE c.index = previous.index
      BY <1>1, <1>2, <3>1 DEF Merged, CountOf, Slots
    <3>2. CASE c.index # previous.index
      <4>1. previous' = c
        BY <1>1, <3>2 DEF Merged
      <4> QED
        BY <1>2, <4>1 DEF CountOf
    <3> QED
      BY <3>1, <3>2
  <2>4. /\ CountOf(current, b) \in Nat /\ CountOf(previous, b) \in Nat
        /\ CountOf(c, b) \in Nat /\ InHand(b)[t] \in Nat
        /\ CountOf(previous, b)' \in Nat
    BY HoldTyped, HoldTypedNext
  <2> HIDE DEF c
  <2> QED
    BY <2>1, <2>2, <2>3, <2>4 DEF Moved, SlotsHold
<1> QED
  BY <1>4, <1>5

\* So every step keeps slots and carries within what was offered.
LEMMA SlotsStep ==
  ASSUME TypeOK, TypeOK', SlotsOrdered, SlotsOrdered', CallsTyped, CallsTyped',
         GrantsOffered, CountsExact, StampsSeen, SlotsOffered, [GateNext]_gateVars
  PROVE  SlotsOffered'
<1> DEFINE Held(b) == CountOf(current, b) + CountOf(previous, b) + Total(InHand(b))
<1>0. \A b \in TrueBuckets :
         /\ Held(b) <= offered[b]
         /\ offered[b] \in Nat /\ offered'[b] \in Nat
         /\ Total(InHand(b)) \in Nat /\ Total(InHand(b))' \in Nat
  BY TotalsTyped, TotalsTypedNext DEF SlotsOffered, CallsTyped, SumsTyped
<1>1. ASSUME UNCHANGED <<current, previous>>
      PROVE  /\ Known(previous)'
             /\ \A b \in TrueBuckets : /\ CountOf(current, b)' = CountOf(current, b)
                                       /\ CountOf(previous, b)' = CountOf(previous, b)
                                       /\ CountOf(current, b) \in Nat
                                       /\ CountOf(previous, b) \in Nat
  <2>1. Threads # {}
    BY GateOK
  <2> QED
    BY <1>1, <2>1, HoldTyped DEF SlotsOffered, Known, CountOf
<1>2. ASSUME NEW t \in Threads, OthersStill(t), (Rolling(t) => Known(carry[t]))'
      PROVE  (\A u \in Threads : Rolling(u) => Known(carry[u]))'
  <2> SUFFICES ASSUME NEW u \in Threads \ {t} PROVE (Rolling(u) => Known(carry[u]))'
    BY <1>2
  <2>1. Rolling(u) => Known(carry[u])
    BY DEF SlotsOffered
  <2>2. UNCHANGED <<pc[u], carry[u], arg[u]>>
    BY <1>2 DEF OthersStill
  <2> QED
    BY <2>1, <2>2 DEF Rolling, Merging, MyBucket, Known
<1>3. CASE Tick \/ SetBack \/ UNCHANGED gateVars
  <2>1. UNCHANGED <<vars, registry>>
    BY <1>3, ClockForm
  <2>2. UNCHANGED <<current, previous>> /\ offered' = offered
    BY <2>1 DEF vars, registry
  <2>3. (\A u \in Threads : Rolling(u) => Known(carry[u]))'
    BY <2>1 DEF vars, SlotsOffered, Rolling, Merging, MyBucket, Known
  <2>4. \A b \in TrueBuckets : Held(b)' <= offered'[b]
    BY <1>0, <1>1, <2>1, <2>2, SumsStill
  <2> QED
    BY <1>1, <2>2, <2>3, <2>4 DEF SlotsOffered
<1>4. ASSUME NEW t \in Threads, NEW a \in Amounts \cup {0},
             \/ a \in Amounts /\ StartRecord(t, a)
             \/ a = 0 /\ StartCheck(t)
      PROVE  SlotsOffered'
  <2>1. /\ OthersCall(t) /\ OthersStill(t)
        /\ UNCHANGED <<current, previous>>
        /\ pc[t] = "idle"
        /\ arg'[t] = [now |-> clock, amount |-> a]
        /\ \/ /\ a \in Amounts /\ op'[t] = "record" /\ pc'[t] = "load"
              /\ offered' = [offered EXCEPT ![TrueBucket(clock)] = @ + a]
           \/ /\ a = 0 /\ op'[t] = "is_within_budget" /\ pc'[t] = "readCurrent"
              /\ offered' = offered
    BY <1>4, StartForm DEF OthersCall
  <2>2. ~Rolling(t)'
    BY <2>1 DEF Rolling, Merging
  <2>3. ASSUME NEW b \in TrueBuckets PROVE Held(b)' <= offered'[b]
    <3> DEFINE d == IF b = TrueBucket(clock) THEN a ELSE 0
    <3>1. a \in Nat /\ d \in Nat
      BY ConstantsOK
    <3>2. offered'[b] = offered[b] + d
      BY <1>0, <2>1, <3>1 DEF CallsTyped
    <3>3. InHand(b)[t] = 0
      BY <2>1, InHandOf DEF HandOf
    <3>4. InHand(b)'[t] = d
      <4>1. InHand(b)'[t] = Unapplied(b)'[t]
        BY <2>2, InHandNext DEF HandOf
      <4> QED
        BY <2>1, <4>1 DEF Unapplied, StampedIn, Stamp, Phase, Merging
    <3>5. Total(InHand(b))' + 0 = Total(InHand(b)) + d
      BY <2>1, <3>3, <3>4, TotalsMove
    <3> HIDE DEF d
    <3> QED
      BY <1>0, <1>1, <2>1, <3>1, <3>2, <3>5
  <2> QED
    BY <1>1, <1>2, <2>1, <2>2, <2>3 DEF SlotsOffered
<1>5. ASSUME NEW t \in Threads, Run(t)
      PROVE  SlotsOffered'
  <2>1. /\ OthersCall(t) /\ OthersStill(t) /\ Step(t) /\ pc[t] # "readPrevious"
        /\ offered' = offered
    BY <1>5, RunForm DEF OthersCall, registry
  <2>2. StillKnown(t) /\ \A b \in TrueBuckets : Moved(t, b)
    BY <2>1, LoadMoves, ExchangeMoves, RetryMoves, MergeLoadMoves, MergeMoves
       DEF Step, ReadPrevious
  <2>3. ASSUME NEW b \in TrueBuckets PROVE Held(b)' <= offered'[b]
    <3>1. Total(InHand(b))' + InHand(b)[t] = Total(InHand(b)) + InHand(b)'[t]
      BY <2>1, TotalsMove
    <3>2. /\ CountOf(current, b) \in Nat /\ CountOf(previous, b) \in Nat /\ InHand(b)[t] \in Nat
          /\ CountOf(current, b)' \in Nat /\ CountOf(previous, b)' \in Nat
          /\ InHand(b)'[t] \in Nat
      BY HoldTyped, HoldTypedNext
    <3>3. CountOf(current, b)' + CountOf(previous, b)' + InHand(b)'[t]
             <= CountOf(current, b) + CountOf(previous, b) + InHand(b)[t]
      BY <2>2 DEF Moved, SlotsHold
    <3> QED
      BY <1>0, <2>1, <3>1, <3>2, <3>3
  <2> QED
    BY <1>2, <2>1, <2>2, <2>3 DEF SlotsOffered, StillKnown
<1>6. ASSUME NEW t \in Threads, Finish(t)
      PROVE  SlotsOffered'
  <2>1. /\ OthersCall(t) /\ OthersStill(t)
        /\ UNCHANGED <<current, previous, offered>>
        /\ pc[t] = "readPrevious" /\ pc'[t] = "idle"
    BY <1>6, FinishForm DEF OthersCall
  <2>2. ~Rolling(t)'
    BY <2>1 DEF Rolling, Merging
  <2>3. ASSUME NEW b \in TrueBuckets PROVE Held(b)' <= offered'[b]
    <3>1. InHand(b)[t] = 0 /\ InHand(b)'[t] = 0
      BY <2>1, InHandOf, InHandNext DEF HandOf
    <3>2. Total(InHand(b))' + 0 = Total(InHand(b)) + 0
      BY <2>1, <3>1, TotalsMove
    <3> QED
      BY <1>0, <1>1, <2>1, <3>2
  <2> QED
    BY <1>1, <1>2, <2>1, <2>2, <2>3 DEF SlotsOffered
<1> QED
  BY <1>3, <1>4, <1>5, <1>6 DEF GateNext

-----------------------------------------------------------------------------
(* The invariant holds.                                                      *)

\* At first no call runs, so the sums are 0, ...
LEMMA NothingRuns ==
  ASSUME GateInit, TypeOK, NEW b
  PROVE  /\ Total(Running(b)) = 0 /\ Total(Unapplied(b)) = 0 /\ Total(Grantable(b)) = 0
         /\ Total(InHand(b)) = 0 /\ Total(CouldCost(b)) = 0
<1>1. IsFiniteSet(Threads)
  BY GateOK
<1>2. \A t \in Threads : pc[t] = "idle"
  BY DEF GateInit, Init
<1>3. \A t \in Threads :
         /\ Running(b)[t] = 0 /\ Unapplied(b)[t] = 0 /\ Grantable(b)[t] = 0
         /\ InHand(b)[t] = 0 /\ CouldCost(b)[t] = 0
  BY <1>2 DEF Running, Unapplied, Grantable, InHand, CouldCost, StampedIn, MayBeGranted,
     Rolling, Merging
<1> QED
  BY <1>1, <1>3, SumOfZeros DEF Total

\* ... the invariant holds, ...
LEMMA GateStart == GateInit => GateInv
<1> SUFFICES ASSUME GateInit PROVE GateInv
  OBVIOUS
<1>1. Init /\ TypeOK /\ SlotsOrdered
  BY TypeInit, OrderedInit DEF GateInit
<1>2. \A b \in TrueBuckets :
         /\ offered[b] = 0 /\ onTime[b] = 0 /\ late[b] = 0 /\ Index(b) \in Nat
         /\ Total(Running(b)) = 0 /\ Total(Unapplied(b)) = 0 /\ Total(Grantable(b)) = 0
         /\ Total(InHand(b)) = 0 /\ Total(CouldCost(b)) = 0
  BY <1>1, NothingRuns, IndexLow DEF GateInit, Nothing
<1>3. /\ current = EmptySlot /\ current.index = 0 /\ current.count = 0
      /\ previous = Sentinel /\ previous.count = 0
      /\ calls = 0 /\ \A t \in Threads : pc[t] = "idle"
  BY DEF GateInit, Init, EmptySlot, Sentinel, Slots
<1>4. CallsTyped
  <2>1. {StartTime, MaxBack, MaxCalls} \subseteq Nat /\ StartTime \in StartTime .. MaxTime
    BY GateOK
  <2> QED
    BY <2>1 DEF GateInit, Init, CallsTyped, Nothing
<1>5. GrantsOffered
  <2>1. 0 * MaxAmount = 0
    BY GateOK
  <2> QED
    BY <1>2, <1>3, <2>1 DEF GrantsOffered
<1>6. CountsExact
  BY <1>2, <1>3, ConstantsOK DEF CountsExact, Counted, Clamp
<1>7. StampsSeen /\ EffectSeen /\ WordsOffered
  BY <1>3 DEF GateInit, StampsSeen, EffectSeen, WordsOffered, Phase
<1>8. OnTimeBounded
  BY <1>2, GateOK DEF OnTimeBounded
<1>9. LateBounded
  BY <1>2, <1>3 DEF LateBounded
<1>10. SlotsOffered
  BY <1>2, <1>3 DEF SlotsOffered, Known, CountOf, Rolling, Merging
<1> QED
  BY <1>1, <1>4, <1>5, <1>6, <1>7, <1>8, <1>9, <1>10 DEF GateInv

\* ... and every step keeps it.
LEMMA GateStep == GateInv /\ [GateNext]_gateVars => GateInv'
<1> SUFFICES ASSUME GateInv, [GateNext]_gateVars PROVE GateInv'
  OBVIOUS
<1>1. /\ TypeOK /\ SlotsOrdered /\ CallsTyped /\ GrantsOffered /\ CountsExact /\ StampsSeen
      /\ EffectSeen /\ OnTimeBounded /\ LateBounded /\ SlotsOffered /\ WordsOffered
  BY DEF GateInv
<1>2. TypeOK' /\ SlotsOrdered'
  BY <1>1, CounterKept
<1>3. CallsTyped'
  BY <1>1, CallsStep
<1>4. GrantsOffered'
  BY <1>1, <1>2, <1>3, GrantsStep
<1>5. CountsExact' /\ StampsSeen'
  BY <1>1, <1>2, <1>3, CountsStep, StampsStep
<1>6. EffectSeen' /\ WordsOffered' /\ LateBounded'
  BY <1>1, <1>2, <1>3, SeenStep, WordsStep, LateStep
<1>7. OnTimeBounded'
  BY <1>1, <1>2, <1>3, <1>4, <1>5, OnTimeStep
<1>8. SlotsOffered'
  BY <1>1, <1>2, <1>3, SlotsStep
<1> QED
  BY <1>2, <1>3, <1>4, <1>5, <1>6, <1>7, <1>8 DEF GateInv

\* The invariant the results below rest on.
THEOREM GateInvariant == GateSpec => []GateInv
  BY GateStart, GateStep, PTL DEF GateSpec

-----------------------------------------------------------------------------
(* What follows.                                                             *)

\* However many callers race and however the clock is set, what is granted in
\* a bucket to callers that still find current there stays within the limit.
THEOREM OnTimeWithinLimit == GateSpec => []OnTimeGrantsWithinLimit
<1>1. GateInv => OnTimeGrantsWithinLimit
  <2> SUFFICES ASSUME GateInv, NEW b \in TrueBuckets PROVE onTime[b] <= MaxTokens
    BY DEF OnTimeGrantsWithinLimit
  <2>1. onTime[b] + Total(Grantable(b)) <= MaxTokens
    BY DEF GateInv, OnTimeBounded
  <2>2. onTime[b] \in Nat /\ Total(Grantable(b)) \in Nat /\ MaxTokens \in Nat
    BY GateOK, TotalsTyped DEF GateInv, CallsTyped, SumsTyped
  <2> QED
    BY <2>1, <2>2
<1> QED
  BY <1>1, GateInvariant, PTL

\* As long as the clock is not set back, a bucket's grants exceed the limit by
\* at most one chunk for each caller but one.
THEOREM OvershootIsBounded == GateSpec => []OvershootBounded
<1>1. GateInv => OvershootBounded
  <2> SUFFICES ASSUME GateInv, back = 0, NEW b \in TrueBuckets
               PROVE  onTime[b] + late[b] <= MaxTokens + Overshoot
    BY DEF OvershootBounded, Overshoot
  <2>1. onTime[b] + Total(Grantable(b)) <= MaxTokens
    BY DEF GateInv, OnTimeBounded
  <2>2. /\ onTime[b] \in Nat /\ late[b] \in Nat /\ Total(Grantable(b)) \in Nat
        /\ Total(CouldCost(b)) \in Nat /\ MaxTokens \in Nat /\ Overshoot \in Nat
    BY GateOK, TotalsTyped, OvershootType DEF GateInv, CallsTyped, SumsTyped
  <2>3. late[b] = 0 \/ late[b] + Total(CouldCost(b)) <= Overshoot
    BY DEF GateInv, LateBounded, Overshoot
  <2> QED
    BY <2>1, <2>2, <2>3
<1> QED
  BY <1>1, GateInvariant, PTL

\* The largest of a set of buckets.
LEMMA NewestExists ==
  ASSUME NEW S \in SUBSET TrueBuckets, S # {}
  PROVE  \E b \in S : \A c \in S : c <= b
<1> DEFINE top == TrueBucket(MaxTime)
           D == { top - b : b \in S }
<1>1. top \in Nat /\ \A b \in S : b \in Nat /\ b <= top
  BY ClockBucket DEF TrueBuckets
<1> HIDE DEF top
<1>2. D \in SUBSET Nat /\ D # {}
  BY <1>1
<1> HIDE DEF D
<1>3. PICK m \in D : \A k \in D : m <= k
  BY <1>2, LeastOf
<1>4. PICK b \in S : m = top - b
  BY <1>3 DEF D
<1>5. ASSUME NEW c \in S PROVE c <= b
  <2>1. m <= top - c
    BY <1>3 DEF D
  <2> QED
    BY <1>1, <1>4, <2>1
<1> QED
  BY <1>5

\* When no record has still to take effect, current is at the newest bucket a
\* record was stamped in.
LEMMA CurrentNewest ==
  ASSUME GateInv, NEW n \in stamped, \A b \in stamped : b <= n,
         Index(n) <= current.index
  PROVE  current.index = Index(n)
<1>1. TypeOK /\ CallsTyped /\ StampsSeen
  BY DEF GateInv
<1>2. /\ current.index \in Nat /\ \A b \in TrueBuckets : b \in Nat /\ Index(b) \in Nat
      /\ stamped \subseteq TrueBuckets
  BY <1>1, ClockBucket, IndexLow DEF TypeOK, Slot, Indices, CallsTyped
<1>3. current.index <= Index(n)
  <2>1. CASE current = EmptySlot
    BY <1>2, <2>1 DEF EmptySlot, Slots
  <2>2. ASSUME NEW b \in stamped, Index(b) = current.index
        PROVE  current.index <= Index(n)
    <3>1. b <= n /\ b \in TrueBuckets /\ n \in TrueBuckets
      BY <1>2
    <3>2. b = n \/ b < n
      BY <1>2, <3>1
    <3> QED
      BY <1>2, <2>2, <3>1, <3>2, BucketsCompare
  <2> QED
    BY <1>1, <2>1, <2>2 DEF StampsSeen
<1> QED
  BY <1>2, <1>3

\* Once no call is running, the counter is at the newest bucket any record was
\* stamped in, and holds what was offered there and in the one before:
\* nothing is lost and nothing is doubled, whether or not a record cost
\* anything (sliding_window.rs, add and merge_into_previous).
THEOREM SettledIsExact == GateSpec => []SettledCountsExact
<1>1. GateInv => SettledCountsExact
  <2> SUFFICES ASSUME GateInv, stamped # {}, \A t \in Threads : pc[t] = "idle"
               PROVE  \E newest \in stamped :
                         /\ \A b \in stamped : b <= newest
                         /\ current = Slots(Index(newest), Clamp(offered[newest]))
                         /\ newest - 1 \in TrueBuckets =>
                               CountOf(previous, newest - 1) = Clamp(offered[newest - 1])
    BY DEF SettledCountsExact
  <2>1. TypeOK /\ SlotsOrdered /\ CallsTyped /\ CountsExact /\ StampsSeen /\ SlotsOffered
    BY DEF GateInv
  <2>2. stamped \in SUBSET TrueBuckets
    BY <2>1 DEF CallsTyped
  <2> PICK n \in stamped : \A b \in stamped : b <= n
    BY <2>2, NewestExists
  <2>3. n \in TrueBuckets
    BY <2>2
  <2>4. ASSUME NEW b \in TrueBuckets PROVE Counted(b) = offered[b] /\ offered[b] \in Nat
    <3>1. \A t \in Threads : Unapplied(b)[t] = 0
      BY DEF Unapplied, StampedIn
    <3>2. Total(Unapplied(b)) = 0
      BY <3>1, SumOfZeros, GateOK DEF Total
    <3> QED
      BY <2>1, <3>2 DEF Counted, CallsTyped
  <2>5. current.index = Index(n) /\ current.count = Clamp(offered[n])
    <3>1. Index(n) <= current.index
      BY <2>1 DEF StampsSeen, StampedIn
    <3>2. current.index = Index(n)
      BY <3>1, CurrentNewest
    <3> QED
      BY <2>1, <2>3, <2>4, <3>2 DEF CountsExact
  <2>6. current = Slots(Index(n), Clamp(offered[n]))
    BY <2>1, <2>5 DEF TypeOK, Slot, Slots
  <2>7. ASSUME n - 1 \in TrueBuckets
        PROVE  CountOf(previous, n - 1) = Clamp(offered[n - 1])
    <3> PICK p \in TrueBuckets : p = n - 1
      BY <2>7
    <3>1. /\ p \in Nat /\ n \in Nat /\ p + 1 = n
          /\ Index(p) \in Nat /\ Index(n) \in Nat /\ Index(p) + 1 = Index(n)
      BY <2>3, ClockBucket, IndexLow, BucketsCompare
    <3>2. Carried = Clamp(offered[p])
      BY <2>1, <2>4, <2>5, <3>1 DEF CountsExact
    <3>3. InFlight = 0 /\ InPrevious \in Nat
      BY <2>1, CarriedType DEF InFlight, Handovers, Rolling, Merging
    <3>4. Carried = Clamp(InPrevious)
      BY <3>3 DEF Carried
    <3>5. previous.count \in Counts /\ previous.index \in Nat
      BY <2>1 DEF TypeOK, Slot, Indices
    <3>6. Index(p) <= HalfIndex - 3
      BY IndexLow, ConstantsOK
    <3>7. previous.index = Index(p) <=> previous # Sentinel /\ Adjacent(previous)
      <4>1. Sentinel.index = IndexMod - 2
        BY DEF Sentinel, Slots
      <4> QED
        BY <2>5, <3>1, <3>5, <3>6, <4>1, ConstantsOK DEF Adjacent, IndexMod
    <3>8. CASE previous.index = Index(p)
      BY <3>2, <3>4, <3>5, <3>7, <3>8, ClampFixed DEF InPrevious, CountOf
    <3>9. CASE previous.index # Index(p)
      BY <3>2, <3>4, <3>7, <3>9, ConstantsOK DEF InPrevious, CountOf, Clamp
    <3> QED
      BY <3>8, <3>9
  <2> QED
    BY <2>6, <2>7
<1> QED
  BY <1>1, GateInvariant, PTL

\* An add that has moved current forward is never dropped, as the comment in
\* add demands (sliding_window.rs:112-117): what a finished record granted in
\* the newest bucket is in current, as long as no index wraps around.
THEOREM NewestIsCounted == GateSpec => []NeverFrozen
<1>1. GateInv => NeverFrozen
  <2> SUFFICES ASSUME GateInv, NEW b \in TrueBuckets, onTime[b] + late[b] > 0,
                      \A c \in stamped : c <= b
               PROVE  current.index = Index(b) /\ current.count > 0
    BY DEF NeverFrozen
  <2>1. TypeOK /\ CallsTyped /\ GrantsOffered /\ CountsExact /\ StampsSeen
    BY DEF GateInv
  <2>2. offered[b] \in Nat /\ Counted(b) \in Nat /\ Counted(b) > 0
    <3>1. /\ Total(Running(b)) \in Nat /\ Total(Unapplied(b)) \in Nat
          /\ Total(Grantable(b)) \in Nat
          /\ Total(Grantable(b)) + Total(Unapplied(b)) <= Total(Running(b))
      BY <2>1, TotalsTyped DEF SumsTyped
    <3>2. /\ offered[b] \in Nat /\ onTime[b] \in Nat /\ late[b] \in Nat
          /\ onTime[b] + late[b] + Total(Running(b)) <= offered[b]
      BY <2>1 DEF CallsTyped, GrantsOffered
    <3> QED
      BY <3>1, <3>2 DEF Counted
  <2>3. current.index \in Nat /\ \A c \in TrueBuckets : c \in Nat /\ Index(c) \in Nat
    BY <2>1, ClockBucket, IndexLow DEF TypeOK, Slot, Indices
  <2>4. Index(b) <= current.index
    BY <2>1, <2>2, <2>3 DEF CountsExact
  <2>5. current.index <= Index(b)
    <3>1. CASE current = EmptySlot
      BY <2>3, <3>1 DEF EmptySlot, Slots
    <3>2. ASSUME NEW c \in stamped, Index(c) = current.index
          PROVE  current.index <= Index(b)
      <4>1. c <= b /\ c \in TrueBuckets
        BY <2>1 DEF CallsTyped
      <4>2. c = b \/ c < b
        BY <2>3, <4>1
      <4> QED
        BY <2>3, <3>2, <4>1, <4>2, BucketsCompare
    <3> QED
      BY <2>1, <3>1, <3>2 DEF StampsSeen
  <2>6. current.index = Index(b)
    BY <2>3, <2>4, <2>5
  <2>7. current.count = Clamp(Counted(b))
    BY <2>1, <2>6 DEF CountsExact
  <2> QED
    BY <2>2, <2>6, <2>7, ConstantsOK DEF Clamp
<1> QED
  BY <1>1, GateInvariant, PTL

\* Whatever the registry and the clock do, they use the counter as its
\* specification has it, so within the gate it is linearizable too.
THEOREM GateKeepsCounter == GateSpec => Linearizable
<1>1. GateInit => Init
  BY DEF GateInit
<1>2. GateInv => CallsTyped
  BY DEF GateInv
<1> QED
  BY <1>1, <1>2, CounterStep, CounterLinearizable, GateInvariant, PTL DEF GateSpec, Spec

\* A caller's estimate of the usage never exceeds what was offered in its
\* bucket and in the one before it.
LEMMA EstimateOffered ==
  ASSUME GateInv, NEW t \in Threads, pc[t] = "readPrevious"
  PROVE  /\ Returned(t) \in Nat
         /\ Returned(t) <= OfferedAround(Stamp(t))
         /\ OfferedAround(Stamp(t)) \in Nat
<1> PICK s : s = Stamp(t)
  OBVIOUS
<1> DEFINE i == Index(s)
           now == arg[t].now
           w == word[t]
           before == IF s - 1 \in TrueBuckets THEN offered[s - 1] ELSE 0
<1>1. /\ TypeOK /\ CallsTyped /\ GrantsOffered /\ SlotsOffered /\ WordsOffered
  BY DEF GateInv
<1>2. /\ s \in TrueBuckets /\ BucketOf(now) = i
  BY <1>1, CalledForm DEF MyBucket
<1>3. now \in Nat
  <2>1. now \in Times \cup {0}
    BY <1>1, CallType
  <2>2. \A n \in Times \cup {0} : n \in Nat
    BY ConstantsOK
  <2> QED
    BY <2>1, <2>2
<1>4. /\ i \in 0 .. HalfIndex - 3 /\ i \in Nat /\ s \in Nat
      /\ \A b \in TrueBuckets : /\ offered[b] \in Nat /\ b \in Nat
                                /\ Index(b) \in Nat /\ Index(b) <= HalfIndex - 3
  BY <1>1, <1>2, IndexLow, ClockBucket, ConstantsOK DEF CallsTyped
<1>5. w.count \in Nat /\ previous.count \in Nat /\ w.index \in Nat /\ previous.index \in Nat
  BY <1>1, ConstantsOK DEF TypeOK, Slot, Counts, Indices
<1>6. before \in Nat
  BY <1>4
<1>7. OfferedAround(Stamp(t)) = offered[s] + before
  BY DEF OfferedAround
<1> HIDE DEF i, now, w, before
\* A count filed under the index before i was offered in the bucket before s.
<1>8. ASSUME NEW c \in Nat, NEW j \in Nat, j = WrappingSub(i, 1),
             c = 0 \/ \E b \in TrueBuckets : Index(b) = j /\ c <= offered[b]
      PROVE  c <= before
  <2>1. CASE c = 0
    BY <1>6, <2>1
  <2>2. ASSUME NEW b \in TrueBuckets, Index(b) = j, c <= offered[b]
        PROVE  c <= before
    <3>1. Index(b) + 1 = i
      <4>1. i = 0 => j = IndexMod - 1
        BY <1>8, ConstantsOK DEF WrappingSub, IndexMod
      <4>2. i # 0 => j = i - 1
        BY <1>4, <1>8 DEF WrappingSub
      <4>3. Index(b) <= HalfIndex - 3 /\ IndexMod - 1 > HalfIndex - 3
        BY <1>4, ConstantsOK DEF IndexMod
      <4> QED
        BY <1>4, <2>2, <4>1, <4>2, <4>3, ConstantsOK DEF IndexMod
    <3>2. b + 1 = s
      BY <1>2, <3>1, BucketsCompare DEF i
    <3>3. b = s - 1
      BY <1>4, <3>2
    <3> QED
      BY <2>2, <3>3 DEF before
  <2> QED
    BY <1>8, <2>1, <2>2
<1> DEFINE p == IF previous.index = WrappingSub(i, 1) THEN previous.count ELSE 0
<1>9. p \in Nat /\ p <= before
  <2>1. CASE previous.index = WrappingSub(i, 1)
    <3>1. previous.count = 0
             \/ \E b \in TrueBuckets : Index(b) = previous.index /\ previous.count <= offered[b]
      <4>1. SUFFICES ASSUME NEW b \in TrueBuckets, Index(b) = previous.index
                     PROVE  previous.count <= offered[b]
        BY <1>1 DEF SlotsOffered, Known
      <4>2. CountOf(current, b) + CountOf(previous, b) + Total(InHand(b)) <= offered[b]
        BY <1>1 DEF SlotsOffered
      <4>3. /\ CountOf(current, b) \in Nat /\ CountOf(previous, b) = previous.count
            /\ Total(InHand(b)) \in Nat
        BY <1>1, <4>1, ConstantsOK, TotalsTyped DEF CountOf, TypeOK, Slot, Counts, SumsTyped
      <4> QED
        BY <1>4, <1>5, <4>2, <4>3
    <3> QED
      BY <1>5, <1>8, <2>1, <3>1
  <2>2. CASE previous.index # WrappingSub(i, 1)
    BY <1>6, <2>2
  <2> QED
    BY <2>1, <2>2
<1>10. w.count = 0 \/ \E b \in TrueBuckets : Index(b) = w.index /\ w.count <= offered[b]
  BY <1>1 DEF WordsOffered, w
<1>11. Returned(t) = IF w.index = i THEN Weighted(w.count, p, i, now)
                     ELSE IF w.index = WrappingSub(i, 1) THEN Weighted(0, w.count, i, now)
                     ELSE 0
  BY <1>2 DEF Returned, Estimate, w, now, p
<1> HIDE DEF p
<1>12. CASE w.index = i
  <2>1. w.count <= offered[s]
    <3>1. \A b \in TrueBuckets : Index(b) = i => b = s
      BY <1>2, BucketsCompare DEF i
    <3> QED
      BY <1>2, <1>4, <1>10, <1>12, <3>1
  <2>2. /\ Weighted(w.count, p, i, now) \in Nat
        /\ Weighted(w.count, p, i, now) <= w.count + p
    BY <1>3, <1>4, <1>5, <1>9, WeightedBetween
  <2> QED
    BY <1>2, <1>4, <1>5, <1>6, <1>7, <1>9, <1>11, <1>12, <2>1, <2>2
<1>13. CASE w.index # i /\ w.index = WrappingSub(i, 1)
  <2>1. w.count <= before
    BY <1>5, <1>8, <1>10, <1>13
  <2>2. /\ Weighted(0, w.count, i, now) \in Nat
        /\ Weighted(0, w.count, i, now) <= 0 + w.count
    BY <1>3, <1>4, <1>5, WeightedBetween
  <2> QED
    BY <1>2, <1>4, <1>5, <1>6, <1>7, <1>11, <1>13, <2>1, <2>2
<1>14. CASE w.index # i /\ w.index # WrappingSub(i, 1)
  BY <1>2, <1>4, <1>6, <1>7, <1>11, <1>14
<1> QED
  BY <1>12, <1>13, <1>14

\* So a verdict against the tenant is never the product of a torn read: what
\* was offered in the two buckets really reaches the limit.
THEOREM RefusalsAreJustified == GateSpec => RefusalsJustified
<1> DEFINE Just(t) == LET sum == OfferedAround(TrueBucket(arg[t].now))
                      IN  IF op[t] = "record" THEN sum > MaxTokens ELSE sum >= MaxTokens
<1>1. GateInv => (\A t \in Threads : Refused(t) => Just(t))
  <2> SUFFICES ASSUME GateInv, NEW t \in Threads, Refused(t) PROVE Just(t)
    OBVIOUS
  <2>1. pc[t] = "readPrevious" /\ ~Verdict(t)
    BY DEF Refused
  <2>2. /\ Returned(t) \in Nat /\ Returned(t) <= OfferedAround(Stamp(t))
        /\ OfferedAround(Stamp(t)) \in Nat /\ MaxTokens \in Nat
    BY <2>1, EstimateOffered, GateOK
  <2> QED
    BY <2>1, <2>2 DEF Verdict, Stamp
<1>2. GateInv => [\A t \in Threads : Refused(t) => Just(t)]_gateVars
  BY <1>1
<1> QED
  BY <1>2, GateInvariant, PTL DEF RefusalsJustified

-----------------------------------------------------------------------------
(* Admissions.                                                               *)

\* What a check that started at the limit finds of it: MaxTokens tokens in
\* current, or a current that has moved past its bucket.
ReachedSeen ==
    /\ reached \in [Threads -> BOOLEAN]
    /\ \A t \in Threads : reached[t] =>
          /\ pc[t] \in {"readCurrent", "readPrevious"}
          /\ pc[t] = "readCurrent" => LimitReached(Stamp(t))
          /\ pc[t] = "readPrevious" =>
                \/ MaxTokens = 0
                \/ word[t].index > MyBucket(t)
                \/ word[t].index = MyBucket(t) /\ word[t].count >= MaxTokens

\* Whatever reached the limit is in current, or current has moved on.
LEMMA ReachedIsHeld ==
  ASSUME GateInv, NEW b \in TrueBuckets, LimitReached(b)
  PROVE  \/ MaxTokens = 0
         \/ current.index > Index(b)
         \/ current.index = Index(b) /\ current.count >= MaxTokens
<1>1. TypeOK /\ CallsTyped /\ GrantsOffered /\ CountsExact
  BY DEF GateInv
<1>2. /\ onTime[b] + late[b] >= MaxTokens /\ MaxTokens \in Nat
      /\ onTime[b] + late[b] + Total(Running(b)) <= offered[b]
      /\ onTime[b] \in Nat /\ late[b] \in Nat /\ offered[b] \in Nat
  BY <1>1, GateOK DEF LimitReached, GrantsOffered, CallsTyped
<1>3. /\ Total(Running(b)) \in Nat /\ Total(Unapplied(b)) \in Nat /\ Total(Grantable(b)) \in Nat
      /\ Total(Grantable(b)) + Total(Unapplied(b)) <= Total(Running(b))
  BY <1>1, TotalsTyped DEF SumsTyped
<1>4. Counted(b) \in Nat /\ Counted(b) >= MaxTokens
  BY <1>2, <1>3 DEF Counted
<1>5. Clamp(Counted(b)) >= MaxTokens
  BY <1>2, <1>4, LimitCounts, ConstantsOK DEF Clamp
<1>6. current.index \in Nat /\ Index(b) \in Nat
  BY <1>1, IndexLow DEF TypeOK, Slot, Indices
<1>7. /\ Index(b) = current.index => current.count = Clamp(Counted(b))
      /\ Index(b) > current.index => Counted(b) = 0
  BY <1>1 DEF CountsExact
<1> QED
  BY <1>2, <1>4, <1>5, <1>6, <1>7

\* No grant is taken back, so a limit that was reached stays reached.
LEMMA GrantsOnlyGrow ==
  ASSUME TypeOK, CallsTyped, CallsTyped', [GateNext]_gateVars,
         NEW b \in TrueBuckets, LimitReached(b)
  PROVE  onTime'[b] + late'[b] >= MaxTokens
<1>1. /\ onTime[b] + late[b] >= MaxTokens /\ MaxTokens \in Nat
      /\ onTime[b] \in Nat /\ late[b] \in Nat
      /\ onTime'[b] \in Nat /\ late'[b] \in Nat
  BY GateOK DEF LimitReached, CallsTyped
<1>2. SUFFICES onTime[b] <= onTime'[b] /\ late[b] <= late'[b]
  BY <1>1
<1>3. CASE Tick \/ SetBack \/ UNCHANGED gateVars
  BY <1>1, <1>3, ClockForm DEF registry
<1>4. ASSUME NEW t \in Threads, NEW a \in Amounts \cup {0},
             \/ a \in Amounts /\ StartRecord(t, a)
             \/ a = 0 /\ StartCheck(t)
      PROVE  onTime[b] <= onTime'[b] /\ late[b] <= late'[b]
  <2>1. onTime' = onTime /\ late' = late
    BY <1>4, StartForm
  <2> QED
    BY <1>1, <2>1
<1>5. ASSUME NEW t \in Threads, Run(t)
      PROVE  onTime[b] <= onTime'[b] /\ late[b] <= late'[b]
  BY <1>1, <1>5, RunForm DEF registry
<1>6. ASSUME NEW t \in Threads, Finish(t)
      PROVE  onTime[b] <= onTime'[b] /\ late[b] <= late'[b]
  <2>1. /\ Stamp(t) \in TrueBuckets
        /\ onTime' = IF Granted(t) /\ OnTime(t) THEN Add(onTime, Stamp(t), arg[t].amount)
                                                ELSE onTime
        /\ late' = IF Granted(t) /\ ~OnTime(t) THEN Add(late, Stamp(t), arg[t].amount)
                                               ELSE late
    BY <1>6, FinishForm
  <2>2. arg[t].amount \in Nat
    BY CallType
  <2> QED
    BY <1>1, <2>1, <2>2 DEF Add, CallsTyped
<1> QED
  BY <1>3, <1>4, <1>5, <1>6 DEF GateNext

\* Every step keeps it.
LEMMA ReachedStep ==
  ASSUME GateInv, GateInv', ReachedSeen, [GateNext]_gateVars
  PROVE  ReachedSeen'
<1> DEFINE Sees(t) ==
       /\ pc[t] \in {"readCurrent", "readPrevious"}
       /\ pc[t] = "readCurrent" => LimitReached(Stamp(t))
       /\ pc[t] = "readPrevious" =>
             \/ MaxTokens = 0
             \/ word[t].index > MyBucket(t)
             \/ word[t].index = MyBucket(t) /\ word[t].count >= MaxTokens
<1>0. TypeOK /\ TypeOK' /\ CallsTyped /\ CallsTyped'
  BY DEF GateInv
<1>1. \A t \in Threads : reached[t] => Sees(t)
  BY DEF ReachedSeen
\* A check that does not move still sees it.
<1>2. ASSUME NEW u \in Threads, reached[u], UNCHANGED <<pc[u], arg[u], word[u]>>
      PROVE  Sees(u)'
  <2>1. Sees(u)
    BY <1>1, <1>2
  <2>2. Stamp(u)' = Stamp(u) /\ MyBucket(u)' = MyBucket(u)
    BY <1>2 DEF Stamp, MyBucket
  <2> PICK s \in TrueBuckets : s = Stamp(u)
    BY <1>0, <2>1, CalledForm
  <2>3. pc[u] = "readCurrent" => LimitReached(Stamp(u))'
    BY <1>0, <2>1, <2>2, GrantsOnlyGrow DEF LimitReached
  <2> QED
    BY <1>2, <2>1, <2>2, <2>3
<1>3. CASE Tick \/ SetBack \/ UNCHANGED gateVars
  <2>1. reached' = reached /\ \A u \in Threads : UNCHANGED <<pc[u], arg[u], word[u]>>
    BY <1>0, <1>3, ClockForm DEF vars, registry
  <2>2. \A u \in Threads : reached'[u] => Sees(u)'
    BY <1>2, <2>1
  <2> QED
    BY <2>1, <2>2 DEF ReachedSeen
<1>4. ASSUME NEW t \in Threads, NEW a \in Amounts \cup {0},
             \/ a \in Amounts /\ StartRecord(t, a)
             \/ a = 0 /\ StartCheck(t)
      PROVE  ReachedSeen'
  <2>1. /\ OthersStill(t) /\ UNCHANGED <<clock, onTime, late>>
        /\ pc[t] = "idle"
        /\ arg'[t] = [now |-> clock, amount |-> a]
        /\ \/ reached' = reached
           \/ /\ pc'[t] = "readCurrent"
              /\ reached' = [reached EXCEPT ![t] = LimitReached(TrueBucket(clock))]
    BY <1>0, <1>4, StartForm
  <2>2. ~reached[t]
    BY <1>1, <2>1
  <2>3. reached' \in [Threads -> BOOLEAN]
    <3> DEFINE limit == LimitReached(TrueBucket(clock))
    <3>1. limit \in BOOLEAN
      BY DEF LimitReached
    <3>2. reached' = reached \/ reached' = [reached EXCEPT ![t] = limit]
      BY <2>1
    <3> HIDE DEF limit
    <3> QED
      BY <3>1, <3>2 DEF ReachedSeen
  <2>4. ASSUME NEW u \in Threads, u # t, reached'[u] PROVE Sees(u)'
    <3>1. reached[u] /\ UNCHANGED <<pc[u], arg[u], word[u]>>
      BY <2>1, <2>4 DEF OthersStill, ReachedSeen
    <3> QED
      BY <1>2, <3>1
  <2>5. ASSUME reached'[t] PROVE Sees(t)'
    <3>1. pc'[t] = "readCurrent" /\ LimitReached(TrueBucket(clock))
      BY <2>1, <2>2, <2>5 DEF ReachedSeen
    <3>2. Stamp(t)' = TrueBucket(clock)
      BY <2>1 DEF Stamp
    <3>3. LimitReached(Stamp(t))'
      BY <2>1, <3>1, <3>2 DEF LimitReached
    <3> QED
      BY <3>1, <3>3
  <2> QED
    BY <2>3, <2>4, <2>5 DEF ReachedSeen
<1>5. ASSUME NEW t \in Threads, Run(t)
      PROVE  ReachedSeen'
  <2>1. /\ OthersStill(t) /\ UNCHANGED <<arg, reached>>
        /\ pc[t] = "readCurrent" => ReadCurrent(t)
        /\ pc[t] # "readPrevious"
    BY <1>0, <1>5, RunForm DEF registry
  <2>2. ASSUME NEW u \in Threads, u # t, reached'[u] PROVE Sees(u)'
    <3>1. reached[u] /\ UNCHANGED <<pc[u], arg[u], word[u]>>
      BY <2>1, <2>2 DEF OthersStill
    <3> QED
      BY <1>2, <3>1
  <2>3. ASSUME reached'[t] PROVE Sees(t)'
    <3>1. reached[t] /\ pc[t] = "readCurrent" /\ LimitReached(Stamp(t)) /\ ReadCurrent(t)
      BY <1>1, <2>1, <2>3
    <3>2. pc'[t] = "readPrevious" /\ word'[t] = current /\ MyBucket(t)' = MyBucket(t)
      BY <1>0, <2>1, <3>1 DEF ReadCurrent, TypeOK, MyBucket
    <3> PICK s \in TrueBuckets : s = Stamp(t)
      BY <1>0, <3>1, CalledForm
    <3>3. MyBucket(t) = Index(s)
      BY <1>0, <3>1, CalledForm
    <3>4. \/ MaxTokens = 0
          \/ current.index > Index(s)
          \/ current.index = Index(s) /\ current.count >= MaxTokens
      BY <3>1, ReachedIsHeld
    <3> QED
      BY <3>2, <3>3, <3>4
  <2> QED
    BY <2>1, <2>2, <2>3 DEF ReachedSeen
<1>6. ASSUME NEW t \in Threads, Finish(t)
      PROVE  ReachedSeen'
  <2>1. OthersStill(t) /\ reached' = [reached EXCEPT ![t] = FALSE]
    BY <1>0, <1>6, FinishForm
  <2>2. reached' \in [Threads -> BOOLEAN] /\ ~reached'[t]
    BY <2>1 DEF ReachedSeen
  <2>3. ASSUME NEW u \in Threads, u # t, reached'[u] PROVE Sees(u)'
    <3>1. reached[u] /\ UNCHANGED <<pc[u], arg[u], word[u]>>
      BY <2>1, <2>3 DEF OthersStill, ReachedSeen
    <3> QED
      BY <1>2, <3>1
  <2> QED
    BY <2>2, <2>3 DEF ReachedSeen
<1> QED
  BY <1>3, <1>4, <1>5, <1>6 DEF GateNext

\* A check that starts when the limit is reached in its bucket does not admit
\* the tenant, unless current moves past that bucket before the check reads
\* it (is_within_budget, budget/mod.rs:72-76).
THEOREM LimitClosesAdmission == GateSpec => NoAdmissionAtLimit
<1> DEFINE Closed(t) == Admitted(t) /\ reached[t] => Overtaken(t)
<1>1. GateInit => ReachedSeen
  BY DEF GateInit, ReachedSeen
<1>2. GateInv /\ GateInv' /\ ReachedSeen /\ [GateNext]_gateVars => ReachedSeen'
  BY ReachedStep
<1>3. GateInv /\ ReachedSeen => \A t \in Threads : Closed(t)
  <2> SUFFICES ASSUME GateInv, ReachedSeen, NEW t \in Threads, Admitted(t), reached[t]
               PROVE  Overtaken(t)
    OBVIOUS
  <2>1. /\ pc[t] = "readPrevious" /\ Returned(t) < MaxTokens
    BY DEF Admitted, Verdict
  <2>2. TypeOK /\ SlotsOrdered /\ CallsTyped /\ EffectSeen
    BY DEF GateInv
  <2>3. Returned(t) \in Nat /\ MaxTokens \in Nat
    BY <2>1, EstimateOffered, GateOK
  <2>4. /\ word[t].index \in 0 .. HalfIndex - 3 /\ word[t].count \in Nat
        /\ MyBucket(t) \in 0 .. HalfIndex - 3
    <3>1. word[t].index <= current.index /\ current.index \in 0 .. HalfIndex - 3
      BY <2>1, <2>2, SlotIndices DEF EffectSeen
    <3>2. word[t].index \in Nat /\ word[t].count \in Nat
      BY <2>2, ConstantsOK DEF TypeOK, Slot, Indices, Counts
    <3> QED
      BY <2>2, <3>1, <3>2, CallType, ConstantsOK
  <2>5. CASE word[t].index > MyBucket(t)
    BY <2>4, <2>5, ConstantsOK DEF Overtaken, IsAhead, WrappingSub, IndexMod
  <2>6. CASE word[t].index = MyBucket(t) /\ word[t].count >= MaxTokens
    <3> DEFINE i == MyBucket(t)
               now == arg[t].now
               p == IF previous.index = WrappingSub(i, 1) THEN previous.count ELSE 0
    <3>1. i \in Nat /\ now \in Nat /\ p \in Nat
      <4>1. now \in Times \cup {0} /\ previous.count \in Nat
        BY <2>2, CallType, ConstantsOK DEF TypeOK, Slot, Counts
      <4>2. \A n \in Times \cup {0} : n \in Nat
        BY ConstantsOK
      <4> QED
        BY <2>4, <4>1, <4>2
    <3>2. Returned(t) = Weighted(word[t].count, p, i, now)
      BY <2>6 DEF Returned, Estimate, MyBucket
    <3> HIDE DEF i, now, p
    <3> PICK c \in Nat : c = word[t].count
      BY <2>4
    <3>3. c <= Weighted(c, p, i, now)
      BY <3>1, WeightedBetween
    <3> QED
      BY <2>1, <2>3, <2>4, <2>6, <3>2, <3>3
  <2>7. MaxTokens # 0
    BY <2>1, <2>3
  <2> QED
    BY <2>1, <2>5, <2>6, <2>7 DEF ReachedSeen
<1>4. GateInv /\ ReachedSeen => [\A t \in Threads : Closed(t)]_gateVars
  BY <1>3
<1> QED
  BY <1>1, <1>2, <1>4, GateInvariant, PTL DEF GateSpec, NoAdmissionAtLimit
=============================================================================
