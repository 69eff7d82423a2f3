------------------------ MODULE SlidingWindow_proofs ------------------------
(***************************************************************************)
(* Proofs that SlidingWindowCounter keeps its invariant and implements      *)
(* AtomicWindow, for any number of threads, any amounts and any window,     *)
(* under the assumption its is_ahead comment makes (NoWrap).                *)
(***************************************************************************)
EXTENDS SlidingWindowProps, TLAPS

-----------------------------------------------------------------------------
(* Arithmetic.                                                               *)

\* A clamped count fits in a slot and does not exceed what was clamped.
LEMMA ClampFits == ASSUME NEW n \in Nat
                   PROVE  Clamp(n) \in Counts /\ Clamp(n) \in Nat
  BY ConstantsOK DEF Clamp, Counts

\* A count that fits is its own clamp.
LEMMA ClampFixed == ASSUME NEW n \in Counts
                    PROVE  Clamp(n) = n
  BY ConstantsOK DEF Clamp, Counts

\* Clamping an operand of a clamped sum changes nothing.
LEMMA ClampSum == ASSUME NEW m \in Nat, NEW n \in Nat
                  PROVE  /\ Clamp(Clamp(m) + n) = Clamp(m + n)
                         /\ Clamp(m + Clamp(n)) = Clamp(m + n)
  BY ConstantsOK DEF Clamp

\* The bucket of any instant a caller passes, or of the idle value 0, is an
\* index in the lower half of the range, where serial comparison is <.
LEMMA BucketLow == /\ \A n \in Times \cup {0} : BucketOf(n) \in 0 .. HalfIndex - 3
                   /\ BucketOf(0) = 0
<1>1. IndexMod \in Nat \ {0}
  BY ConstantsOK DEF IndexMod
<1>2. \A n \in Nat : n \div Window \in Nat
  BY ConstantsOK
<1>3. \A n \in Nat : BucketOf(n) \in 0 .. IndexMod - 1
  BY <1>1, <1>2 DEF BucketOf
<1>4. 0 \div Window = 0
  BY ConstantsOK
<1>5. BucketOf(0) = 0
  BY <1>1, <1>4 DEF BucketOf
<1> QED
  BY <1>3, <1>5, NoWrap, ConstantsOK

\* Serial-number comparison of two indices in the lower half is <.
LEMMA SerialIsLess == ASSUME NEW i \in 0 .. HalfIndex - 3, NEW j \in 0 .. HalfIndex - 3
                      PROVE  /\ IsAhead(i, j) <=> i > j
                             /\ WrappingSub(i, j) = 1 <=> i = j + 1
                             /\ i > 0 => WrappingSub(i, 1) = i - 1
  BY ConstantsOK DEF IsAhead, WrappingSub, IndexMod

\* The sentinel is not adjacent to a low index, and every low index is ahead of it.
LEMMA SentinelOld == ASSUME NEW i \in 0 .. HalfIndex - 3
                     PROVE  /\ Sentinel.index # i
                            /\ IsAhead(i, Sentinel.index)
  BY ConstantsOK DEF Sentinel, Slots, IsAhead, WrappingSub, IndexMod

-----------------------------------------------------------------------------
(* Types.                                                                    *)

\* Wrapping subtraction stays within the range of an index.
LEMMA WrappingSubType == ASSUME NEW i \in Indices, NEW j \in Indices
                         PROVE  WrappingSub(i, j) \in Indices
  BY ConstantsOK DEF WrappingSub, Indices, IndexMod

\* What a caller's own call contributes: a low bucket and a natural amount.
LEMMA CallType == ASSUME TypeOK, NEW t \in Threads
                  PROVE  /\ arg[t].now \in Times \cup {0}
                         /\ arg[t].amount \in Nat
                         /\ MyBucket(t) \in 0 .. HalfIndex - 3
                         /\ MyBucket(t) \in Indices
                         /\ Clamp(arg[t].amount) \in Counts
<1>1. arg[t].now \in Times \cup {0} /\ arg[t].amount \in Nat
  <2>1. arg[t] \in [now : Times \cup {0}, amount : Amounts \cup {0}]
    BY DEF TypeOK
  <2>2. arg[t].now \in Times \cup {0} /\ arg[t].amount \in Amounts \cup {0}
    BY <2>1
  <2>3. \A a \in Amounts \cup {0} : a \in Nat
    BY ConstantsOK
  <2> QED
    BY <2>2, <2>3
<1>2. MyBucket(t) \in 0 .. HalfIndex - 3
  BY <1>1, BucketLow DEF MyBucket
<1>3. MyBucket(t) \in Indices
  BY <1>2, ConstantsOK DEF Indices, IndexMod
<1> QED
  BY <1>1, <1>2, <1>3, ClampFits

\* A slot is the record of its two parts.
LEMMA SlotType == ASSUME NEW i \in Indices, NEW c \in Counts
                  PROVE  Slots(i, c) \in Slot
  BY DEF Slots, Slot

\* The initial words are slots.
LEMMA InitSlots == EmptySlot \in Slot /\ Sentinel \in Slot
  BY ConstantsOK DEF EmptySlot, Sentinel, Slots, Slot, Indices, Counts, IndexMod

\* What is carried to previous, and previous after the merge, are slots.
LEMMA MergeType == ASSUME NEW c \in Slot, NEW p \in Slot, NEW i \in Indices
                   PROVE  CarryOver(c, i) \in Slot /\ Merged(p, c) \in Slot
<1>1. c.index \in Indices /\ p.index \in Indices /\ c.count \in Nat /\ p.count \in Nat
  BY ConstantsOK DEF Slot, Counts
<1>2. WrappingSub(i, 1) \in Indices
  BY WrappingSubType, ConstantsOK DEF Indices, IndexMod
<1>3. 0 \in Counts
  BY ConstantsOK DEF Counts
<1>4. CarryOver(c, i) \in Slot
  BY <1>2, <1>3, SlotType DEF CarryOver
<1>5. Clamp(p.count + c.count) \in Counts
  BY <1>1, ClampFits
<1>6. Merged(p, c) \in Slot
  BY <1>1, <1>5, SlotType DEF Merged
<1> QED
  BY <1>4, <1>6

\* The initial state is well typed.
LEMMA TypeInit == Init => TypeOK
  BY InitSlots, ConstantsOK DEF Init, TypeOK, PCs, NoCall

\* Every step keeps the types.
LEMMA TypeNext == TypeOK /\ [Next]_vars => TypeOK'
<1> SUFFICES ASSUME TypeOK, [Next]_vars PROVE TypeOK'
  OBVIOUS
<1> USE InitSlots DEF PCs
<1>1. ASSUME NEW t \in Threads, NEW n \in Times, NEW a \in Amounts, CallAdd(t, n, a)
      PROVE  TypeOK'
  BY <1>1 DEF CallAdd, TypeOK
<1>2. ASSUME NEW t \in Threads, NEW n \in Times, CallEstimate(t, n)
      PROVE  TypeOK'
  BY <1>2 DEF CallEstimate, TypeOK
<1>3. ASSUME NEW t \in Threads, Step(t)
      PROVE  TypeOK'
  <2>1. /\ MyBucket(t) \in Indices
        /\ Clamp(arg[t].amount) \in Counts
    BY CallType
  <2>2. Slots(MyBucket(t), Clamp(arg[t].amount)) \in Slot
    BY <2>1, SlotType
  <2>3. CASE Load(t)
    BY <2>2, <2>3 DEF Load, TypeOK
  <2>4. CASE ExchangeOk(t)
    <3>1. current.count \in Nat /\ arg[t].amount \in Nat
      BY CallType, ConstantsOK DEF TypeOK, Slot, Counts
    <3>2. Slots(MyBucket(t), Clamp(current.count + arg[t].amount)) \in Slot
      BY <2>1, <3>1, ClampFits, SlotType
    <3>3. CarryOver(current, MyBucket(t)) \in Slot
      BY <2>1, MergeType DEF TypeOK
    <3> QED
      BY <2>2, <2>4, <3>2, <3>3 DEF ExchangeOk, TypeOK
  <2>5. CASE ExchangeFail(t)
    BY <2>5 DEF ExchangeFail, TypeOK
  <2>6. CASE MergeLoad(t)
    BY <2>6 DEF MergeLoad, TypeOK
  <2>7. CASE MergeExchangeOk(t)
    <3>1. Merged(previous, carry[t]) \in Slot
      BY <2>1, MergeType DEF TypeOK
    <3> QED
      BY <2>7, <3>1 DEF MergeExchangeOk, TypeOK
  <2>8. CASE MergeExchangeFail(t)
    BY <2>8 DEF MergeExchangeFail, TypeOK
  <2>9. CASE ReadCurrent(t)
    BY <2>9 DEF ReadCurrent, TypeOK
  <2>10. CASE ReadPrevious(t)
    BY <2>10 DEF ReadPrevious, TypeOK, NoCall
  <2> QED
    BY <1>3, <2>3, <2>4, <2>5, <2>6, <2>7, <2>8, <2>9, <2>10 DEF Step
<1>4. CASE UNCHANGED vars
  BY <1>4 DEF vars, TypeOK
<1> QED
  BY <1>1, <1>2, <1>3, <1>4 DEF Next

\* Both atomic words always hold a packed index and count, and every thread
\* stands at an atomic access of add or estimate.
THEOREM TypeCorrect == Spec => []TypeOK
  BY TypeInit, TypeNext, PTL DEF Spec

-----------------------------------------------------------------------------
(* The invariant.                                                            *)

\* The initial state satisfies the invariant: previous holds the sentinel
\* and nobody is merging.
LEMMA OrderedInit == Init => SlotsOrdered
  BY ConstantsOK DEF Init, SlotsOrdered, PreviousBehind, CarryBehind,
     LateCarriesAmount, OneHandover, LoadedBehind, Rolling, Merging, EmptySlot, Slots

\* The indices of the two slots, of a loaded word and of a carry.
LEMMA SlotIndices == ASSUME TypeOK, SlotsOrdered, NEW t \in Threads
                     PROVE  /\ current.index \in 0 .. HalfIndex - 3
                            /\ previous.index \in Nat
                            /\ previous # Sentinel => previous.index \in 0 .. HalfIndex - 3
                            /\ Merging(t) => carry[t].index \in 0 .. HalfIndex - 3
                            /\ word[t].index \in Nat
                            /\ carry[t].count \in Counts
                            /\ current.count \in Counts
                            /\ previous.count \in Counts
  BY ConstantsOK DEF TypeOK, SlotsOrdered, PreviousBehind, CarryBehind, LoadedBehind,
     Slot, Indices, IndexMod

\* Every step keeps the invariant.
LEMMA OrderedNext == TypeOK /\ SlotsOrdered /\ [Next]_vars => SlotsOrdered'
<1> SUFFICES ASSUME TypeOK, SlotsOrdered, [Next]_vars PROVE SlotsOrdered'
  OBVIOUS
<1> USE DEF SlotsOrdered, PreviousBehind, CarryBehind, LateCarriesAmount, OneHandover,
            LoadedBehind, Rolling, Merging, MyBucket
<1>1. ASSUME NEW t \in Threads, NEW n \in Times, NEW a \in Amounts, CallAdd(t, n, a)
      PROVE  SlotsOrdered'
  BY <1>1 DEF CallAdd, TypeOK
<1>2. ASSUME NEW t \in Threads, NEW n \in Times, CallEstimate(t, n)
      PROVE  SlotsOrdered'
  BY <1>2 DEF CallEstimate, TypeOK
<1>3. ASSUME NEW t \in Threads, Step(t)
      PROVE  SlotsOrdered'
  <2> DEFINE i == MyBucket(t)
  <2>1. i \in 0 .. HalfIndex - 3 /\ current.index \in 0 .. HalfIndex - 3
    BY CallType, SlotIndices
  <2>2. CASE Load(t)
    <3>1. /\ i = current.index \/ IsAhead(i, current.index) => current.index <= i
          /\ WrappingSub(current.index, i) = 1 => i < current.index
      BY <2>1, SerialIsLess
    <3>2. CASE pc'[t] = "exchange"
      <4>1. /\ pc' = [pc EXCEPT ![t] = "exchange"]
            /\ word' = [word EXCEPT ![t] = current]
            /\ UNCHANGED <<current, previous, arg, carry>>
            /\ current.index <= i
        BY <2>2, <3>1, <3>2 DEF Load, TypeOK
      <4>2. /\ \A u \in Threads \ {t} : pc'[u] = pc[u] /\ word'[u] = word[u]
            /\ pc'[t] = "exchange" /\ word'[t] = current
        BY <4>1 DEF TypeOK
      <4>3. PreviousBehind' /\ CarryBehind'
        BY <4>1, <4>2
      <4>4. LateCarriesAmount' /\ OneHandover'
        BY <4>1, <4>2
      <4>5. LoadedBehind'
        BY <4>1, <4>2
      <4> QED
        BY <4>3, <4>4, <4>5
    <3>3. CASE pc'[t] = "mergeLoad"
      <4>1. /\ pc' = [pc EXCEPT ![t] = "mergeLoad"]
            /\ carry' = [carry EXCEPT ![t] = Slots(i, Clamp(arg[t].amount))]
            /\ UNCHANGED <<current, previous, arg, word>>
            /\ i < current.index
        BY <2>2, <3>1, <3>3 DEF Load, TypeOK
      <4>2. carry'[t].index = i /\ carry'[t].count = Clamp(arg[t].amount)
        BY <4>1 DEF Slots, TypeOK
      <4> QED
        BY <4>1, <4>2 DEF TypeOK
    <3>4. CASE pc'[t] = "readCurrent"
      <4>1. /\ pc' = [pc EXCEPT ![t] = "readCurrent"]
            /\ UNCHANGED <<current, previous, arg, word, carry>>
        BY <2>2, <3>4 DEF Load, TypeOK
      <4>2. /\ \A u \in Threads \ {t} : pc'[u] = pc[u]
            /\ pc'[t] = "readCurrent"
        BY <4>1 DEF TypeOK
      <4>3. PreviousBehind' /\ CarryBehind'
        BY <4>1, <4>2
      <4>4. LateCarriesAmount' /\ OneHandover'
        BY <4>1, <4>2
      <4>5. LoadedBehind'
        BY <4>1, <4>2
      <4> QED
        BY <4>3, <4>4, <4>5
    <3> QED
      BY <2>2, <3>2, <3>3, <3>4 DEF Load, TypeOK
  <2>3. CASE ExchangeOk(t)
    <3>1. current.index <= i
      BY <2>3 DEF ExchangeOk
    <3>2. CASE i = current.index
      <4>1. /\ current'.index = current.index
            /\ pc' = [pc EXCEPT ![t] = "readCurrent"]
            /\ word' = [word EXCEPT ![t] = EmptySlot]
            /\ UNCHANGED <<previous, arg, carry>>
        BY <2>3, <3>2 DEF ExchangeOk, Slots
      <4>2. /\ \A u \in Threads \ {t} : pc'[u] = pc[u] /\ word'[u] = word[u]
            /\ pc'[t] = "readCurrent"
        BY <4>1 DEF TypeOK
      <4>3. PreviousBehind' /\ CarryBehind'
        BY <4>1, <4>2
      <4>4. LateCarriesAmount' /\ OneHandover'
        BY <4>1, <4>2
      <4>5. LoadedBehind'
        BY <4>1, <4>2
      <4> QED
        BY <4>3, <4>4, <4>5
    <3>3. CASE i # current.index
      <4>1. i > current.index /\ i > 0
        BY <2>1, <3>1, <3>3
      <4>2. CarryOver(current, i).index = i - 1
        BY <2>1, <4>1, SerialIsLess DEF CarryOver, Slots
      <4>3. /\ current' = Slots(i, Clamp(arg[t].amount))
            /\ carry' = [carry EXCEPT ![t] = CarryOver(current, i)]
            /\ pc' = [pc EXCEPT ![t] = "mergeLoad"]
            /\ word' = [word EXCEPT ![t] = EmptySlot]
            /\ UNCHANGED <<previous, arg>>
        BY <2>3, <3>3 DEF ExchangeOk
      <4>4. /\ current'.index = i
            /\ carry'[t].index = i - 1
            /\ \A u \in Threads \ {t} : carry'[u] = carry[u] /\ pc'[u] = pc[u] /\ word'[u] = word[u]
            /\ pc'[t] = "mergeLoad"
        BY <4>2, <4>3 DEF Slots, TypeOK
      <4>5. \A u \in Threads : Rolling(u) => carry[u].index < current.index
        OBVIOUS
      <4>6. OneHandover'
        BY <2>1, <4>1, <4>3, <4>4, <4>5
      <4>7. LateCarriesAmount'
        BY <2>1, <4>1, <4>3, <4>4
      <4>8. PreviousBehind' /\ CarryBehind'
        BY <2>1, <4>1, <4>3, <4>4, SlotIndices
      <4>9. LoadedBehind'
        BY <2>1, <4>1, <4>3, <4>4
      <4> QED
        BY <4>6, <4>7, <4>8, <4>9
    <3> QED
      BY <3>2, <3>3
  <2>4. CASE ExchangeFail(t)
    BY <2>4 DEF ExchangeFail, TypeOK
  <2>5. CASE MergeLoad(t)
    <3>1. CASE pc'[t] = "mergeExchange"
      <4>1. /\ pc' = [pc EXCEPT ![t] = "mergeExchange"]
            /\ word' = [word EXCEPT ![t] = previous]
            /\ UNCHANGED <<current, previous, arg, carry>>
            /\ carry[t].index = previous.index \/ IsAhead(carry[t].index, previous.index)
            /\ pc[t] = "mergeLoad"
        BY <2>5, <3>1 DEF MergeLoad, TypeOK
      <4>2. /\ \A u \in Threads \ {t} : pc'[u] = pc[u] /\ word'[u] = word[u]
            /\ pc'[t] = "mergeExchange" /\ word'[t] = previous
        BY <4>1 DEF TypeOK
      <4>3. PreviousBehind' /\ CarryBehind'
        BY <4>1, <4>2
      <4>4. LateCarriesAmount' /\ OneHandover'
        BY <4>1, <4>2
      <4>5. LoadedBehind'
        BY <4>1, <4>2
      <4> QED
        BY <4>3, <4>4, <4>5
    <3>2. CASE pc'[t] = "readCurrent"
      <4>1. /\ pc' = [pc EXCEPT ![t] = "readCurrent"]
            /\ carry' = [carry EXCEPT ![t] = EmptySlot]
            /\ UNCHANGED <<current, previous, arg, word>>
        BY <2>5, <3>2 DEF MergeLoad, TypeOK
      <4>2. /\ \A u \in Threads \ {t} : pc'[u] = pc[u] /\ carry'[u] = carry[u]
            /\ pc'[t] = "readCurrent"
        BY <4>1 DEF TypeOK
      <4>3. PreviousBehind' /\ CarryBehind'
        BY <4>1, <4>2
      <4>4. LateCarriesAmount' /\ OneHandover'
        BY <4>1, <4>2
      <4>5. LoadedBehind'
        BY <4>1, <4>2
      <4> QED
        BY <4>3, <4>4, <4>5
    <3> QED
      BY <2>5, <3>1, <3>2 DEF MergeLoad, TypeOK
  <2>6. CASE MergeExchangeOk(t)
    BY <2>6, SlotIndices DEF MergeExchangeOk, Merged, Slots, TypeOK
  <2>7. CASE MergeExchangeFail(t)
    BY <2>7 DEF MergeExchangeFail, TypeOK
  <2>8. CASE ReadCurrent(t)
    BY <2>8 DEF ReadCurrent, TypeOK
  <2>9. CASE ReadPrevious(t)
    BY <2>9 DEF ReadPrevious, TypeOK
  <2> QED
    BY <1>3, <2>2, <2>3, <2>4, <2>5, <2>6, <2>7, <2>8, <2>9 DEF Step
<1>4. CASE UNCHANGED vars
  BY <1>4 DEF vars
<1> QED
  BY <1>1, <1>2, <1>3, <1>4 DEF Next

\* previous and every carry lie behind current, and a finished bucket is
\* handed to previous at most once, whatever the threads' interleaving.
THEOREM SlotsStayOrdered == Spec => []SlotsOrdered
  BY TypeInit, OrderedInit, TypeNext, OrderedNext, PTL DEF Spec

-----------------------------------------------------------------------------
(* The refinement.  A step of one thread leaves the others alone; what the  *)
(* mapping then needs of each action is the phase it gives the thread and    *)
(* what it does to the count carried to the bucket before current.           *)

OthersStill(t) == /\ \A u \in Threads \ {t} : /\ pc'[u] = pc[u]
                                              /\ carry'[u] = carry[u]
                                              /\ arg'[u] = arg[u]
                                              /\ word'[u] = word[u]
                  /\ pc' = [pc EXCEPT ![t] = pc'[t]]

\* A step of t is a step of t alone.
LEMMA StepsAlone == ASSUME TypeOK, NEW t \in Threads,
                           \/ \E n \in Times, a \in Amounts : CallAdd(t, n, a)
                           \/ \E n \in Times : CallEstimate(t, n)
                           \/ Step(t)
                    PROVE  OthersStill(t)
  BY DEF TypeOK, OthersStill, CallAdd, CallEstimate, Step, Load, ExchangeOk, ExchangeFail,
         MergeLoad, MergeExchangeOk, MergeExchangeFail, ReadCurrent, ReadPrevious

\* So the mapped phase changes for t alone.
LEMMA PhaseAlone == ASSUME NEW t \in Threads, OthersStill(t)
                    PROVE  Phases' = [Phases EXCEPT ![t] = Phase(t)']
  BY DEF OthersStill, Phases, Phase, Rolling, Merging, MyBucket

\* And the mapped call changes with arg alone.
LEMMA CallsFixed == ASSUME arg' = arg
                    PROVE  Calls' = Calls
  BY DEF Calls, MyBucket

\* The one element of a singleton.
LEMMA ChooseOnly == ASSUME NEW S, NEW t, S = {t}
                    PROVE  (CHOOSE u \in S : TRUE) = t
  OBVIOUS

\* At most one thread hands over the bucket before current.
LEMMA HandoverUnique == ASSUME SlotsOrdered, TypeOK, NEW t \in Handovers
                        PROVE  Handovers = {t} /\ InFlight = carry[t].count
<1>1. Handovers = {t}
  <2>1. \A u \in Handovers : u \in Threads /\ Rolling(u) /\ carry[u].index + 1 = current.index
    BY DEF Handovers, Adjacent
  <2>2. \A u \in Handovers : carry[u].index \in Nat
    BY <2>1 DEF TypeOK, Slot, Indices
  <2>3. \A u \in Handovers : carry[u].index = carry[t].index
    BY <2>1, <2>2
  <2>4. \A u \in Handovers : u = t
    BY <2>1, <2>3 DEF SlotsOrdered, OneHandover
  <2> QED
    BY <2>4
<1>2. (CHOOSE u \in Handovers : TRUE) = t
  BY <1>1, ChooseOnly
<1> QED
  BY <1>1, <1>2 DEF InFlight

\* The count in flight is a count.
LEMMA CarriedType == ASSUME SlotsOrdered, TypeOK
                     PROVE  InPrevious \in Nat /\ InFlight \in Nat
<1>1. InPrevious \in Nat
  BY ConstantsOK DEF InPrevious, TypeOK, Slot, Counts
<1>2. CASE Handovers = {}
  BY <1>1, <1>2 DEF InFlight
<1>3. ASSUME NEW t \in Handovers PROVE InFlight \in Nat
  BY <1>3, HandoverUnique, ConstantsOK DEF TypeOK, Slot, Counts, Handovers
<1> QED
  BY <1>1, <1>2, <1>3

\* A step of a thread that hands nothing over, before or after it, leaves the
\* count in flight alone as long as current stays in its bucket.
LEMMA InFlightFixed == ASSUME NEW t \in Threads, OthersStill(t),
                              current'.index = current.index,
                              t \notin Handovers, t \notin Handovers'
                       PROVE  Handovers' = Handovers /\ InFlight' = InFlight
<1>1. Handovers' = Handovers
  BY DEF OthersStill, Handovers, Rolling, Merging, MyBucket, Adjacent
<1>2. CASE Handovers = {}
  BY <1>1, <1>2 DEF InFlight
<1>3. CASE Handovers # {}
  <2> DEFINE u == CHOOSE u \in Handovers : TRUE
  <2>1. u \in Handovers
    BY <1>3
  <2>2. u \in Threads \ {t}
    BY <2>1 DEF Handovers
  <2>3. carry'[u] = carry[u]
    BY <2>2 DEF OthersStill
  <2> QED
    BY <1>1, <1>3, <2>3 DEF InFlight
<1> QED
  BY <1>1, <1>2, <1>3

\* What previous holds of the bucket before current depends on both slots.
LEMMA InPreviousFixed == ASSUME previous' = previous, current'.index = current.index
                         PROVE  InPrevious' = InPrevious
  BY DEF InPrevious, Adjacent, Sentinel, Slots, IndexMod

\* A step of t that touches neither bucket and hands nothing over is invisible
\* but for t's phase.
LEMMA CarriedFixed == ASSUME NEW t \in Threads, OthersStill(t),
                             previous' = previous, current'.index = current.index,
                             t \notin Handovers, t \notin Handovers'
                      PROVE  Carried' = Carried
  BY InFlightFixed, InPreviousFixed DEF Carried, Clamp

-----------------------------------------------------------------------------
(* One lemma per action: what it is in the abstract specification.           *)

\* The initial state maps to the abstract initial state.
LEMMA InitRefines == Init => Atomic!Init
<1> SUFFICES ASSUME Init PROVE Atomic!Init
  OBVIOUS
<1>1. current.index = 0 /\ current.count = 0 /\ previous = Sentinel
  BY DEF Init, EmptySlot, Slots
<1>2. Handovers = {}
  BY DEF Init, Handovers, Rolling, Merging
<1>3. Carried = 0
  BY <1>1, <1>2, ConstantsOK DEF Carried, InPrevious, InFlight, Clamp
<1>4. Phases = [t \in Threads |-> "idle"]
  BY DEF Init, Phases, Phase
<1>5. \A t \in Threads : MyBucket(t) = 0 /\ arg[t].amount = 0
  BY BucketLow DEF Init, MyBucket, NoCall
<1>6. Calls = [t \in Threads |-> Atomic!NoCall]
  BY <1>5 DEF Calls, Atomic!NoCall
<1> QED
  BY <1>1, <1>3, <1>4, <1>6 DEF Atomic!Init

\* Entering add or estimate is the abstract call.
LEMMA CallRefines == ASSUME TypeOK, SlotsOrdered, NEW t \in Threads, NEW n \in Times
                     PROVE  /\ CallEstimate(t, n) => Atomic!CallEstimate(t, BucketOf(n))
                            /\ \A a \in Amounts :
                                  CallAdd(t, n, a) => Atomic!CallAdd(t, BucketOf(n), a)
<1>1. ASSUME CallEstimate(t, n) PROVE Atomic!CallEstimate(t, BucketOf(n))
  <2>1. /\ pc[t] = "idle" /\ pc'[t] = "readCurrent"
        /\ arg' = [arg EXCEPT ![t] = [now |-> n, amount |-> 0]]
        /\ UNCHANGED <<current, previous, word, carry>>
    BY <1>1 DEF CallEstimate, TypeOK
  <2>2. OthersStill(t)
    BY <1>1, StepsAlone
  <2>3. Carried' = Carried
    BY <2>1, <2>2, CarriedFixed DEF Handovers, Rolling, Merging
  <2>4. Phases[t] = "idle" /\ Phases' = [Phases EXCEPT ![t] = "applied"]
    BY <2>1, <2>2, PhaseAlone DEF Phases, Phase, Rolling, Merging
  <2>5. Calls' = [Calls EXCEPT ![t] = [bucket |-> BucketOf(n), amount |-> 0]]
    BY <2>1 DEF Calls, MyBucket, TypeOK
  <2> QED
    BY <2>1, <2>3, <2>4, <2>5 DEF Atomic!CallEstimate
<1>2. ASSUME NEW a \in Amounts, CallAdd(t, n, a) PROVE Atomic!CallAdd(t, BucketOf(n), a)
  <2>1. /\ pc[t] = "idle" /\ pc'[t] = "load"
        /\ arg' = [arg EXCEPT ![t] = [now |-> n, amount |-> a]]
        /\ UNCHANGED <<current, previous, word, carry>>
    BY <1>2 DEF CallAdd, TypeOK
  <2>2. OthersStill(t)
    BY <1>2, StepsAlone
  <2>3. Carried' = Carried
    BY <2>1, <2>2, CarriedFixed DEF Handovers, Rolling, Merging
  <2>4. Phases[t] = "idle" /\ Phases' = [Phases EXCEPT ![t] = "called"]
    BY <2>1, <2>2, PhaseAlone DEF Phases, Phase, Rolling, Merging
  <2>5. Calls' = [Calls EXCEPT ![t] = [bucket |-> BucketOf(n), amount |-> a]]
    BY <2>1 DEF Calls, MyBucket, TypeOK
  <2> QED
    BY <2>1, <2>3, <2>4, <2>5 DEF Atomic!CallAdd
<1> QED
  BY <1>1, <1>2

\* The abstract instant at which t's add takes effect: the mapped phase goes
\* from called to applied, and the bucket decides what is counted.
LEMMA ApplyForm == ASSUME TypeOK, NEW t \in Threads, OthersStill(t), arg' = arg,
                          Phase(t) = "called", Phase(t)' = "applied",
                          LET b == MyBucket(t)
                              a == arg[t].amount
                          IN  \/ Atomic!Count(b, a)  \/ Atomic!Advance(b, a)
                              \/ Atomic!CountLate(b, a) \/ Atomic!TooLate(b)
                   PROVE  Atomic!Apply(t)
<1>1. Phases[t] = "called" /\ Phases' = [Phases EXCEPT ![t] = "applied"]
  BY PhaseAlone DEF Phases
<1>2. Calls[t].bucket = MyBucket(t) /\ Calls[t].amount = arg[t].amount
  BY DEF Calls
<1>3. Calls' = Calls
  BY CallsFixed
<1> QED
  BY <1>1, <1>2, <1>3 DEF Atomic!Apply

\* A step that leaves both buckets, the phase and the call alone is a stutter.
LEMMA StutterForm == ASSUME TypeOK, NEW t \in Threads, OthersStill(t), arg' = arg,
                            Phase(t)' = Phase(t),
                            current' = current, Carried' = Carried
                     PROVE  UNCHANGED Atomic!vars
<1>1. Phases' = Phases
  BY PhaseAlone DEF Phases
<1>2. Calls' = Calls
  BY CallsFixed
<1> QED
  BY <1>1, <1>2 DEF Atomic!vars

\* Loading current decides nothing visible, unless it shows that the add is
\* too late: that is the instant at which it is applied without effect.
LEMMA LoadRefines == ASSUME TypeOK, SlotsOrdered, NEW t \in Threads, Load(t)
                     PROVE  Atomic!Apply(t) \/ UNCHANGED Atomic!vars
<1> DEFINE i == MyBucket(t)
<1>1. /\ i \in 0 .. HalfIndex - 3 /\ current.index \in 0 .. HalfIndex - 3
      /\ i = current.index \/ IsAhead(i, current.index) <=> current.index <= i
      /\ WrappingSub(current.index, i) = 1 <=> current.index = i + 1
  BY CallType, SlotIndices, SerialIsLess
<1>2. /\ pc[t] = "load" /\ arg' = arg /\ current' = current /\ previous' = previous
      /\ OthersStill(t)
      /\ Phase(t) = "called"
  BY StepsAlone DEF Load, Step, Phase
<1>3. t \notin Handovers
  BY <1>2 DEF Handovers, Rolling, Merging
<1>4. CASE pc'[t] = "exchange"
  <2>1. t \notin Handovers' /\ Phase(t)' = "called"
    BY <1>4 DEF Handovers, Rolling, Merging, Phase
  <2> QED
    BY <1>2, <1>3, <2>1, CarriedFixed, StutterForm
<1>5. CASE pc'[t] = "mergeLoad"
  <2>1. carry'[t].index = i
    BY <1>5 DEF Load, Slots, TypeOK
  <2>2. t \notin Handovers' /\ Phase(t)' = "called"
    BY <1>2, <1>5, <2>1 DEF Handovers, Rolling, Merging, Phase, MyBucket
  <2> QED
    BY <1>2, <1>3, <2>2, CarriedFixed, StutterForm
<1>6. CASE pc'[t] = "readCurrent"
  <2>1. i + 1 < current.index
    <3>1. /\ ~(i = current.index \/ IsAhead(i, current.index))
          /\ WrappingSub(current.index, i) # 1
      BY <1>2, <1>6 DEF Load, TypeOK
    <3> QED
      BY <1>1, <3>1
  <2>2. t \notin Handovers' /\ Phase(t)' = "applied"
    BY <1>6 DEF Handovers, Rolling, Merging, Phase
  <2>3. Carried' = Carried
    BY <1>2, <1>3, <2>2, CarriedFixed
  <2>4. Atomic!TooLate(i)
    BY <1>2, <2>1, <2>3 DEF Atomic!TooLate
  <2> QED
    BY <1>2, <2>2, <2>4, ApplyForm
<1> QED
  BY <1>4, <1>5, <1>6 DEF Load, TypeOK

\* A failed exchange of current, and of previous, is a stutter; so is the
\* first load of estimate.
LEMMA RetryRefines == ASSUME TypeOK, SlotsOrdered, NEW t \in Threads,
                             ExchangeFail(t) \/ MergeExchangeFail(t) \/ ReadCurrent(t)
                      PROVE  UNCHANGED Atomic!vars
<1>1. OthersStill(t)
  BY StepsAlone DEF Step
<1>2. /\ arg' = arg /\ current' = current /\ previous' = previous /\ carry' = carry
      /\ Phase(t)' = Phase(t)
  BY DEF ExchangeFail, MergeExchangeFail, ReadCurrent, Phase, Rolling, Merging, MyBucket, TypeOK
<1>3. Handovers' = Handovers
  BY <1>1, <1>2 DEF ExchangeFail, MergeExchangeFail, ReadCurrent, Handovers, Rolling, Merging,
     MyBucket, Adjacent, TypeOK
<1>4. Carried' = Carried
  BY <1>2, <1>3, InPreviousFixed DEF Carried, InFlight, Clamp
<1> QED
  BY <1>1, <1>2, <1>4, StutterForm

\* The second load of estimate is the abstract return.
LEMMA ReturnRefines == ASSUME TypeOK, SlotsOrdered, NEW t \in Threads, ReadPrevious(t)
                       PROVE  Atomic!Return(t)
<1>1. OthersStill(t)
  BY StepsAlone DEF Step
<1>2. /\ pc[t] = "readPrevious" /\ pc'[t] = "idle"
      /\ arg' = [arg EXCEPT ![t] = NoCall]
      /\ UNCHANGED <<current, previous, carry>>
  BY DEF ReadPrevious, TypeOK
<1>3. Carried' = Carried
  BY <1>1, <1>2, CarriedFixed DEF Handovers, Rolling, Merging
<1>4. Phases[t] = "applied" /\ Phases' = [Phases EXCEPT ![t] = "idle"]
  BY <1>1, <1>2, PhaseAlone DEF Phases, Phase, Rolling, Merging
<1>5. Calls' = [Calls EXCEPT ![t] = Atomic!NoCall]
  BY <1>2, BucketLow DEF Calls, MyBucket, NoCall, Atomic!NoCall, TypeOK
<1> QED
  BY <1>2, <1>3, <1>4, <1>5 DEF Atomic!Return

\* The exchange of current applies the add: in the newest bucket, or by
\* moving to a later one, whose predecessor's count is now in flight.
LEMMA ExchangeRefines == ASSUME TypeOK, SlotsOrdered, NEW t \in Threads, ExchangeOk(t)
                         PROVE  Atomic!Apply(t)
<1> DEFINE i == MyBucket(t)
           a == arg[t].amount
<1>1. /\ pc[t] = "exchange" /\ arg' = arg /\ previous' = previous
      /\ OthersStill(t)
      /\ Phase(t) = "called"
  BY StepsAlone DEF ExchangeOk, Step, Phase
<1>2. /\ i \in 0 .. HalfIndex - 3 /\ current.index \in 0 .. HalfIndex - 3
      /\ current.index <= i
  BY CallType, SlotIndices DEF ExchangeOk, SlotsOrdered, LoadedBehind
<1>3. t \notin Handovers
  BY <1>1 DEF Handovers, Rolling, Merging
<1>4. current.count \in Counts /\ current.count \in Nat /\ a \in Nat
  BY SlotIndices, CallType, ConstantsOK DEF Counts
<1>5. CASE i = current.index
  <2>1. /\ pc'[t] = "readCurrent"
        /\ current' = Slots(i, Clamp(current.count + a))
    BY <1>5 DEF ExchangeOk, TypeOK
  <2>2. current'.index = current.index /\ current'.count = Clamp(current.count + a)
    BY <1>5, <2>1 DEF Slots
  <2>3. t \notin Handovers' /\ Phase(t)' = "applied"
    BY <2>1 DEF Handovers, Rolling, Merging, Phase
  <2>4. Carried' = Carried
    BY <1>1, <1>3, <2>2, <2>3, CarriedFixed
  <2>5. Atomic!Count(i, a)
    BY <1>5, <2>2, <2>4 DEF Atomic!Count, Atomic!Clamp, Clamp
  <2> QED
    BY <1>1, <2>3, <2>5, ApplyForm
<1>6. CASE i # current.index
  <2>1. i > current.index /\ i > 0
    BY <1>2, <1>6
  <2>2. /\ pc'[t] = "mergeLoad"
        /\ current' = Slots(i, Clamp(a))
        /\ carry'[t] = CarryOver(current, i)
    BY <1>6 DEF ExchangeOk, TypeOK
  <2>3. current'.index = i /\ current'.count = Clamp(a)
    BY <2>2 DEF Slots
  <2>4. /\ carry'[t].index = i - 1
        /\ carry'[t].count = IF i = current.index + 1 THEN current.count ELSE 0
    BY <1>2, <2>1, <2>2, SerialIsLess DEF CarryOver, Slots
  <2>5. MyBucket(t)' = i
    BY <1>1 DEF MyBucket
  <2>6. Rolling(t)' /\ Phase(t)' = "applied"
    BY <1>2, <2>2, <2>4, <2>5 DEF Rolling, Merging, Phase
  <2>7. t \in Handovers'
    BY <1>2, <2>3, <2>4, <2>6 DEF Handovers, Adjacent
  <2>8. ASSUME NEW u \in Handovers', u # t PROVE FALSE
    <3>1. u \in Threads /\ Rolling(u)' /\ Adjacent(carry[u])'
      BY <2>8 DEF Handovers
    <3>2. Merging(u) /\ carry'[u] = carry[u]
      BY <1>1, <2>8, <3>1 DEF OthersStill, Rolling, Merging
    <3>3. carry[u].index < current.index /\ carry[u].index \in Nat
      BY <3>1, <3>2, SlotIndices DEF SlotsOrdered, CarryBehind
    <3>4. carry[u].index + 1 = i
      BY <2>3, <3>1, <3>2 DEF Adjacent
    <3> QED
      BY <1>2, <2>1, <3>3, <3>4
  <2>9. Handovers' = {t}
    BY <2>7, <2>8
  <2>10. (CHOOSE u \in Handovers' : TRUE) = t
    BY <2>9, ChooseOnly
  <2>11. InFlight' = IF i = current.index + 1 THEN current.count ELSE 0
    BY <2>4, <2>9, <2>10 DEF InFlight
  <2>12. InPrevious' = 0
    <3>1. previous # Sentinel => previous.index < current.index /\ previous.index \in Nat
      BY SlotIndices DEF SlotsOrdered, PreviousBehind
    <3>2. previous # Sentinel => previous.index + 1 # i
      BY <1>2, <2>1, <3>1
    <3> QED
      BY <1>1, <2>3, <3>2 DEF InPrevious, Adjacent, Sentinel, Slots, IndexMod
  <2>13. Carried' = IF i = current.index + 1 THEN current.count ELSE 0
    BY <1>4, <2>11, <2>12, ConstantsOK DEF Carried, Clamp, Counts
  <2>14. Atomic!Advance(i, a)
    BY <2>1, <2>3, <2>13 DEF Atomic!Advance, Atomic!Clamp, Clamp
  <2> QED
    BY <1>1, <2>6, <2>14, ApplyForm
<1> QED
  BY <1>5, <1>6

\* Loading previous is a stutter; finding a late amount staler than previous
\* applies it without effect, and a staler bucket no longer matters.
LEMMA MergeLoadRefines == ASSUME TypeOK, SlotsOrdered, NEW t \in Threads, MergeLoad(t)
                          PROVE  Atomic!Apply(t) \/ UNCHANGED Atomic!vars
<1>1. /\ pc[t] = "mergeLoad" /\ arg' = arg /\ previous' = previous /\ current' = current
      /\ OthersStill(t)
      /\ MyBucket(t)' = MyBucket(t)
  BY StepsAlone DEF MergeLoad, Step, MyBucket
<1>2. CASE pc'[t] = "mergeExchange"
  <2>1. carry' = carry
    BY <1>2 DEF MergeLoad, TypeOK
  <2>2. Phase(t)' = Phase(t) /\ (Rolling(t)' <=> Rolling(t))
    BY <1>1, <1>2, <2>1 DEF Phase, Rolling, Merging
  <2>3. Handovers' = Handovers
    BY <1>1, <2>1, <2>2 DEF Handovers, Adjacent, OthersStill, Rolling, Merging, MyBucket
  <2>4. Carried' = Carried
    BY <1>1, <2>1, <2>3, InPreviousFixed DEF Carried, InFlight, Clamp
  <2> QED
    BY <1>1, <2>2, <2>4, StutterForm
<1>3. CASE pc'[t] = "readCurrent"
  <2>1. /\ carry[t].index # previous.index
        /\ ~IsAhead(carry[t].index, previous.index)
    BY <1>3 DEF MergeLoad, TypeOK
  <2>2. carry[t].index \in 0 .. HalfIndex - 3 /\ current.index \in 0 .. HalfIndex - 3
    BY <1>1, SlotIndices DEF Merging
  <2>3. previous # Sentinel
    BY <2>1, <2>2, SentinelOld
  <2>4. previous.index \in 0 .. HalfIndex - 3 /\ previous.index < current.index
    BY <2>3, SlotIndices DEF SlotsOrdered, PreviousBehind
  <2>5. carry[t].index < previous.index
    BY <2>1, <2>2, <2>4, SerialIsLess
  <2>6. carry[t].index + 1 < current.index
    BY <2>2, <2>4, <2>5
  <2>7. t \notin Handovers /\ t \notin Handovers' /\ Phase(t)' = "applied"
    BY <1>3, <2>2, <2>6 DEF Handovers, Adjacent, Rolling, Merging, Phase
  <2>8. Carried' = Carried
    BY <1>1, <2>7, CarriedFixed
  <2>9. CASE Rolling(t)
    BY <1>1, <2>7, <2>8, <2>9, StutterForm DEF Phase, Merging
  <2>10. CASE ~Rolling(t)
    <3>1. carry[t].index = MyBucket(t) /\ Phase(t) = "called"
      BY <1>1, <2>10 DEF Rolling, Merging, Phase
    <3>2. Atomic!TooLate(MyBucket(t))
      BY <1>1, <2>6, <2>8, <3>1 DEF Atomic!TooLate
    <3> QED
      BY <1>1, <2>7, <3>1, <3>2, ApplyForm
  <2> QED
    BY <2>9, <2>10
<1> QED
  BY <1>2, <1>3 DEF MergeLoad, TypeOK

\* What a merge into previous makes of the bucket before current.
LEMMA MergedCount == ASSUME TypeOK, SlotsOrdered, NEW t \in Threads, MergeExchangeOk(t)
                     PROVE  /\ previous' # Sentinel /\ previous'.index = carry[t].index
                            /\ Adjacent(carry[t]) =>
                                  InPrevious' = Clamp(InPrevious + carry[t].count)
                            /\ ~Adjacent(carry[t]) => InPrevious' = 0 /\ InPrevious = 0
<1>1. /\ Merging(t) /\ current' = current
      /\ previous' = Merged(previous, carry[t])
      /\ previous.index = carry[t].index \/ IsAhead(carry[t].index, previous.index)
  BY DEF MergeExchangeOk, Merging, SlotsOrdered, LoadedBehind
<1>2. /\ carry[t].index \in 0 .. HalfIndex - 3 /\ current.index \in 0 .. HalfIndex - 3
      /\ carry[t].index < current.index
      /\ carry[t].count \in Counts /\ previous.count \in Counts
      /\ carry[t].count \in Nat /\ previous.count \in Nat
  BY <1>1, SlotIndices, ConstantsOK DEF SlotsOrdered, CarryBehind, Counts
<1>3. previous'.index = carry[t].index
  BY <1>1 DEF Merged, Slots
<1>4. previous' # Sentinel
  BY <1>2, <1>3, SentinelOld
<1>5. previous # Sentinel => previous.index \in 0 .. HalfIndex - 3 /\ previous.index <= carry[t].index
  BY <1>1, <1>2, SlotIndices, SerialIsLess
<1>6. CASE Adjacent(carry[t])
  <2>1. InPrevious' = previous'.count
    BY <1>1, <1>3, <1>4, <1>6 DEF InPrevious, Adjacent, Sentinel, Slots, IndexMod
  <2>2. CASE carry[t].index = previous.index
    <3>1. previous'.count = Clamp(previous.count + carry[t].count)
      BY <1>1, <2>2 DEF Merged, Slots
    <3>2. previous # Sentinel
      BY <1>2, <2>2, SentinelOld
    <3>3. InPrevious = previous.count
      BY <1>6, <2>2, <3>2 DEF InPrevious, Adjacent
    <3> QED
      BY <1>6, <1>3, <1>4, <2>1, <3>1, <3>3
  <2>3. CASE carry[t].index # previous.index
    <3>1. previous'.count = carry[t].count
      BY <1>1, <2>3 DEF Merged
    <3>2. InPrevious = 0
      BY <1>2, <1>5, <1>6, <2>3 DEF InPrevious, Adjacent
    <3>3. Clamp(0 + carry[t].count) = carry[t].count
      BY <1>2, ClampFixed
    <3> QED
      BY <1>6, <1>3, <1>4, <2>1, <3>1, <3>2, <3>3
  <2> QED
    BY <2>2, <2>3
<1>7. CASE ~Adjacent(carry[t])
  <2>1. carry[t].index + 1 < current.index
    BY <1>2, <1>7 DEF Adjacent
  <2>2. InPrevious = 0
    BY <1>2, <1>5, <2>1 DEF InPrevious, Adjacent
  <2>3. InPrevious' = 0
    BY <1>1, <1>2, <1>3, <2>1 DEF InPrevious, Adjacent
  <2> QED
    BY <1>3, <1>4, <1>7, <2>2, <2>3
<1> QED
  BY <1>6, <1>7

\* The exchange of previous lands a carry that was already counted, or
\* applies a late amount.
LEMMA MergeRefines == ASSUME TypeOK, SlotsOrdered, NEW t \in Threads, MergeExchangeOk(t)
                      PROVE  Atomic!Apply(t) \/ UNCHANGED Atomic!vars
<1> DEFINE a == arg[t].amount
<1>1. /\ Merging(t) /\ pc'[t] = "readCurrent" /\ arg' = arg /\ current' = current
      /\ OthersStill(t)
      /\ Phase(t)' = "applied"
  BY StepsAlone DEF MergeExchangeOk, Step, Phase, Merging, TypeOK
<1>2. /\ a \in Nat /\ InPrevious \in Nat /\ InFlight \in Nat /\ carry[t].count \in Nat
      /\ carry[t].index \in Nat /\ current.index \in Nat
  BY <1>1, CallType, CarriedType, SlotIndices, ConstantsOK DEF Counts
<1>3. t \notin Handovers'
  BY <1>1 DEF Handovers, Rolling, Merging
<1>4. CASE t \in Handovers
  <2>1. Adjacent(carry[t]) /\ Rolling(t)
    BY <1>4 DEF Handovers
  <2>2. InPrevious' = Clamp(InPrevious + carry[t].count)
    BY <2>1, MergedCount
  <2>3. Handovers = {t} /\ InFlight = carry[t].count
    BY <1>4, HandoverUnique
  <2>4. Handovers' = {}
    BY <1>1, <1>3, <2>3 DEF Handovers, OthersStill, Rolling, Merging, MyBucket, Adjacent
  <2>5. InFlight' = 0
    BY <2>4 DEF InFlight
  <2>6. Carried' = Clamp(Clamp(InPrevious + carry[t].count) + 0)
    BY <2>2, <2>5 DEF Carried, Clamp
  <2>7. Clamp(Clamp(InPrevious + carry[t].count) + 0) = Clamp(InPrevious + carry[t].count)
    BY <1>2, ConstantsOK DEF Clamp
  <2>8. Carried' = Carried
    BY <2>3, <2>6, <2>7 DEF Carried
  <2> QED
    BY <1>1, <2>1, <2>8, StutterForm DEF Phase, Merging
<1>5. CASE t \notin Handovers
  <2>1. InFlight' = InFlight
    BY <1>1, <1>3, <1>5, InFlightFixed
  <2>2. CASE Rolling(t)
    <3>1. ~Adjacent(carry[t])
      BY <1>5, <2>2 DEF Handovers
    <3>2. Carried' = Carried
      BY <2>1, <3>1, MergedCount DEF Carried, Clamp
    <3> QED
      BY <1>1, <2>2, <3>2, StutterForm DEF Phase, Merging
  <2>3. CASE ~Rolling(t)
    <3>1. carry[t].index = MyBucket(t) /\ Phase(t) = "called" /\ carry[t].count = Clamp(a)
      BY <1>1, <2>3 DEF Rolling, Merging, Phase, SlotsOrdered, LateCarriesAmount
    <3>2. CASE Adjacent(carry[t])
      <4>1. InPrevious' = Clamp(InPrevious + Clamp(a))
        BY <3>1, <3>2, MergedCount
      <4>2. Carried' = Clamp(Clamp(InPrevious + Clamp(a)) + InFlight)
        BY <2>1, <4>1 DEF Carried, Clamp
      <4>3. Clamp(Clamp(InPrevious + Clamp(a)) + InFlight) = Clamp(Carried + a)
        BY <1>2, ConstantsOK DEF Carried, Clamp
      <4>4. Atomic!CountLate(MyBucket(t), a)
        BY <1>1, <3>1, <3>2, <4>2, <4>3 DEF Atomic!CountLate, Atomic!Clamp, Clamp, Adjacent
      <4> QED
        BY <1>1, <3>1, <4>4, ApplyForm
    <3>3. CASE ~Adjacent(carry[t])
      <4>1. Carried' = Carried
        BY <2>1, <3>3, MergedCount DEF Carried, Clamp
      <4>2. MyBucket(t) + 1 < current.index
        BY <1>1, <1>2, <3>1, <3>3 DEF Adjacent, SlotsOrdered, CarryBehind
      <4>3. Atomic!TooLate(MyBucket(t))
        BY <1>1, <4>1, <4>2 DEF Atomic!TooLate
      <4> QED
        BY <1>1, <3>1, <4>3, ApplyForm
    <3> QED
      BY <3>2, <3>3
  <2> QED
    BY <2>2, <2>3
<1> QED
  BY <1>4, <1>5

\* Every step of SlidingWindow is an abstract step or a stutter.
LEMMA NextRefines == TypeOK /\ SlotsOrdered /\ [Next]_vars => [Atomic!Next]_(Atomic!vars)
<1> SUFFICES ASSUME TypeOK, SlotsOrdered, [Next]_vars
             PROVE  Atomic!Next \/ UNCHANGED Atomic!vars
  OBVIOUS
<1>1. ASSUME NEW t \in Threads, NEW n \in Times, NEW a \in Amounts, CallAdd(t, n, a)
      PROVE  Atomic!Next
  BY <1>1, CallRefines DEF Atomic!Next
<1>2. ASSUME NEW t \in Threads, NEW n \in Times, CallEstimate(t, n)
      PROVE  Atomic!Next
  BY <1>2, CallRefines DEF Atomic!Next
<1>3. ASSUME NEW t \in Threads, Step(t)
      PROVE  Atomic!Next \/ UNCHANGED Atomic!vars
  <2>1. Atomic!Apply(t) \/ Atomic!Return(t) \/ UNCHANGED Atomic!vars
    BY <1>3, LoadRefines, ExchangeRefines, RetryRefines, MergeLoadRefines, MergeRefines,
       ReturnRefines DEF Step
  <2> QED
    BY <2>1 DEF Atomic!Next
<1>4. CASE UNCHANGED vars
  BY <1>4 DEF vars, Atomic!vars, Carried, InPrevious, InFlight, Handovers, Adjacent, Phases,
     Phase, Calls, Rolling, Merging, MyBucket, Clamp, Sentinel, Slots, IndexMod
<1> QED
  BY <1>1, <1>2, <1>3, <1>4 DEF Next

\* SlidingWindowCounter is linearizable: every add counts exactly once and at
\* one instant, in its own bucket or nowhere if it is more than one bucket
\* late, however loads, exchanges and merges interleave.
THEOREM CounterLinearizable == Spec => Linearizable
<1>1. Spec => []TypeOK /\ []SlotsOrdered
  BY TypeCorrect, SlotsStayOrdered, PTL
<1> QED
  BY InitRefines, NextRefines, <1>1, PTL DEF Spec, Linearizable, Atomic!Spec

=============================================================================
