------------------------- MODULE SlidingWindowProps -------------------------
(***************************************************************************)
(* What SlidingWindowCounter guarantees: its invariant, and that it is a    *)
(* linearizable implementation of AtomicWindow.                             *)
(***************************************************************************)
EXTENDS SlidingWindow

\* The doc comment of is_ahead: the true distance between two indices that
\* are compared never approaches 2^31.  Stated for the indices that meet:
\* those of the callers, the initial 0 and the sentinel at -2.
ASSUME NoWrap == \A n \in Times : BucketOf(n) <= HalfIndex - 3

PCs == {"idle", "load", "exchange", "mergeLoad", "mergeExchange",
        "readCurrent", "readPrevious"}

\* Both slots hold a packed word and every thread is at an access of the code.
TypeOK == /\ current \in Slot
          /\ previous \in Slot
          /\ pc \in [Threads -> PCs]
          /\ arg \in [Threads -> [now : Times \cup {0}, amount : Amounts \cup {0}]]
          /\ word \in [Threads -> Slot]
          /\ carry \in [Threads -> Slot]

Merging(t) == pc[t] \in {"mergeLoad", "mergeExchange"}

\* t moved current forward and has not merged its carry yet.  A caller that
\* merges because it is late carries its own bucket.
Rolling(t) == Merging(t) /\ carry[t].index # MyBucket(t)

\* previous is behind current: the sentinel or an older bucket.
PreviousBehind == \/ previous = Sentinel
                  \/ previous.index < current.index

\* So is every carry on its way to previous.
CarryBehind == \A t \in Threads : Merging(t) => carry[t].index < current.index

\* A late caller carries its own amount.
LateCarriesAmount ==
    \A t \in Threads : Merging(t) /\ ~Rolling(t) => carry[t].count = Clamp(arg[t].amount)

\* A bucket is handed over to previous once.
OneHandover == \A t, u \in Threads :
    Rolling(t) /\ Rolling(u) /\ carry[t].index = carry[u].index => t = u

\* No caller acts on a word that was never in the slot: what a thread is
\* about to exchange is a word it may move forward from.
LoadedBehind ==
    /\ current.index <= HalfIndex - 3
    /\ \A t \in Threads :
          /\ pc[t] = "exchange" => word[t].index <= MyBucket(t)
          /\ pc[t] = "mergeExchange" =>
                word[t].index = carry[t].index \/ IsAhead(carry[t].index, word[t].index)

\* The two slots and the carries in flight never mix buckets: previous and
\* every carry lie behind current, and each finished bucket is on its way to
\* previous at most once, so nothing is counted twice or in a later bucket.
SlotsOrdered == /\ PreviousBehind
                /\ CarryBehind
                /\ LateCarriesAmount
                /\ OneHandover
                /\ LoadedBehind

-----------------------------------------------------------------------------
(* The refinement.                                                           *)

Adjacent(s) == s.index + 1 = current.index

\* The count of the bucket before current: what previous has of it, and what
\* the thread that ended it is still carrying there.
InPrevious == IF previous # Sentinel /\ Adjacent(previous) THEN previous.count ELSE 0

\* The threads carrying the count of the bucket before current: at most one.
Handovers == { t \in Threads : Rolling(t) /\ Adjacent(carry[t]) }

InFlight == IF Handovers = {} THEN 0 ELSE carry[CHOOSE t \in Handovers : TRUE].count

Carried == Clamp(InPrevious + InFlight)

\* A call has taken effect once current has been exchanged for it, once its
\* late amount is merged, or once it is known to be too late.
Phase(t) == IF pc[t] = "idle" THEN "idle"
            ELSE IF pc[t] \in {"load", "exchange"} \/ (Merging(t) /\ ~Rolling(t))
                 THEN "called" ELSE "applied"

Phases == [t \in Threads |-> Phase(t)]

Calls == [t \in Threads |-> [bucket |-> MyBucket(t), amount |-> arg[t].amount]]

Atomic == INSTANCE AtomicWindow
            WITH Buckets <- { BucketOf(n) : n \in Times },
                 index   <- current.index,
                 used    <- current.count,
                 carried <- Carried,
                 phase   <- Phases,
                 call    <- Calls

\* sliding_window.rs:33-37: "concurrent contributions from any direction
\* compose correctly instead of one clobbering another".  Every add takes
\* effect exactly once, at one instant between its call and its return.
Linearizable == Atomic!Spec

Adding(t) == pc[t] \notin {"idle", "readCurrent", "readPrevious"}

\* add is lock-free: while some call is in its compare-exchange loops, one
\* of those calls eventually leaves them, whatever the others do.
LockFree == (\E t \in Threads : Adding(t))
               ~> (\E t \in Threads : pc[t] = "readCurrent" /\ arg[t].amount > 0)
=============================================================================
