---------------------------- MODULE AtomicWindow ----------------------------
(***************************************************************************)
(* What SlidingWindowCounter promises its callers: an atomic counter over   *)
(* two adjacent buckets of time.  An add is called with the bucket of the   *)
(* caller's clock and an amount, takes effect at one instant between its    *)
(* call and its return, and                                                 *)
(*   - counts into the newest bucket when it belongs there,                 *)
(*   - moves the counter forward when it is ahead, the old newest bucket    *)
(*     becoming the carried one if it is adjacent,                          *)
(*   - counts into the carried bucket when it is exactly one behind,        *)
(*   - has no effect when it is older than that.                            *)
(* There are no packed words, loads or compare-exchanges here; they are in  *)
(* SlidingWindow, which implements this specification.                      *)
(***************************************************************************)
EXTENDS Naturals

CONSTANTS Threads,    \* the concurrent callers
          Buckets,    \* bucket numbers a caller's clock may give
          Amounts,    \* token amounts passed to add
          CountMax    \* u32::MAX, where a count saturates

VARIABLES index,      \* the newest bucket any add has reached
          used,       \* the amount counted in it
          carried,    \* the amount counted in bucket index - 1
          phase,      \* phase[t]: "idle", "called" or "applied"
          call        \* call[t]: the bucket and amount of t's call

vars == <<index, used, carried, phase, call>>

NoCall == [bucket |-> 0, amount |-> 0]

Clamp(n) == IF n > CountMax THEN CountMax ELSE n

Init == /\ index = 0
        /\ used = 0
        /\ carried = 0
        /\ phase = [t \in Threads |-> "idle"]
        /\ call = [t \in Threads |-> NoCall]

\* A caller enters add.
CallAdd(t, b, a) == /\ phase[t] = "idle"
                    /\ phase' = [phase EXCEPT ![t] = "called"]
                    /\ call' = [call EXCEPT ![t] = [bucket |-> b, amount |-> a]]
                    /\ UNCHANGED <<index, used, carried>>

\* A caller enters estimate: it has nothing to apply.
CallEstimate(t, b) == /\ phase[t] = "idle"
                      /\ phase' = [phase EXCEPT ![t] = "applied"]
                      /\ call' = [call EXCEPT ![t] = [bucket |-> b, amount |-> 0]]
                      /\ UNCHANGED <<index, used, carried>>

Count(b, a) == /\ b = index
               /\ used' = Clamp(used + a)
               /\ UNCHANGED <<index, carried>>

Advance(b, a) == /\ b > index
                 /\ index' = b
                 /\ used' = Clamp(a)
                 /\ carried' = IF b = index + 1 THEN used ELSE 0

CountLate(b, a) == /\ b + 1 = index
                   /\ carried' = Clamp(carried + a)
                   /\ UNCHANGED <<index, used>>

TooLate(b) == /\ b + 1 < index
              /\ UNCHANGED <<index, used, carried>>

\* The instant at which t's add takes effect.
Apply(t) == /\ phase[t] = "called"
            /\ phase' = [phase EXCEPT ![t] = "applied"]
            /\ UNCHANGED call
            /\ LET b == call[t].bucket
                   a == call[t].amount
               IN  Count(b, a) \/ Advance(b, a) \/ CountLate(b, a) \/ TooLate(b)

Return(t) == /\ phase[t] = "applied"
             /\ phase' = [phase EXCEPT ![t] = "idle"]
             /\ call' = [call EXCEPT ![t] = NoCall]
             /\ UNCHANGED <<index, used, carried>>

Next == \E t \in Threads :
           \/ \E b \in Buckets, a \in Amounts : CallAdd(t, b, a)
           \/ \E b \in Buckets : CallEstimate(t, b)
           \/ Apply(t)
           \/ Return(t)

Spec == Init /\ [][Next]_vars
=============================================================================
