------------------------------ MODULE EventCost ------------------------------
(***************************************************************************)
(* The accounting of process_event (src/enforcer.rs): what one SSE event,    *)
(* of which the provider's adapter has told the cost, does to                *)
(* recorded_so_far and tools_seen, and what it charges to the tenant.        *)
(***************************************************************************)
EXTENDS Naturals, Sequences

CONSTANTS NoTotal,    \* authoritative_total of an event without usage
          Tools,      \* names of tools
          Blocked     \* the tenant's blocked_tools, captured at admission

ASSUME CostOK == /\ NoTotal \notin Nat
                 /\ Blocked \subseteq Tools

\* e is a ChunkCost.
IsCost(e) == /\ e.est \in Nat
             /\ e.total \in Nat \cup {NoTotal}
             /\ e.tools \in Seq(Tools)

ToolsOf(e) == { e.tools[i] : i \in DOMAIN e.tools }

\* Mutant: a tool is noted after the check that returns at a blocked one.
ToolsPassed(e) ==
    { e.tools[i] : i \in { j \in DOMAIN e.tools :
                              \A k \in DOMAIN e.tools : k <= j => e.tools[k] \notin Blocked } }

\* The tools the loop has seen when it ends, or returns at a blocked one.
ToolsScanned(e) ==
    { e.tools[i] : i \in { j \in DOMAIN e.tools :
                              \A k \in DOMAIN e.tools : k < j => e.tools[k] \notin Blocked } }

\* What recorded_so_far becomes, and what is charged: an authoritative total
\* replaces the estimates and charges what they left out.
NewRecorded(e, r) == IF e.total = NoTotal THEN r + e.est ELSE e.total

\* Mutant: an authoritative total is charged on top of the estimates.
DeltaInFull(e, r) == IF e.total = NoTotal THEN e.est ELSE e.total

\* Mutant: the subtraction after recorded_so_far was overwritten.
DeltaAfterUpdate(e, r) == IF e.total = NoTotal THEN e.est ELSE 0

Delta(e, r) == IF e.total = NoTotal THEN e.est
               ELSE IF e.total > r THEN e.total - r ELSE 0
==============================================================================
