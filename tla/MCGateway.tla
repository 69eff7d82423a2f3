------------------------------ MODULE MCGateway ------------------------------
EXTENDS Gateway, TLC

CONSTANTS r1, r2, gpt, shell

MCRequests == {r1, r2}

\* A lenient configuration, and a strict one with a lower limit.
MCConfigs == { [max |-> 3, models |-> {}, tools |-> {}],
               [max |-> 2, models |-> {gpt}, tools |-> {shell}] }

MCSymmetry == Permutations(Requests)
=============================================================================
