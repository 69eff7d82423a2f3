----------------------------- MODULE MCEnforcer -----------------------------
EXTENDS Enforcer, TLC

CONSTANTS s1, s2, shell, search

MCEvent(est, total, tools) == [est |-> est, total |-> total, tools |-> tools]

\* An estimated chunk, an authoritative total that estimates may have reached
\* or not, and a permitted tool call with a blocked one behind it.
MCEvents == { MCEvent(2, NoTotal, <<>>),
              MCEvent(0, 3, <<>>),
              MCEvent(1, NoTotal, <<search, shell>>) }

\* One stream is longer than the other: what a stream may still send is the
\* only thing that tells them apart.
MCStreams == {s1, s2}
MCMaxEvents == (s1 :> 3) @@ (s2 :> 1)
=============================================================================
