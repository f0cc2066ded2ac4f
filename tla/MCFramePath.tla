----------------------------- MODULE MCFramePath -----------------------------
\* One connection sends three pieces, the other two.
EXTENDS FramePath, TLC

CONSTANTS a, b

MCQuota == (a :> 3) @@ (b :> 2)
==============================================================================
