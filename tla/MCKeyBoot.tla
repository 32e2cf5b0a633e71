----------------------------- MODULE MCKeyBoot -----------------------------
EXTENDS KeyBoot

\* Two embedders of different dimensions, each of which may be deployed with
\* its own FPM_ID_EMBED_DIM or with the other's.
MCDim == [m \in Models |-> IF m = "wide" THEN 2 ELSE 1]
=============================================================================
