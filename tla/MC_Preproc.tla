----------------------------- MODULE MC_Preproc -----------------------------
EXTENDS Preproc

\* A condition that is false, one that is true, and the value set_level takes
\* for "leave the level alone".
MCCondValues == {-1, 0, 1}
=============================================================================
