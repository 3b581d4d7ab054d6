----------------------------- MODULE MCPreempt -----------------------------
EXTENDS UthreadPreempt
=============================================================================
