------------------------------- MODULE MCMtx -------------------------------
EXTENDS UthreadMtx
=============================================================================
