------------------------------ MODULE MCQueue ------------------------------
EXTENDS UthreadQueue
=============================================================================
