------------------------------ MODULE MCSched ------------------------------
EXTENDS UthreadSched
=============================================================================
