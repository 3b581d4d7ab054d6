------------------------------- MODULE MCCond -------------------------------
EXTENDS UthreadCond
=============================================================================
