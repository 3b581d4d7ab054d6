------------------------------ MODULE MCAlloc ------------------------------
EXTENDS UthreadAlloc
=============================================================================
