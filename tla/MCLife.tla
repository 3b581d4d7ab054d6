------------------------------- MODULE MCLife -------------------------------
EXTENDS UthreadLife, TLC

CONSTANTS u, v \* the uthreads that the first one creates

Interchangeable == Permutations({u, v})
=============================================================================
