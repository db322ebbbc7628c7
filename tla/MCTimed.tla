------------------------------ MODULE MCTimed ------------------------------
EXTENDS TimedTransfer

\* Chunks of the file that is copied; NULL and they are model values.
CONSTANTS c1, c2, c3

MCFile3 == <<c1, c2, c3>>
=============================================================================
