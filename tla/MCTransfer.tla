----------------------------- MODULE MCTransfer -----------------------------
EXTENDS TransferInvariant

\* Chunks of the file that is copied; NULL and they are model values.
CONSTANTS c1, c2, c3, c4

MCFile4 == <<c1, c2, c3, c4>>
=============================================================================
