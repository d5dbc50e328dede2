------------------------------ MODULE MCSdCard -------------------------------
EXTENDS SdCard
\* Block 2 taken for a byte address is block 1.
MCBlocks == {1, 2}
=============================================================================
