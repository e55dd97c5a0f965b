--------------------------- MODULE MCComputeNode ---------------------------
EXTENDS ComputeNode
=============================================================================
