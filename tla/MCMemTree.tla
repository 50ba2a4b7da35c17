----------------------------- MODULE MCMemTree -------------------------------
EXTENDS MemTree
=============================================================================
