------------------------------ MODULE MCShared -------------------------------
EXTENDS Shared
=============================================================================
