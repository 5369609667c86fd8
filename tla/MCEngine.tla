------------------------------- MODULE MCEngine -------------------------------
EXTENDS EngineClaims
=============================================================================
