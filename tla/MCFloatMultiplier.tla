-------------------------- MODULE MCFloatMultiplier --------------------------
EXTENDS FloatMultiplier
=============================================================================
