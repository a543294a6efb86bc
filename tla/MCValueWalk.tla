---------------------------- MODULE MCValueWalk ----------------------------
EXTENDS ValueWalk
=============================================================================
