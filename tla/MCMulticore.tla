---------------------------- MODULE MCMulticore ----------------------------
EXTENDS Multicore
=============================================================================
