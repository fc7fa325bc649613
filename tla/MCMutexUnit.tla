---------------------------- MODULE MCMutexUnit ----------------------------
EXTENDS MutexUnit

MC_EvtMask == {0}
=============================================================================
