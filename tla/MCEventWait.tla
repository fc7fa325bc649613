---------------------------- MODULE MCEventWait ----------------------------
EXTENDS EventWait

\* Event 0 is a software or input event, event 1 is used as an interrupt.
MC_EvtMasks == {{}, {0}, {1}, {0, 1}}
MC_IrqMasks == {{}, {1}, {0, 1}}
=============================================================================
