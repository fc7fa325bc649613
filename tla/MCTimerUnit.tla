---------------------------- MODULE MCTimerUnit -----------------------------
EXTENDS TimerUnit

On == [Off EXCEPT !.enabled = TRUE, !.irq_enabled = TRUE]

\* Counter 0 clears itself, alone or in cascade, is prescaled, or runs with
\* the reference clock, which its prescaler divides or the cascade counts;
\* counter 1 runs freely or once.
MCConfigs ==
    [c \in Counter |->
        IF c = 0 THEN {Off, [On EXCEPT !.cmp_clr = TRUE],
                       [On EXCEPT !.casc = TRUE, !.cmp_clr = TRUE],
                       [On EXCEPT !.prescaler = TRUE, !.prescaler_value = 1,
                                  !.reset = TRUE],
                       [On EXCEPT !.ref_clock = TRUE, !.prescaler = TRUE,
                                  !.prescaler_value = 2],
                       [On EXCEPT !.ref_clock = TRUE, !.casc = TRUE]}
                 ELSE {Off, On, [On EXCEPT !.one_shot = TRUE]}]
=============================================================================
