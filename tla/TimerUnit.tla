----------------------------- MODULE TimerUnit ------------------------------
(***************************************************************************)
(* The timer of PULP chips (models/ips/pulp/timer/timer_v2.cpp): two       *)
(* counters, or one of twice the width, that are not counted every cycle.  *)
(* Each access first adds the cycles since the last one (sync), and one    *)
(* clock event, shared by the counters, is to fire when the next of them   *)
(* reaches its compare value.                                              *)
(*                                                                         *)
(* The state of the C++ object is one record, transformed by the functions *)
(* of the same names; absolute times are the distances to them.            *)
(***************************************************************************)
EXTENDS Integers

CONSTANTS M,                \* 2^32 in the code: a register holds 0 .. M-1
          Configs,          \* configurations software writes, per counter
          MaxElapsed,       \* bound: cycles between two synchronisations
          MaxWrites         \* bound: register writes after a reset

Counter == 0 .. 1
Reg == 0 .. M - 1

\* The fields of a configuration register, in the names of the variables that
\* depack_config sets; the register of counter 1 has no CASC.
Config == [enabled : BOOLEAN, reset : BOOLEAN, irq_enabled : BOOLEAN,
           cmp_clr : BOOLEAN, one_shot : BOOLEAN, prescaler : BOOLEAN,
           ref_clock : BOOLEAN, prescaler_value : Nat, casc : BOOLEAN]

ASSUME TimerAssumption ==
    /\ M \in Nat \ {0, 1}
    /\ Configs \in [Counter -> SUBSET Config]
    /\ MaxElapsed \in Nat /\ MaxWrites \in Nat

VARIABLES timer,
          ideal,            \* history: the counters, counted every cycle
          writes            \* counts towards MaxWrites

vars == <<timer, ideal, writes>>

NoEvent == -1

Off == [enabled |-> FALSE, reset |-> FALSE, irq_enabled |-> FALSE,
        cmp_clr |-> FALSE, one_shot |-> FALSE, prescaler |-> FALSE,
        ref_clock |-> FALSE, prescaler_value |-> 0, casc |-> FALSE]

TypeOK ==
    /\ timer \in [config : [Counter -> Config], is_64 : BOOLEAN,
                  value : [Counter -> Reg], compare : [Counter -> Reg],
                  prescaler_current : [Counter -> Nat],
                  irq_state : [Counter -> BOOLEAN],
                  elapsed : 0 .. MaxElapsed,    \* cycles since sync_time
                  due : Nat \cup {NoEvent}]     \* cycles to the clock event
    /\ ideal \in [Counter -> Reg]
    /\ writes \in 0 .. MaxWrites

Init ==
    /\ timer = [config |-> [c \in Counter |-> Off], is_64 |-> FALSE,
                value |-> [c \in Counter |-> 0],
                compare |-> [c \in Counter |-> 0],
                prescaler_current |-> [c \in Counter |-> 0],
                irq_state |-> [c \in Counter |-> FALSE],
                elapsed |-> 0, due |-> NoEvent]
    /\ ideal = [c \in Counter |-> 0]
    /\ writes = 0

-----------------------------------------------------------------------------
(***************************************************************************)
(* The functions of the timer.                                             *)
(***************************************************************************)
Wide(regs) == regs[1] * M + regs[0]
Halves(v) == [c \in Counter |-> IF c = 0 THEN v % M ELSE (v \div M) % M]

get_value(t, is_64, c) == IF is_64 THEN Wide(t.value) ELSE t.value[c]
get_compare_value(t, is_64, c) == IF is_64 THEN Wide(t.compare) ELSE t.compare[c]
set_value(t, is_64, c, v) ==
    IF is_64 THEN [t EXCEPT !.value = Halves(v)]
             ELSE [t EXCEPT !.value[c] = v % M]

\* The counter runs with the clock of the timer, not with the reference clock.
Clocked(t, c) == t.config[c].enabled /\ ~t.config[c].ref_clock
Divider(t, c) ==
    IF t.config[c].prescaler THEN t.config[c].prescaler_value + 1 ELSE 1

\* The two counters run as one.
Cascaded(t) == t.is_64 /\ Clocked(t, 0)

\* What sync() makes of the counters after that many cycles.  The division
\* drops its remainder; one counter sees the cycles modulo its width.
advanced(t, cycles) ==
    IF Cascaded(t)
    THEN Halves(Wide(t.value) + cycles \div Divider(t, 0))
    ELSE [c \in Counter |->
            IF Clocked(t, c)
            THEN (t.value[c] + (cycles % M) \div Divider(t, c)) % M
            ELSE t.value[c]]

sync(t) == [t EXCEPT !.value = advanced(t, t.elapsed), !.elapsed = 0]

\* Cycles to the compare value: a whole turn for one counter that stands on
\* it; not positive for the cascade when it has passed it.
get_remaining_cycles(t, is_64, c) ==
    LET d == (t.compare[c] - t.value[c]) % M
    IN  Divider(t, c) * (IF is_64 THEN Wide(t.compare) - Wide(t.value)
                         ELSE IF d = 0 THEN M ELSE d)

\* Faulty: the last request of the event counts, not the earliest.
enqueue_last(t, cycles) == [t EXCEPT !.due = cycles]

\* ClockEvent::enqueue: an event that is waiting already can only come earlier.
enqueue(t, cycles) ==
    IF t.due = NoEvent \/ cycles < t.due THEN [t EXCEPT !.due = cycles] ELSE t

\* The counter stands on its compare value.
matched(t, is_64, c) ==
    LET cfg == t.config[c]
        u == IF cfg.cmp_clr THEN set_value(t, is_64, c, 0) ELSE t
    IN  [u EXCEPT !.irq_state[c] = cfg.irq_enabled,
                  !.config[c].enabled = ~cfg.one_shot]

\* The clock event is only needed by a counter that does something on a match.
Armed(t, c) ==
    Clocked(t, c) /\ (t.config[c].irq_enabled \/ t.config[c].cmp_clr)

check_state_counter(t, is_64, c) ==
    LET u == IF /\ t.config[c].enabled
                /\ get_compare_value(t, is_64, c) = get_value(t, is_64, c)
             THEN matched(t, is_64, c)
             ELSE [t EXCEPT !.irq_state[c] = FALSE]
        cycles == get_remaining_cycles(u, is_64, c)
    IN  IF Armed(u, c) /\ cycles > 0 THEN enqueue(u, cycles) ELSE u

\* Faulty: only the counter that is accessed first is looked at.
check_state_first(t) == check_state_counter(t, t.is_64, 0)

check_state(t) ==
    IF t.is_64
    THEN check_state_counter(t, TRUE, 0)
    ELSE check_state_counter(check_state_counter(t, FALSE, 0), FALSE, 1)

\* check_prescaler(), on an edge of the reference clock: the divider counts
\* the edges, and says whether the counter sees this one.
Passes(t, c) ==
    t.config[c].prescaler =>
        (t.prescaler_current[c] + 1) % M = t.config[c].prescaler_value
check_prescaler(t, c) ==
    IF ~t.config[c].prescaler THEN t
    ELSE [t EXCEPT !.prescaler_current[c] = IF Passes(t, c) THEN 0
                                            ELSE (@ + 1) % M]

\* The counter is driven by the reference clock; counter 1 is not in cascade.
Edged(t, c) ==
    /\ t.config[c].enabled /\ t.config[c].ref_clock
    /\ c = 0 \/ ~t.is_64

\* The edge as one counter sees it.
edge(t, c) ==
    LET u == check_prescaler(t, c)
    IN  IF ~Edged(t, c) THEN t
        ELSE IF Passes(t, c)
             THEN set_value(u, t.is_64, c, get_value(u, t.is_64, c) + 1)
             ELSE u

depack_config(t, c, cfg) ==
    [t EXCEPT !.config[c] = cfg,
              !.prescaler_current[c] = 0,
              !.is_64 = IF c = 0 THEN cfg.casc ELSE @]

timer_reset(t, c) == [t EXCEPT !.value[c] = 0]

-----------------------------------------------------------------------------
(***************************************************************************)
(* Steps.  Time passes only when the clock event is not due.  What is done *)
(* to the timer is done to an exact timer too, whose counters are the ones *)
(* that were counted every cycle: the history is what it makes of them.    *)
(***************************************************************************)
\* A prescaled counter is not compared with its history, and hands its value
\* over when it is reconfigured.
Prescaled(t, c) == Divider(t, IF Cascaded(t) THEN 0 ELSE c) # 1

Exact == [timer EXCEPT
            !.value = [c \in Counter |-> IF Prescaled(timer, c)
                                         THEN sync(timer).value[c] ELSE ideal[c]],
            !.elapsed = 0]

\* What ends with check_state(), after it has made t of the timer and x of the
\* exact one.  (The singletons make TLC evaluate their elements once.)
Checked(t, x) ==
    \E u \in {t}, y \in {x} :
        timer' = check_state(u) /\ ideal' = check_state(y).value

Tick ==
    /\ timer.due # 0 /\ timer.elapsed < MaxElapsed
    /\ Cascaded(timer) => Wide(timer.value) + timer.elapsed + 1 < M * M
    /\ timer' = [timer EXCEPT !.elapsed = @ + 1,
                              !.due = IF @ = NoEvent THEN @ ELSE @ - 1]
    /\ ideal' = IF Cascaded(timer) THEN Halves(Wide(ideal) + 1)
                ELSE [c \in Counter |-> IF Clocked(timer, c)
                                        THEN (ideal[c] + 1) % M ELSE ideal[c]]
    /\ UNCHANGED writes

fired(t) == sync([t EXCEPT !.due = NoEvent])

event_handler ==
    /\ timer.due = 0
    /\ \E x \in {Exact} : Checked(fired(timer), fired(x))
    /\ UNCHANGED writes

\* A rising edge of the reference clock, and one that no counter sees.
ref_clock_sync ==
    LET seen == \E c \in Counter : Edged(timer, c) /\ Passes(timer, c)
        edges(t) == edge(edge(t, 0), 1)
    IN  /\ \/ seen /\ \E x \in {Exact} : Checked(sync(edges(timer)), sync(edges(x)))
           \/ ~seen /\ timer' = edges(timer) /\ UNCHANGED ideal
        /\ UNCHANGED writes

\* A read of any register.
Read ==
    /\ timer' = sync(timer) /\ ideal' = sync(Exact).value
    /\ UNCHANGED writes

\* Faulty: the configuration changes before the counters are up to date.
cfg_unsynced(t, c, cfg) ==
    LET u == depack_config(t, c, cfg)
    IN  IF cfg.reset THEN timer_reset(u, c) ELSE u

\* What the writes of the registers do before they look at the state; that of a
\* configuration register includes handle_configure().
cfg_req(t, c, cfg) ==
    LET u == depack_config(sync(t), c, cfg)
    IN  IF cfg.reset THEN timer_reset(u, c) ELSE u

cnt_req(t, c, v) == [sync(t) EXCEPT !.value[c] = v]
cmp_req(t, c, v) == [sync(t) EXCEPT !.compare[c] = v]
reset_req(t, c) == timer_reset(sync(t), c)
start_req(t, c) == [sync(t) EXCEPT !.config[c].enabled = TRUE]

Write(c) ==
    /\ writes < MaxWrites
    /\ writes' = writes + 1
    /\ \E x \in {Exact} :
        \/ \E cfg \in Configs[c] : Checked(cfg_req(timer, c, cfg), cfg_req(x, c, cfg))
        \/ \E v \in Reg : \/ Checked(cnt_req(timer, c, v), cnt_req(x, c, v))
                          \/ Checked(cmp_req(timer, c, v), cmp_req(x, c, v))
        \/ Checked(reset_req(timer, c), reset_req(x, c))
        \/ Checked(start_req(timer, c), start_req(x, c))

\* A reset of the chip clears the registers; an event that waits is kept.
Reset ==
    /\ timer' = [timer EXCEPT !.config = [c \in Counter |-> Off],
                              !.is_64 = FALSE,
                              !.value = [c \in Counter |-> 0],
                              !.compare = [c \in Counter |-> 0],
                              !.prescaler_current = [c \in Counter |-> 0],
                              !.irq_state = [c \in Counter |-> FALSE],
                              !.elapsed = 0]
    /\ ideal' = [c \in Counter |-> 0]
    /\ writes' = 0

Next ==
    \/ Tick \/ event_handler \/ ref_clock_sync \/ Read
    \/ \E c \in Counter : Write(c)
    \/ Reset

Spec == Init /\ [][Next]_vars /\ WF_vars(Tick) /\ WF_vars(event_handler)

-----------------------------------------------------------------------------
(***************************************************************************)
(* Properties.                                                             *)
(***************************************************************************)
\* Counting late is counting: whenever the counters are synchronised, and
\* whatever is reconfigured, set, cleared or matched between, a counter without
\* prescaler holds what one that is incremented every cycle would.
CountsEveryCycle ==
    \A c \in Counter : Prescaled(timer, c) \/
        advanced(timer, timer.elapsed)[c] = ideal[c]

\* The one clock event never comes too late for any counter: it is due no
\* later than the cycle in which the counter reaches its compare value, after
\* any sequence of writes and with events kept from earlier configurations.
ArmedInTime ==
    LET intime(is_64, c) ==
            Armed(timer, c) => timer.due \in
                0 .. get_remaining_cycles(timer, is_64, c) - timer.elapsed
    IN  IF timer.is_64
        THEN Wide(timer.compare) > Wide(timer.value) => intime(TRUE, 0)
        ELSE intime(FALSE, 0) /\ intime(FALSE, 1)

\* A running counter interrupts: once software has configured it, a counter with its
\* interrupt enabled that is not prescaled raises it again and again, or stops
\* because it is one-shot.
Runs(c) ==
    /\ Armed(timer, c) /\ timer.config[c].irq_enabled
    /\ ~timer.is_64 /\ Divider(timer, c) = 1
MatchRaisesIrq ==
    \A c \in Counter : Runs(c) ~> (timer.irq_state[c] \/ ~Runs(c))

\* PVAL divides the clock, "Ftimer = Fclk / (1 + PRESC_VAL)": looking at a
\* counter does not change the cycle of its next increment.
NextCount(t, c) == Divider(t, c) - (t.elapsed % Divider(t, c))
DividesClock ==
    [][Read => \A c \in Counter :
                Clocked(timer, c) => NextCount(timer', c) = NextCount(timer, c)]_vars
=============================================================================
