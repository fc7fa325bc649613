---------------------------- MODULE BarrierUnit ----------------------------
(***************************************************************************)
(* The hardware barriers of the event unit (barrier_unit.cpp) used by      *)
(* RI5KY cores that may be interrupted while they wait.                    *)
(*                                                                         *)
(* The software of each core is the sequence of barriers it goes through.  *)
(* It arrives at one with a trigger-and-wait read, with or without         *)
(* clearing, or in two steps: a trigger write, by itself or by another     *)
(* core for it, then an event-wait read.  After a read that does not clear *)
(* it clears the barrier event itself.  One core sets the masks up before. *)
(***************************************************************************)
EXTENDS ElwCore, Sequences, FiniteSetsExt

CONSTANTS Barrier,          \* barrier identifiers, 0 .. nb_barriers - 1
          barrier_event,    \* event number of the barriers
          irq_event,        \* an event used as an interrupt
          Plans             \* what the software may have been written to do

ASSUME BarrierAssumption ==
    /\ {barrier_event, irq_event} \subseteq Event
    /\ Elw \subseteq {"trigger_wait", "trigger_wait_clear", "wait_clear"}
    /\ \A p \in Plans :
          /\ p.team \in [Barrier -> SUBSET Core]
          /\ \A c \in Core :
                p.program[c] \in Seq({b \in Barrier : c \in p.team[b]})
          /\ p.irq \in BOOLEAN

VARIABLES plan,       \* the plan that is followed
          eu,         \* the core units
          cpu,        \* the cores
          barriers,   \* the barriers
          arrived,    \* number of arrivals a core has made
          passed,     \* number of barriers a core has gone through
          toclear     \* the core has a barrier event to clear

vars == <<plan, eu, cpu, barriers, arrived, passed, toclear>>

Team == plan.team           \* the cores of a barrier
Program == plan.program     \* the barriers each core goes through, in order
WithIrq == plan.irq         \* interrupts do arrive

\* The barriers and the cores the plan uses.
Used == {b \in Barrier : Team[b] # {}}
Busy == {c \in Core : Program[c] # <<>>}

BarrierState == [ core_mask : SUBSET Core, target_mask : SUBSET Core,
                  status : SUBSET Core ]

TypeOK ==
    /\ plan \in Plans
    /\ eu \in [Core -> Core_event_unit(SUBSET Event)]
    /\ cpu \in [Core -> ElwCoreState]
    /\ barriers \in [Barrier -> BarrierState]
    /\ \A c \in Core : /\ passed[c] \in 0 .. Len(Program[c])
                       /\ arrived[c] - passed[c] \in {0, 1}
    /\ toclear \in [Core -> BOOLEAN]

Barrier_reset == [ core_mask |-> {}, target_mask |-> {}, status |-> {} ]

Init ==
    /\ plan \in Plans
    /\ eu = [c \in Core |-> [Core_event_unit_reset EXCEPT
                                !.evt_mask = {barrier_event},
                                !.irq_mask = IF WithIrq THEN {irq_event} ELSE {}]]
    /\ cpu = [c \in Core |-> ElwCoreReset]
    /\ barriers = [b \in Barrier |-> Barrier_reset]
    /\ arrived = [c \in Core |-> 0]
    /\ passed = [c \in Core |-> 0]
    /\ toclear = [c \in Core |-> FALSE]

Becomes(E, P) ==
    /\ eu' = SettledUnits(E, P) /\ cpu' = SettledCores(E, P)
    /\ UNCHANGED plan

-----------------------------------------------------------------------------
(***************************************************************************)
(* check_barrier(): with every core of the mask arrived the barrier is     *)
(* released, its event reaching the target cores one cycle later.          *)
(***************************************************************************)
\* Faulty: one arrival is enough.
reached_by_one(x) == x.status \cap x.core_mask # {}

reached(x) == x.status = x.core_mask

CheckedBarrier(x) == IF reached(x) THEN [x EXCEPT !.status = {}] ELSE x

CheckedUnits(E, x) ==
    IF reached(x) THEN trigger_event(E, {barrier_event}, x.target_mask, 1) ELSE E

\* A register write that leaves barrier b as x, by core c.
BarrierWrite(c, b, x) ==
    /\ CanIssueOther(cpu[c], eu[c]) /\ ~cpu[c].handler
    /\ IF skips(eu[c])
       THEN /\ Becomes([eu EXCEPT ![c] = demux_enter(@)],
                       [cpu EXCEPT ![c] = issued(@)])
            /\ UNCHANGED barriers
       ELSE /\ barriers' = [barriers EXCEPT ![b] = CheckedBarrier(x)]
            /\ Becomes(CheckedUnits([eu EXCEPT ![c] = demux_enter(@)], x),
                       [cpu EXCEPT ![c] = issued(@)])

(***************************************************************************)
(* The set-up, the trigger mask first: a target mask written over an empty *)
(* trigger mask releases the barrier at once, 0 being equal to 0.          *)
(***************************************************************************)
SetUp(b) == barriers[b].core_mask = Team[b] /\ barriers[b].target_mask = Team[b]
Fresh == \A c \in Core : arrived[c] = 0

SetTriggerMask(c, b) ==
    /\ barriers[b].core_mask = {}
    /\ BarrierWrite(c, b, [barriers[b] EXCEPT !.core_mask = Team[b]])
    /\ UNCHANGED <<arrived, passed, toclear>>

SetTargetMask(c, b) ==
    /\ barriers[b].target_mask = {}
    /\ barriers[b].core_mask = Team[b]
    /\ BarrierWrite(c, b, [barriers[b] EXCEPT !.target_mask = Team[b]])
    /\ UNCHANGED <<arrived, passed, toclear>>

SetStatus(c, b) ==
    /\ SetUp(b) /\ Fresh
    /\ BarrierWrite(c, b, [barriers[b] EXCEPT !.status = {}])
    /\ UNCHANGED <<arrived, passed, toclear>>

(***************************************************************************)
(* Arrivals.                                                               *)
(***************************************************************************)
Done(c)  == passed[c] = Len(Program[c])
Ahead(c) == Program[c][passed[c] + 1]       \* the barrier core c comes to
Between(c) == ~Done(c) /\ arrived[c] = passed[c] /\ ~toclear[c]

\* Faulty: the bit of the core replaces the others.
with_core_only(x, c) == [x EXCEPT !.status = {c}]

with_core(x, c) == [x EXCEPT !.status = @ \cup {c}]

\* TRIGGER_SELF, and TRIGGER by core c for core d.
Trigger(c, d) ==
    /\ Between(d) /\ SetUp(Ahead(d))
    /\ BarrierWrite(c, Ahead(d), with_core(barriers[Ahead(d)], d))
    /\ arrived' = [arrived EXCEPT ![d] = @ + 1]
    /\ UNCHANGED <<passed, toclear>>

\* A core is through with its barrier.
Passes(c, insn) ==
    /\ passed' = [passed EXCEPT ![c] = @ + 1]
    /\ toclear' = [toclear EXCEPT ![c] = insn = "trigger_wait"]

\* In state SKIP_ELW a replayed read is answered at once, nothing else.
Skip(c, insn) ==
    /\ skips(eu[c])
    /\ CanIssueElw(cpu[c], eu[c], insn)
    /\ Becomes([eu EXCEPT ![c] = demux_enter(@)], [cpu EXCEPT ![c] = elw_done(@)])
    /\ Passes(c, insn)
    /\ UNCHANGED <<barriers, arrived>>

\* A core whose unit is in state WAITING_BARRIER resumes its wait.
resumes(e) == e.state = "WAITING_BARRIER"

\* Faulty: the test is inverted.
joined_inverted(x, e, c) == IF resumes(e) THEN with_core(x, c) ELSE x

joined(x, e, c) == IF resumes(e) THEN x ELSE with_core(x, c)

\* Faulty: the read does not clear.
armed_never(e, insn) == e

armed(e, insn) ==
    IF insn = "trigger_wait_clear" THEN [e EXCEPT !.clear_evt_mask = e.evt_mask]
    ELSE e

TriggerWait(c, insn) ==
    LET e == demux_enter(eu[c])
        b == Ahead(c)
        x == joined(barriers[b], e, c)
        E == CheckedUnits([eu EXCEPT ![c] = armed(e, insn)], x)
    IN  /\ cpu[c].replay \/ Between(c)
        /\ ~skips(eu[c])
        /\ CanIssueElw(cpu[c], eu[c], insn)
        /\ SetUp(b)
        /\ barriers' = [barriers EXCEPT ![b] = CheckedBarrier(x)]
        /\ Becomes([E EXCEPT ![c] = wait_event(@, "WAITING_BARRIER")],
                   [cpu EXCEPT ![c] = elw_parked(@, insn)])
        /\ arrived' = [arrived EXCEPT ![c] = passed[c] + 1]
        /\ UNCHANGED <<passed, toclear>>

\* The event-wait read that ends an arrival in two steps.
WaitClear(c) ==
    LET e == [demux_enter(eu[c]) EXCEPT !.pending_req_is_wait = TRUE,
                                        !.clear_evt_mask = eu[c].evt_mask]
    IN  /\ arrived[c] = passed[c] + 1
        /\ ~skips(eu[c])
        /\ CanIssueElw(cpu[c], eu[c], "wait_clear")
        /\ \/ /\ evt_masked(e) # {}
              /\ Becomes([eu EXCEPT ![c] = wait_event_sync(e)],
                         [cpu EXCEPT ![c] = elw_done(@)])
              /\ Passes(c, "wait_clear")
           \/ /\ evt_masked(e) = {}
              /\ Becomes([eu EXCEPT ![c] = put_to_sleep(e, "WAITING_EVENT")],
                         [cpu EXCEPT ![c] = elw_parked(@, "wait_clear")])
              /\ UNCHANGED <<passed, toclear>>
        /\ UNCHANGED <<barriers, arrived>>

\* The software clears the event a trigger_wait has left in the buffer.
ClearEvent(c) ==
    LET e == demux_enter(eu[c])
    IN  /\ toclear[c] /\ CanIssueOther(cpu[c], eu[c]) /\ ~cpu[c].handler
        /\ Becomes([eu EXCEPT ![c] = check_state(clear_status(e, {barrier_event}))],
                   [cpu EXCEPT ![c] = issued(@)])
        /\ toclear' = [toclear EXCEPT ![c] = FALSE]
        /\ UNCHANGED <<barriers, arrived, passed>>

-----------------------------------------------------------------------------
(***************************************************************************)
(* Interrupts and clock events.                                            *)
(***************************************************************************)
InEvent(c) ==
    /\ WithIrq
    /\ Becomes([eu EXCEPT ![c] = send_event(@, {irq_event}, 0)], cpu)
    /\ UNCHANGED <<barriers, arrived, passed, toclear>>

TakeIrq(c) ==
    /\ TakesIrq(cpu[c], eu[c])
    /\ Becomes([eu EXCEPT ![c] = acknowledged(@)], [cpu EXCEPT ![c] = take_irq(@)])
    /\ UNCHANGED <<barriers, arrived, passed, toclear>>

Mret(c) ==
    /\ cpu[c].handler /\ CanIssue(cpu[c], eu[c])
    /\ cpu' = [cpu EXCEPT ![c] = mret(@)]
    /\ UNCHANGED <<plan, eu, barriers, arrived, passed, toclear>>

Wakeup(c) ==
    /\ eu[c].wakeup = 0
    /\ Becomes([eu EXCEPT ![c] = answered(@)], [cpu EXCEPT ![c] = retired(@, eu[c])])
    /\ IF cpu[c].parked /\ eu[c].pending_req = "live"
       THEN Passes(c, cpu[c].elw_insn) ELSE UNCHANGED <<passed, toclear>>
    /\ UNCHANGED <<barriers, arrived>>

IrqWakeup(c) ==
    /\ eu[c].irq_wakeup = 0
    /\ Becomes([eu EXCEPT ![c] = irq_wakeup_handler(@)], cpu)
    /\ UNCHANGED <<barriers, arrived, passed, toclear>>

Tick ==
    /\ \A c \in Core : nothing_due(eu[c])
    /\ eu' = [c \in Core |-> tick(eu[c])]
    /\ cpu' = [c \in Core |-> step_cycle(cpu[c])]
    /\ UNCHANGED <<plan, barriers, arrived, passed, toclear>>

\* What the software of core c does next.
Step(c) ==
    \/ \E b \in Used : SetTriggerMask(c, b) \/ SetTargetMask(c, b)
    \/ \E insn \in Elw \ {"wait_clear"} : TriggerWait(c, insn)
    \/ \E insn \in Elw : Skip(c, insn)
    \/ /\ "wait_clear" \in Elw
       /\ WaitClear(c) \/ \E d \in Core : Trigger(c, d)
    \/ ClearEvent(c)
    \/ Mret(c)

Next ==
    \/ Tick
    \/ \E c \in Busy : \/ Step(c) \/ \E b \in Used : SetStatus(c, b)
                       \/ InEvent(c) \/ TakeIrq(c) \/ Wakeup(c) \/ IrqWakeup(c)

\* Clock events run in their cycle, cycles pass, and every core goes on with
\* its program (the status writes of the set-up do not go on for ever).
Fairness ==
    /\ WF_vars(Tick)
    /\ WF_vars(\E c \in Core : Wakeup(c) \/ IrqWakeup(c))
    /\ \A c \in Core : WF_vars(TakeIrq(c)) /\ SF_vars(c \in Busy /\ Step(c))

Spec == Init /\ [][Next]_vars /\ Fairness

-----------------------------------------------------------------------------
(***************************************************************************)
(* Properties.                                                             *)
(***************************************************************************)
\* How many of the first n barriers of core c are barrier b.
visits(c, b, n) == Quantify(1 .. n, LAMBDA i : Program[c][i] = b)

\* "each core triggers its bit and waits; the last arrival releases the
\* barrier" (barrier_unit.cpp): no core is through its n-th passage of a
\* barrier before every core of the team has arrived there n times.
NoEarlyRelease ==
    \A b \in Used : \A c, d \in Team[b] :
        visits(c, b, passed[c]) <= visits(d, b, arrived[d])

\* The status of a barrier is the set of cores that have arrived once more
\* than the last core to come: no arrival is lost, kept or counted twice,
\* whatever reads interrupts make the cores abandon and replay.  With
\* interrupts this is only so until the first release.
rounds(b) == Min({visits(d, b, arrived[d]) : d \in Team[b]})
comers(b) == {c \in Team[b] : visits(c, b, arrived[c]) > rounds(b)}

StatusIsArrivals ==
    \A b \in Used : (WithIrq => rounds(b) = 0) => barriers[b].status = comers(b)

\* A release is consumed by the passage it is for: between two barriers, once
\* the software has cleared what it must, no barrier event is left in the
\* buffer of a core to let it through the next one.
ReleaseConsumed ==
    \A c \in Core : arrived[c] = passed[c] /\ ~toclear[c] /\ ~WithIrq =>
        barrier_event \notin eu[c].status

\* A core that sleeps with its release in the buffer, or with an interrupt
\* pending, has a wake-up of one kind or the other under way.
NoLostWakeup ==
    \A c \in Core :
        cpu[c].parked /\ eu[c].status # {} =>
            eu[c].wakeup # Idle \/ eu[c].irq_wakeup # Idle

\* The answer of a read that clears is on its way to a core that has abandoned
\* that read for an interrupt: of the last core to arrive, whose read could be
\* interrupted after it was served (core_event_unit.cpp:238-244), or of a
\* sleeping one whose interrupt wake-up runs before the answer of the same
\* cycle.  The event is consumed and the replay waits for another one, as one
\* arrival too many if it triggers: the core may wait for ever.
AnswerLost(c) ==
    /\ eu[c].wakeup # Idle /\ cpu[c].replay
    /\ cpu[c].elw_insn \in {"trigger_wait_clear", "wait_clear"}

\* Every core gets through all its barriers, also when interrupts make it
\* abandon and replay its reads, provided that they do not keep its handler
\* busy for ever.  The one exception is AnswerLost.
AllPass ==
    \A c \in Core :
        <>[](\A d \in Core : ~cpu[d].handler) => <>(Done(c) \/ AnswerLost(c))

=============================================================================
