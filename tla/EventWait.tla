----------------------------- MODULE EventWait -----------------------------
(***************************************************************************)
(* The event-wait registers of the event unit under every interleaving of  *)
(* cores, input events, interrupts and clock events                        *)
(* (core_event_unit.cpp, the demux and shared ports of event_unit.cpp, and *)
(* the p.elw of the RI5KY core).                                           *)
(*                                                                         *)
(* Cores write their masks, clear their buffer, trigger software events    *)
(* and wait, with or without clearing; peripherals raise input events at   *)
(* any time; an event that is in irq_mask is an interrupt.  The registers  *)
(* of a core can also be reached through the shared port.                  *)
(***************************************************************************)
EXTENDS ElwCore

CONSTANTS EvtMasks,            \* event masks the software writes
          IrqMasks,            \* interrupt masks the software writes
          TriggerEvents,       \* events the software triggers
          InEvents             \* events wired to input ports

ASSUME EventWaitAssumption ==
    /\ EvtMasks \subseteq SUBSET Event /\ IrqMasks \subseteq SUBSET Event
    /\ TriggerEvents \subseteq Event /\ InEvents \subseteq Event

VARIABLES eu,           \* the core units
          cpu,          \* the cores
          resp_port     \* port the next answer of a unit goes to

vars == <<eu, cpu, resp_port>>

TypeOK ==
    /\ eu \in [Core -> Core_event_unit(SUBSET Event)]
    /\ cpu \in [Core -> ElwCoreState]
    /\ resp_port \in [Core -> {"null", "in", "demux_in"}]

Init ==
    /\ eu = [c \in Core |-> Core_event_unit_reset]
    /\ cpu = [c \in Core |-> ElwCoreReset]
    /\ resp_port = [c \in Core |-> "null"]

\* One call into the event unit leaves the units as E; P are the cores as
\* the call leaves them, before the irq_req hooks.
Becomes(E, P) == eu' = SettledUnits(E, P) /\ cpu' = SettledCores(E, P)

-----------------------------------------------------------------------------
(***************************************************************************)
(* Accesses through the demux port.  In state SKIP_ELW an access of any    *)
(* kind is answered at once and does nothing else.                         *)
(***************************************************************************)
wait_armed(e, insn) ==
    [e EXCEPT !.pending_req_is_wait = TRUE,
              !.clear_evt_mask = IF insn = "wait_clear" THEN e.evt_mask ELSE @]

Wait(c, insn) ==
    LET e == demux_enter(eu[c])
        w == wait_armed(e, insn)
        done(u) == Becomes([eu EXCEPT ![c] = u], [cpu EXCEPT ![c] = elw_done(@)])
    IN  /\ CanIssueElw(cpu[c], eu[c], insn)
        /\ resp_port' = [resp_port EXCEPT ![c] = "demux_in"]
        /\ \/ skips(eu[c]) /\ done(e)
           \/ ~skips(eu[c]) /\ evt_masked(e) # {} /\ done(wait_event_sync(w))
           \/ /\ ~skips(eu[c]) /\ evt_masked(e) = {}
              /\ Becomes([eu EXCEPT ![c] = put_to_sleep(w, "WAITING_EVENT")],
                         [cpu EXCEPT ![c] = elw_parked(@, insn)])

\* A register write of the core to its own unit, which leaves it as u.
OwnWrite(c, u) ==
    /\ CanIssueOther(cpu[c], eu[c])
    /\ resp_port' = [resp_port EXCEPT ![c] = "demux_in"]
    /\ Becomes([eu EXCEPT ![c] = IF skips(eu[c]) THEN demux_enter(@) ELSE u],
               [cpu EXCEPT ![c] = issued(@)])

write_evt_mask(e, m) == check_state([e EXCEPT !.evt_mask = m])
write_irq_mask(e, m) == check_state([e EXCEPT !.irq_mask = m])
buffer_clear(e, m)   == check_state(clear_status(e, m))

\* EU_CORE_MASK and its AND and OR forms; the same for the irq mask.
SetEvtMask(c) == \E m \in EvtMasks :
    OwnWrite(c, write_evt_mask(demux_enter(eu[c]), m))
SetIrqMask(c) == \E m \in IrqMasks :
    OwnWrite(c, write_irq_mask(demux_enter(eu[c]), m))
BufferClear(c) == \E m \in SUBSET Event \ {{}} :
    OwnWrite(c, buffer_clear(demux_enter(eu[c]), m))

\* A software event for the cores of a mask, the empty mask being all cores.
TriggerSwEvent(c) == \E ev \in TriggerEvents, targets \in SUBSET Core :
    /\ CanIssueOther(cpu[c], eu[c])
    /\ resp_port' = [resp_port EXCEPT ![c] = "demux_in"]
    /\ LET E == [eu EXCEPT ![c] = demux_enter(@)]
       IN  Becomes(IF skips(eu[c]) THEN E ELSE trigger_event(E, {ev}, targets, 0),
                   [cpu EXCEPT ![c] = issued(@)])

-----------------------------------------------------------------------------
(***************************************************************************)
(* Accesses through the shared port: another core, or the SoC, writes the  *)
(* event mask of core d or clears its buffer.  It leaves the unit of a     *)
(* sleeping core alone, whose answer would go to the wrong port.           *)
(***************************************************************************)
RemoteAccess(d) ==
    /\ ~cpu[d].parked
    /\ resp_port' = [resp_port EXCEPT ![d] = "in"]
    /\ \E u \in {write_evt_mask(eu[d], m) : m \in EvtMasks}
                   \cup {buffer_clear(eu[d], m) : m \in SUBSET Event} :
          Becomes([eu EXCEPT ![d] = u], cpu)

-----------------------------------------------------------------------------
(***************************************************************************)
(* Peripherals, interrupts and clock events.                               *)
(***************************************************************************)
InEvent(c) == \E ev \in InEvents :
    /\ Becomes([eu EXCEPT ![c] = send_event(@, {ev}, 0)], cpu)
    /\ UNCHANGED resp_port

TakeIrq(c) ==
    /\ TakesIrq(cpu[c], eu[c])
    /\ Becomes([eu EXCEPT ![c] = acknowledged(@)],
               [cpu EXCEPT ![c] = take_irq(@)])
    /\ UNCHANGED resp_port

Mret(c) ==
    /\ cpu[c].handler /\ CanIssue(cpu[c], eu[c])
    /\ cpu' = [cpu EXCEPT ![c] = mret(@)]
    /\ UNCHANGED <<eu, resp_port>>

ToggleMie(c) ==
    /\ CanIssueOther(cpu[c], eu[c]) /\ ~cpu[c].handler
    /\ cpu' = [cpu EXCEPT ![c].mie = ~@, ![c].stall = 1]
    /\ UNCHANGED <<eu, resp_port>>

Wakeup(c) ==
    /\ eu[c].wakeup = 0
    /\ Becomes([eu EXCEPT ![c] = answered(@)],
               [cpu EXCEPT ![c] = retired(@, eu[c])])
    /\ UNCHANGED resp_port

IrqWakeup(c) ==
    /\ eu[c].irq_wakeup = 0
    /\ Becomes([eu EXCEPT ![c] = irq_wakeup_handler(@)], cpu)
    /\ UNCHANGED resp_port

Tick ==
    /\ \A c \in Core : nothing_due(eu[c])
    /\ eu' = [c \in Core |-> tick(eu[c])]
    /\ cpu' = [c \in Core |-> step_cycle(cpu[c])]
    /\ UNCHANGED resp_port

Next ==
    \/ Tick
    \/ \E c \in Core :
         \/ \E insn \in Elw : Wait(c, insn)
         \/ SetEvtMask(c) \/ SetIrqMask(c) \/ BufferClear(c)
         \/ TriggerSwEvent(c)
         \/ RemoteAccess(c)
         \/ InEvent(c) \/ TakeIrq(c) \/ Mret(c) \/ ToggleMie(c)
         \/ Wakeup(c) \/ IrqWakeup(c)

\* The clock engine runs every clock event in its cycle, and cycles pass.
Fairness ==
    /\ WF_vars(Tick)
    /\ \A c \in Core : WF_vars(Wakeup(c)) /\ WF_vars(IrqWakeup(c))

Spec == Init /\ [][Next]_vars /\ Fairness

-----------------------------------------------------------------------------
(***************************************************************************)
(* Properties.                                                             *)
(***************************************************************************)

\* Once an interrupt has made a core abandon its parked read, the event unit
\* does not answer that read (the contract stated in ri5ky/lsu.cpp): an
\* answer is on its way only to a core that is still parked on it.
AnswersOnlyParkedReads ==
    \A c \in Core : eu[c].wakeup # Idle =>
        cpu[c].parked /\ eu[c].pending_req = "live"

\* The core sleeps with interrupts disabled, and an interrupt of its irq_mask
\* has made check_state() wake its unit all the same: the core does not take
\* it, and the unit takes the core for active from then on.
Unheeded(c) ==
    ~cpu[c].mie /\ eu[c].is_active /\ irq_masked(eu[c]) # {}

\* No wake-up is lost: a core that sleeps while an event it waits for is in its
\* buffer has a wake-up of one kind or the other under way, whether it has
\* interrupts enabled or not, unless it is Unheeded; and so has one that
\* sleeps with interrupts enabled while one is pending.
NoLostWakeup ==
    \A c \in Core :
        cpu[c].parked /\ eu[c].wakeup = Idle /\ eu[c].irq_wakeup = Idle =>
            /\ evt_masked(eu[c]) # {} => Unheeded(c)
            /\ irq_masked(eu[c]) # {} => ~cpu[c].mie

\* A core that waits for an event that has arrived leaves its sleep, interrupts
\* enabled or not and whoever touches its unit meanwhile, or is Unheeded.
EventWakes ==
    \A c \in Core :
        cpu[c].parked /\ evt_masked(eu[c]) # {} ~> ~cpu[c].parked \/ Unheeded(c)

\* A core that sleeps with an enabled interrupt pending leaves its sleep.
IrqWakes ==
    \A c \in Core :
        cpu[c].parked /\ cpu[c].mie /\ irq_masked(eu[c]) # {} ~> ~cpu[c].parked

\* A wait that does not clear acts on the clear mask that a wait-and-clear
\* read has left when its replay was skipped (SKIP_ELW), although the event
\* mask is another one by then.
LeftBySkip(c) ==
    IF \/ cpu[c].parked /\ cpu[c].elw_insn # "wait_clear"
       \/ \E insn \in Elw \ {"wait_clear"} : Wait(c, insn)
    THEN eu[c].clear_evt_mask ELSE {}

\* No event is dropped unseen: one leaves the buffer of a core only when the
\* core gets it as the value of its read, when it is taken as an interrupt,
\* or when software clears it.  The one exception is LeftBySkip.
NoEventDropped ==
    [][\A c \in Core : \A ev \in eu[c].status \ eu'[c].status :
          \/ ev \in eu'[c].data
          \/ ev \in LeftBySkip(c)
          \/ TakeIrq(c) \/ BufferClear(c) \/ RemoteAccess(c)]_vars

=============================================================================
