--------------------------- MODULE CoreEventUnit ---------------------------
(***************************************************************************)
(* The per-core part of the PULP cluster event unit                        *)
(* (models/ips/pulp/event_unit/v3/core_event_unit.cpp): event buffer and   *)
(* masks, the wait registers that put a core to sleep, and the two wake-up *)
(* paths (an event answers the parked read, an interrupt runs the core for *)
(* the time of a handler).                                                 *)
(*                                                                         *)
(* The state of one unit is a record and every method is an operator from  *)
(* records to records, so that a handler of the event unit that calls      *)
(* several of them in a row is their composition.  32-bit event masks are  *)
(* sets of event numbers.  A clock event that is enqueued is a countdown   *)
(* of cycles, Idle when it is not enqueued, due when it is 0.              *)
(*                                                                         *)
(* clear_status() also asks the SoC-event FIFO to raise its event again    *)
(* while it holds something; the FIFO is empty in the modules that use     *)
(* these operators, where that call does nothing.                          *)
(***************************************************************************)
EXTENDS Integers, FiniteSets

CONSTANTS Core,     \* core numbers
          Event     \* event numbers of the event buffer, a 32-bit word

ASSUME CoreAssumption  == Core \subseteq Nat
ASSUME EventAssumption == Event \subseteq 0 .. 31

Idle  == -1         \* clock event not enqueued
NoIrq == -1         \* value of sync_irq and of the irq wire without request

EU_WAKEUP_LATENCY       == 2
EU_EVENT_WAKEUP_LATENCY == 1

Waiting == {"WAITING_EVENT", "WAITING_BARRIER"}
Core_state == {"NONE", "SKIP_ELW"} \cup Waiting

\* The parked request: none since reset, one the core still waits for, or one
\* the core has got its answer for or has abandoned to serve an interrupt.
PendingReq == {"null", "live", "freed"}

\* Largest number of a non-empty set of events.
Highest(S) == CHOOSE i \in S : \A j \in S : j <= i

(***************************************************************************)
(* State after reset.                                                      *)
(***************************************************************************)
Core_event_unit_reset ==
    [ status |-> {}, evt_mask |-> {}, irq_mask |-> {}, clear_evt_mask |-> {},
      sync_irq |-> NoIrq, irq_req |-> NoIrq, pending_elw |-> FALSE,
      pending_req |-> "null", pending_req_is_wait |-> FALSE, data |-> {},
      state |-> "NONE", is_active |-> TRUE, wakeup |-> Idle,
      irq_wakeup |-> Idle ]

\* Type of a unit whose parked reads return elements of Data.
Core_event_unit(Data) ==
    [ status : SUBSET Event, evt_mask : SUBSET Event, irq_mask : SUBSET Event,
      clear_evt_mask : SUBSET Event, sync_irq : Event \cup {NoIrq},
      irq_req : Event \cup {NoIrq}, pending_elw : BOOLEAN,
      pending_req : PendingReq, pending_req_is_wait : BOOLEAN, data : Data,
      state : Core_state, is_active : BOOLEAN, wakeup : Idle .. 2,
      irq_wakeup : Idle .. EU_WAKEUP_LATENCY ]

evt_masked(e) == e.status \cap e.evt_mask
irq_masked(e) == e.status \cap e.irq_mask
irq_of(e) == IF irq_masked(e) = {} THEN NoIrq ELSE Highest(irq_masked(e))

clear_status(e, mask) == [e EXCEPT !.status = @ \ mask]

check_wait_mask(e) ==
    [clear_status(e, e.clear_evt_mask) EXCEPT !.clear_evt_mask = {}]

(***************************************************************************)
(* check_state(): an active core gets its interrupt line updated when the  *)
(* request changed.                                                        *)
(***************************************************************************)
update_irq(e) ==
    IF irq_of(e) = e.sync_irq
    THEN e
    ELSE [e EXCEPT !.sync_irq = irq_of(e), !.irq_req = irq_of(e)]

\* A sleeping core is woken for an interrupt: the parked access will be
\* replayed by the core, so its state is kept.
wake_for_irq(e) ==
    IF e.irq_wakeup # Idle
    THEN [e EXCEPT !.pending_elw = TRUE]
    ELSE [e EXCEPT !.pending_elw = TRUE, !.irq_wakeup = EU_WAKEUP_LATENCY,
                   !.sync_irq = NoIrq]

\* A wait or barrier read returns the masked buffer as it is at wake time.
returns_status(e) ==
    /\ e.pending_req # "null"
    /\ \/ e.state = "WAITING_EVENT" /\ e.pending_req_is_wait
       \/ e.state = "WAITING_BARRIER"

\* A sleeping core has its event: its read is answered a few cycles later.
wake_for_event(e, delay) ==
    check_wait_mask(
        [e EXCEPT !.data = IF returns_status(e) THEN evt_masked(e) ELSE @,
                  !.state = "NONE",
                  !.wakeup = IF @ = Idle
                             THEN EU_EVENT_WAKEUP_LATENCY + delay ELSE @])

\* Faulty: an event is answered although an interrupt wake-up is under way.
check_state_answers(e, delay) ==
    CASE e.is_active -> update_irq(e)
      [] ~e.is_active /\ irq_masked(e) # {} /\ evt_masked(e) = {}
           -> wake_for_irq(e)
      [] ~e.is_active /\ evt_masked(e) # {} /\ e.state \in Waiting
           -> wake_for_event(e, delay)
      [] OTHER -> e

check_state_delayed(e, delay) ==
    CASE e.is_active -> update_irq(e)
      [] ~e.is_active /\ irq_masked(e) # {} /\ evt_masked(e) = {}
           -> wake_for_irq(e)
      [] ~e.is_active /\ evt_masked(e) # {} /\ e.pending_elw
           -> [e EXCEPT !.state = "SKIP_ELW"]
      [] ~e.is_active /\ evt_masked(e) # {} /\ ~e.pending_elw
           /\ e.state \in Waiting -> wake_for_event(e, delay)
      [] OTHER -> e

check_state(e) == check_state_delayed(e, 0)

(***************************************************************************)
(* Going to sleep.                                                         *)
(***************************************************************************)
\* Faulty: the unit goes on as if its core ran.
sleeps_active(e, wait_state) ==
    [e EXCEPT !.state = wait_state, !.pending_req = "live"]

put_to_sleep(e, wait_state) ==
    [e EXCEPT !.state = wait_state, !.is_active = FALSE,
              !.pending_req = "live"]

\* Faulty: the value is captured after the events are cleared.
wait_sync_cleared(e) ==
    LET f == check_wait_mask(e) IN check_state([f EXCEPT !.data = evt_masked(f)])

\* wait_event() when the event is buffered and the register is a wait
\* register: answered at once, IO_REQ_DONE.
wait_event_sync(e) ==
    check_state(check_wait_mask([e EXCEPT !.data = evt_masked(e)]))

\* wait_event() otherwise, IO_REQ_GRANTED: with its event buffered the core
\* is answered after the clock-gating latency without being put to sleep.
wait_event(e, wait_state) ==
    IF evt_masked(e) # {}
    THEN [check_wait_mask([e EXCEPT !.data = evt_masked(e)])
            EXCEPT !.pending_req = "live", !.wakeup = EU_WAKEUP_LATENCY]
    ELSE put_to_sleep(e, wait_state)

\* unwake(): the election that was about to wake this core goes elsewhere.
can_unwake(e) == e.wakeup # Idle /\ e.pending_req # "null"

\* Faulty: the unit will not clear the event when it is elected again.
unwake_unarmed(e, event) ==
    [e EXCEPT !.wakeup = Idle, !.state = "WAITING_EVENT",
              !.status = @ \ {event}]

unwake(e, event) ==
    [e EXCEPT !.wakeup = Idle, !.state = "WAITING_EVENT",
              !.clear_evt_mask = {event}, !.status = @ \ {event}]

(***************************************************************************)
(* Events and handlers.                                                    *)
(***************************************************************************)
\* Faulty: the event is buffered and nobody is told.
send_event_quiet(e, mask, delay) == [e EXCEPT !.status = @ \cup mask]

send_event(e, mask, delay) ==
    check_state_delayed([e EXCEPT !.status = @ \cup mask], delay)

\* An empty core mask stands for every core.
trigger_event(E, mask, cores, delay) ==
    [c \in Core |-> IF cores = {} \/ c \in cores
                    THEN send_event(E[c], mask, delay) ELSE E[c]]

irq_ack_sync(e, irq) ==
    check_state([clear_status(e, {irq}) EXCEPT !.sync_irq = NoIrq])

\* The answer itself goes to the core (see the modules that use this unit).
wakeup_handler(e) ==
    check_state([e EXCEPT !.wakeup = Idle, !.is_active = TRUE])

\* Faulty: the core stays clock-gated.
irq_wakeup_gated(e) == check_state([e EXCEPT !.irq_wakeup = Idle])

irq_wakeup_handler(e) ==
    check_state([e EXCEPT !.irq_wakeup = Idle, !.is_active = TRUE])

\* demux_req(): what every access through the demux port of the core does
\* first.  In state SKIP_ELW it is also all it does.
demux_enter(e) ==
    [e EXCEPT !.pending_elw = FALSE, !.pending_req_is_wait = FALSE,
              !.state = IF @ = "SKIP_ELW" THEN "NONE" ELSE @]

skips(e) == e.state = "SKIP_ELW"

(***************************************************************************)
(* Time: one cycle passes once every clock event due in this one has run.  *)
(***************************************************************************)
nothing_due(e) == e.wakeup # 0 /\ e.irq_wakeup # 0

tick(e) == [e EXCEPT !.wakeup     = IF @ > 0 THEN @ - 1 ELSE @,
                     !.irq_wakeup = IF @ > 0 THEN @ - 1 ELSE @]

=============================================================================
