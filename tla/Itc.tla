-------------------------------- MODULE Itc ---------------------------------
(***************************************************************************)
(* The interrupt controller of the fabric controller (FC)                  *)
(* (pulp/itc/itc_v1_impl_v2.cpp): pending interrupts, their mask, the wire *)
(* that carries the highest one to the core, and the FIFO of SoC events    *)
(* that raises an interrupt of its own.                                    *)
(*                                                                         *)
(* Bit masks are sets of interrupt numbers.  The ring of events with its   *)
(* head, tail and count of free slots is the sequence of its content.      *)
(***************************************************************************)
EXTENDS Integers, Sequences, FiniteSets

CONSTANTS Irq,              \* interrupt numbers
          Event,            \* SoC event numbers
          fifo_irq,         \* the interrupt of the FIFO
          nb_fifo_events    \* size of the FIFO

ASSUME ItcAssumption ==
    /\ Irq \subseteq Nat /\ IsFiniteSet(Irq)
    /\ fifo_irq \in Irq
    /\ nb_fifo_events \in Nat \ {0}

VARIABLES status, mask, ack, input_status,
          sync_irq,         \* the request the ITC believes the wire carries
          irq_req,          \* the request the core last got over the wire
          fifo              \* the content of the ring, oldest first

irqs == <<status, mask, ack, input_status, sync_irq, irq_req>>

NoIrq == -1

ItcTypeOK ==
    /\ status \subseteq Irq /\ mask \subseteq Irq /\ ack \subseteq Irq
    /\ input_status \subseteq Irq
    /\ sync_irq \in Irq \cup {NoIrq} /\ irq_req \in Irq \cup {NoIrq}
    /\ fifo \in Seq(Event) /\ Len(fifo) <= nb_fifo_events

ItcInit ==
    /\ status = {} /\ mask = {} /\ ack = {} /\ input_status = {}
    /\ sync_irq = NoIrq /\ irq_req = NoIrq
    /\ fifo = <<>>

-----------------------------------------------------------------------------
Highest(S) == IF S = {} THEN NoIrq ELSE CHOOSE i \in S : \A j \in S : j <= i

\* Faulty: the wire only follows a new request, not one that goes away.
check_state_rising(s, m, sync, wire) ==
    LET irq == Highest(s \cap m)
    IN  IF irq > sync THEN <<irq, irq>> ELSE <<sync, wire>>

\* check_state() for that status and mask: what becomes of sync_irq and of the
\* request at the core.
check_state(s, m, sync, wire) ==
    LET irq == Highest(s \cap m)
    IN  IF irq # sync THEN <<irq, irq>> ELSE <<sync, wire>>

\* Status and mask get these values, and the wire follows.
drive(s, m) ==
    LET w == check_state(s, m, sync_irq, irq_req)
    IN  /\ status' = s /\ mask' = m
        /\ sync_irq' = w[1] /\ irq_req' = w[2]

itc_status_setValue(value) == drive(value, mask) /\ UNCHANGED input_status

\* Faulty: the wire does not follow.
MaskWrite_silent(value) ==
    /\ mask' = value
    /\ UNCHANGED <<status, sync_irq, irq_req, ack, input_status, fifo>>

MaskWrite(value) ==
    /\ drive(status, value)
    /\ UNCHANGED <<ack, input_status, fifo>>

StatusWrite(value) == itc_status_setValue(value) /\ UNCHANGED <<ack, fifo>>

AckWrite(value) ==
    /\ ack' = value
    /\ UNCHANGED <<status, mask, input_status, sync_irq, irq_req, fifo>>

\* A pulse on an input line; its end changes nothing.
in_event_sync(i) ==
    /\ drive(status \cup {i}, mask)
    /\ input_status' = input_status \cup {i}
    /\ UNCHANGED <<ack, fifo>>

\* The core has taken irq, forgotten the request and says so: the status is
\* cleared, and the wire is driven again even if the request looks unchanged.
irq_ack_sync(irq) ==
    LET s  == status \ {irq}
        w1 == check_state(s, mask, sync_irq, NoIrq)
        w2 == check_state(s, mask, NoIrq, w1[2])
    IN  /\ status' = s
        /\ ack' = ack \cup {irq}
        /\ sync_irq' = w2[1] /\ irq_req' = w2[2]
        /\ UNCHANGED <<mask, input_status, fifo>>

ready == Len(fifo) < nb_fifo_events

\* Faulty: only a full ring raises the interrupt.
raised_when_full(before, after) ==
    IF Len(after) = nb_fifo_events THEN {fifo_irq} ELSE {}

\* soc_event_sync() for events that turn the ring from before into after: only
\* the one that finds it empty raises the interrupt.
raised_by_push(before, after) ==
    IF before = <<>> /\ after # <<>> THEN {fifo_irq} ELSE {}
\* itc_fifo_ioReq(): a ring that is not empty after the pop raises it again.
raised_by_pop(after) == IF after # <<>> THEN {fifo_irq} ELSE {}

\* The ring takes the events of evs, which fit.
soc_event_sync(evs) ==
    /\ fifo' = fifo \o evs
    /\ itc_status_setValue(status \cup raised_by_push(fifo, fifo'))
    /\ UNCHANGED ack

\* A read of a ring that is not empty.  The SoC event unit is told when the
\* ring was full, and sends evs at once.
itc_fifo_ioReq(evs) ==
    /\ fifo' = Tail(fifo) \o evs
    /\ itc_status_setValue(status \cup raised_by_pop(Tail(fifo))
                                  \cup raised_by_push(Tail(fifo), fifo'))
    /\ UNCHANGED ack

\* The reset keeps what the input lines have ever signalled.
ItcReset ==
    /\ status' = input_status /\ mask' = {} /\ ack' = {}
    /\ sync_irq' = NoIrq /\ irq_req' = NoIrq
    /\ fifo' = <<>>
    /\ UNCHANGED input_status
=============================================================================
