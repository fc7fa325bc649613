------------------------------ MODULE SocEvents ------------------------------
(***************************************************************************)
(* The way of a SoC event to the fabric controller: the SoC event unit     *)
(* (models/ips/pulp/soc_eu/soc_eu.cpp) hands it to the interrupt           *)
(* controller when that has room, and queues it otherwise; the controller  *)
(* interrupts the core, whose handler reads it.                            *)
(*                                                                         *)
(* Only the FC target is here: the masks of the other two come out of      *)
(* reset set, and their write callbacks (cl_mask_req, pr_mask_req) are     *)
(* empty, so nothing is ever sent to them.                                 *)
(***************************************************************************)
EXTENDS Itc

CONSTANTS MaxWaiting,       \* 4 in the code: waiting events of one number
          FcEvent,          \* the events of the bits of SW_EVENT
          InIrq,            \* interrupts with an input line
          SwIrq,            \* interrupts software writes in STATUS
          MaxEvents,        \* bound: events the FC is to get
          MaxInputs         \* bound: other interrupts, and SW_EVENT accesses

ASSUME SocEuAssumption ==
    /\ Event \subseteq Nat /\ FcEvent \subseteq Event
    /\ MaxWaiting \in Nat \ {0} /\ MaxEvents \in Nat /\ MaxInputs \in Nat
    /\ InIrq \subseteq Irq \ {fifo_irq} /\ SwIrq \subseteq Irq \ {fifo_irq}

VARIABLES fc_mask,          \* the events that do not go to the FC
          sw_event,         \* the SW_EVENT register
          queue,            \* soc_eu_target::fifo
          nb_waiting_events,
          triggering,       \* events left to trigger by sw_event_req's loop
          handler,          \* the interrupt the FC is serving
          served,           \* its handler has read the FIFO
          accepted, taken,  \* history: events kept, events read by the FC
          inputs            \* counts towards MaxInputs

soc_eu == <<fc_mask, sw_event, queue, nb_waiting_events, triggering>>
fc == <<handler, served>>
vars == <<irqs, fifo, soc_eu, fc, accepted, taken, inputs>>

TypeOK ==
    /\ ItcTypeOK
    /\ fc_mask \subseteq Event /\ sw_event \subseteq FcEvent
    /\ triggering \subseteq FcEvent
    /\ queue \in Seq(Event)
    /\ nb_waiting_events \in [Event -> 0 .. MaxWaiting]
    /\ handler \in Irq \cup {NoIrq} /\ served \in BOOLEAN
    /\ accepted \in Seq(Event) /\ taken \in Seq(Event)
    /\ inputs \in Nat

Init ==
    /\ ItcInit
    /\ fc_mask = Event /\ sw_event = {} /\ triggering = {}
    /\ queue = <<>> /\ nb_waiting_events = [e \in Event |-> 0]
    /\ handler = NoIrq /\ served = FALSE
    /\ accepted = <<>> /\ taken = <<>> /\ inputs = 0

Idle == triggering = {}
Lowest(S) == CHOOSE e \in S : \A d \in S : e <= d

-----------------------------------------------------------------------------
(***************************************************************************)
(* The SoC event unit.                                                     *)
(***************************************************************************)
\* Faulty: the event that waits is the next to leave.
enqueue_front(e) ==
    IF nb_waiting_events[e] = MaxWaiting
    THEN UNCHANGED <<queue, nb_waiting_events, accepted>>
    ELSE /\ nb_waiting_events' = [nb_waiting_events EXCEPT ![e] = @ + 1]
         /\ queue' = <<e>> \o queue
         /\ accepted' = Append(accepted, e)

\* The event waits, unless too many of its number do.
enqueue(e) ==
    IF nb_waiting_events[e] = MaxWaiting
    THEN UNCHANGED <<queue, nb_waiting_events, accepted>>
    ELSE /\ nb_waiting_events' = [nb_waiting_events EXCEPT ![e] = @ + 1]
         /\ queue' = Append(queue, e)
         /\ accepted' = Append(accepted, e)

\* trigger_event() for the FC.
trigger_event(e) ==
    \/ /\ e \in fc_mask
       /\ UNCHANGED <<irqs, fifo, queue, nb_waiting_events, accepted>>
    \/ /\ e \notin fc_mask /\ ready
       /\ soc_event_sync(<<e>>)
       /\ accepted' = Append(accepted, e)
       /\ UNCHANGED <<queue, nb_waiting_events>>
    \/ /\ e \notin fc_mask /\ ~ready
       /\ enqueue(e)
       /\ UNCHANGED <<irqs, fifo>>

\* An event from a wire: a source that sends numbers, a slot whose level
\* rises, or an edge of the reference clock.
EventIn(e) ==
    /\ Idle /\ Len(accepted) < MaxEvents
    /\ trigger_event(e)
    /\ UNCHANGED <<fc_mask, sw_event, triggering, fc, taken, inputs>>

\* Any access to SW_EVENT, a read too, triggers the bits the register then
\* holds.
AccessSwEvent(value) ==
    /\ Idle /\ Len(accepted) < MaxEvents /\ inputs < MaxInputs
    /\ sw_event' = value
    /\ triggering' = value
    /\ inputs' = inputs + 1
    /\ UNCHANGED <<irqs, fifo, fc_mask, queue, nb_waiting_events, fc,
                   accepted, taken>>

\* One turn of its loop, which nothing interrupts.
TriggerSwEvent ==
    LET e == Lowest(triggering)
    IN  /\ ~Idle
        /\ trigger_event(e)
        /\ triggering' = triggering \ {e}
        /\ UNCHANGED <<fc_mask, sw_event, fc, taken, inputs>>

FcMaskWrite(value) ==
    /\ Idle
    /\ fc_mask' = value
    /\ UNCHANGED <<irqs, fifo, sw_event, queue, nb_waiting_events, triggering,
                   fc, accepted, taken, inputs>>

\* Faulty: as if the ring were still full.
sent_none(free) == 0

\* soc_event_sync(), the ITC's call when it has room again: how many of the
\* queued events it can send.
sent(free) == IF Len(queue) <= free THEN Len(queue) ELSE free

\* Faulty: the count of the queued event is kept.
uncount_nothing(evs) == nb_waiting_events
\* Each event sent is no longer waiting.
uncount(evs) ==
    [e \in Event |-> nb_waiting_events[e]
                        - Cardinality({i \in DOMAIN evs : evs[i] = e})]

-----------------------------------------------------------------------------
(***************************************************************************)
(* The FC.  A read of the empty FIFO returns 0 and changes nothing.        *)
(***************************************************************************)
ReadFifo ==
    LET free == nb_fifo_events - Len(fifo) + 1
        evs == IF ready THEN <<>> ELSE SubSeq(queue, 1, sent(free))
    IN  /\ Idle
        /\ fifo # <<>>
        /\ taken' = Append(taken, Head(fifo))
        /\ itc_fifo_ioReq(evs)
        /\ queue' = SubSeq(queue, Len(evs) + 1, Len(queue))
        /\ nb_waiting_events' = uncount(evs)
        /\ served' = (handler # NoIrq)
        /\ UNCHANGED <<fc_mask, sw_event, triggering, handler, accepted, inputs>>

HandlerReadsNothing ==
    /\ Idle /\ handler = fifo_irq /\ fifo = <<>>
    /\ served' = TRUE
    /\ UNCHANGED <<irqs, fifo, soc_eu, handler, accepted, taken, inputs>>

TakeIrq(irq) ==
    /\ Idle /\ handler = NoIrq /\ irq_req = irq
    /\ irq_ack_sync(irq)
    /\ handler' = irq /\ served' = FALSE
    /\ UNCHANGED <<soc_eu, accepted, taken, inputs>>

\* The handler of the FIFO reads it at least once.
ReturnFromIrq ==
    /\ Idle /\ handler # NoIrq
    /\ handler = fifo_irq => served
    /\ handler' = NoIrq /\ served' = FALSE
    /\ UNCHANGED <<irqs, fifo, soc_eu, accepted, taken, inputs>>

WriteMask(value) ==
    /\ Idle
    /\ MaskWrite(value)
    /\ UNCHANGED <<soc_eu, fc, accepted, taken, inputs>>

\* Software sets and clears interrupts, not the one of the FIFO.
WriteStatus(value) ==
    /\ Idle /\ inputs < MaxInputs
    /\ StatusWrite(value \cup (status \ SwIrq))
    /\ inputs' = inputs + 1
    /\ UNCHANGED <<soc_eu, fc, accepted, taken>>

ClearAck ==
    /\ Idle
    /\ AckWrite({})
    /\ UNCHANGED <<soc_eu, fc, accepted, taken, inputs>>

InEvent(i) ==
    /\ Idle /\ inputs < MaxInputs
    /\ in_event_sync(i)
    /\ inputs' = inputs + 1
    /\ UNCHANGED <<soc_eu, fc, accepted, taken>>

\* A reset of the chip.
Reset ==
    /\ Idle
    /\ ItcReset
    /\ fc_mask' = Event /\ sw_event' = {} /\ triggering' = {}
    /\ queue' = <<>> /\ nb_waiting_events' = [e \in Event |-> 0]
    /\ handler' = NoIrq /\ served' = FALSE
    /\ accepted' = <<>> /\ taken' = <<>> /\ inputs' = 0

Next ==
    \/ \E e \in Event : EventIn(e)
    \/ \E value \in SUBSET FcEvent : AccessSwEvent(value)
    \/ TriggerSwEvent
    \/ \E value \in SUBSET Event : FcMaskWrite(value)
    \/ ReadFifo \/ HandlerReadsNothing
    \/ \E irq \in Irq : TakeIrq(irq)
    \/ ReturnFromIrq
    \/ \E value \in SUBSET Irq : WriteMask(value)
    \/ \E value \in SUBSET SwIrq : WriteStatus(value)
    \/ ClearAck
    \/ \E i \in InIrq : InEvent(i)
    \/ Reset

\* The loop of sw_event_req ends; the FC takes an interrupt that keeps coming,
\* its handler reads the FIFO and returns, and it does not leave the interrupt
\* of the FIFO masked for ever.
Fairness ==
    /\ WF_vars(TriggerSwEvent)
    /\ \A irq \in Irq : SF_vars(TakeIrq(irq))
    /\ WF_vars(handler = fifo_irq /\ ReadFifo)
    /\ WF_vars(HandlerReadsNothing) /\ WF_vars(ReturnFromIrq)
    /\ WF_vars(fifo_irq \notin mask /\ WriteMask(mask \cup {fifo_irq}))

Spec == Init /\ [][Next]_vars /\ Fairness

-----------------------------------------------------------------------------
(***************************************************************************)
(* Properties.                                                             *)
(***************************************************************************)
\* Events reach the FC in the order they were triggered: no event that finds
\* room in the ring overtakes one that waits in the queue, none is lost and
\* none doubled between the two.
InOrder == taken \o fifo \o queue = accepted

\* The queue is only in use while the ring is full: a ring that gets room is
\* refilled in the same call, so no event is left waiting without anyone to
\* send it.
QueuedOnlyWhenFull == queue # <<>> => ~ready

\* The count that decides on a drop is the number of events that wait: an
\* event is dropped only when MaxWaiting of its number really wait.
WaitingIsCounted ==
    \A e \in Event : nb_waiting_events[e] =
                        Cardinality({i \in DOMAIN queue : queue[i] = e})

\* The request at the core is never stale: it is the highest interrupt that is
\* pending and enabled, whatever was acknowledged, masked or cleared.
WireIsCurrent ==
    /\ sync_irq = irq_req
    /\ irq_req = Highest(status \cap mask)

\* While the ring holds an event its interrupt is pending or its handler has
\* still to read: the acknowledge that clears the status never leaves an event
\* without an interrupt to come.
RaisedOrServed ==
    fifo # <<>> => fifo_irq \in status \/ (handler = fifo_irq /\ ~served)

\* Every event that was not dropped is read: however often events come, the
\* ring and the queue run empty again.
EachTaken == []<>(taken = accepted)

=============================================================================
