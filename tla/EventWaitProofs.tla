-------------------------- MODULE EventWaitProofs ---------------------------
(***************************************************************************)
(* Proofs about the event-wait registers, for every number of cores and    *)
(* every set of masks and events.                                          *)
(*                                                                         *)
(* A core and its unit are in one of five shapes.  The core runs, or is    *)
(* asleep on its read with no wake-up under way; an event has elected it   *)
(* and its answer is on the way; an interrupt is waking it up and it will  *)
(* replay its read; or, interrupts being disabled, an interrupt has made   *)
(* the unit take it for active while it is parked.  An election and an     *)
(* interrupt wake-up may be under way together; the answer is then the     *)
(* earlier of the two, and the interrupt wake-up has run before the core   *)
(* can reach its unit again, as long as its pipeline takes longer to       *)
(* refill than the wake-up (ResumeCycles > EU_WAKEUP_LATENCY).             *)
(***************************************************************************)
EXTENDS EventWait, Integers, Sequences, FiniteSets,
        SequenceTheorems, FunctionTheorems, FiniteSetTheorems,
        WellFoundedInduction, TLAPS

-----------------------------------------------------------------------------
(***************************************************************************)
(* A largest element.                                                      *)
(***************************************************************************)

\* A finite set of numbers that is not empty has a largest element: a
\* smallest set without one would have one once any element is taken out.
LEMMA FiniteHasMax ==
  ASSUME NEW A \in SUBSET Int, IsFiniteSet(A), A # {}
  PROVE  \E i \in A : \A j \in A : j <= i
<1> DEFINE HasMax(T) == \E i \in T : \A j \in T : j <= i
           Bad == {T \in SUBSET A : T # {} /\ ~HasMax(T)}
<1> SUFFICES Bad = {}
  OBVIOUS
<1> SUFFICES ASSUME Bad # {} PROVE FALSE
  OBVIOUS
<1>1. Bad \subseteq FiniteSubsetsOf(A)
  BY FS_Subset DEF FiniteSubsetsOf
<1>2. PICK T \in Bad : \A U \in Bad : ~(<<U, T>> \in StrictSubsetOrdering(A))
  <2> HIDE DEF Bad
  <2> QED BY <1>1, FS_StrictSubsetOrderingWellFounded, WFMin
<1>3. PICK x \in T : TRUE
  OBVIOUS
<1>4. T \ {x} \notin Bad
  <2>1. <<T \ {x}, T>> \in StrictSubsetOrdering(A)
    BY <1>2, <1>3 DEF StrictSubsetOrdering
  <2> QED BY <2>1, <1>2
<1>5. T \ {x} # {} => HasMax(T \ {x})
  BY <1>2, <1>4
<1>6. HasMax(T)
  <2>1. CASE T = {x}
    BY <2>1, <1>2
  <2>2. CASE T # {x}
    <3>1. PICK i \in T \ {x} : \A j \in T \ {x} : j <= i
      BY <2>2, <1>3, <1>5
    <3>2. i \in Int /\ x \in Int /\ T \subseteq Int
      BY <1>2, <1>3
    <3>3. CASE i <= x
      BY <3>1, <3>2, <3>3
    <3>4. CASE ~(i <= x)
      BY <3>1, <3>2, <3>4
    <3> QED BY <3>3, <3>4
  <2> QED BY <2>1, <2>2
<1> QED BY <1>2, <1>6

-----------------------------------------------------------------------------
Unit == Core_event_unit(SUBSET Event)

\* The pipeline of a core takes longer to refill than its interrupt wake-up.
SlowRefill == ResumeCycles > EU_WAKEUP_LATENCY

\* The irq wire of a unit is what its buffer says, or the next check_state()
\* of the active core will find out that it is not.
WireKnown(e) ==
    \/ e.sync_irq = e.irq_req
    \/ e.sync_irq = NoIrq /\ irq_masked(e) # {}

\* The unit takes its core for active.
Active(e) ==
    /\ e \in Unit /\ e.is_active = TRUE /\ e.wakeup = Idle
    /\ e.sync_irq = irq_of(e) /\ e.irq_req = irq_of(e)

Running(e, p) ==
    /\ Active(e) /\ p.parked = FALSE
    /\ e.irq_wakeup # Idle => p.stall > e.irq_wakeup

\* The core came back from an interrupt wake-up to the read it sleeps on, with
\* interrupts disabled: it heeds nothing.
Stuck(e, p) ==
    /\ Active(e) /\ p.parked = TRUE /\ p.mie = FALSE /\ e.irq_wakeup = Idle
    /\ irq_masked(e) # {}

\* The core is parked, and its unit knows.
Gated(e, p) ==
    /\ e \in Unit /\ e.is_active = FALSE /\ e.pending_req = "live"
    /\ p.parked = TRUE /\ p.handler = FALSE
    /\ WireKnown(e)
    /\ p.mie = TRUE => e.irq_req = NoIrq

\* An interrupt wake-up is under way.
IrqComing(e) ==
    /\ e.irq_wakeup \in 0 .. EU_WAKEUP_LATENCY
    /\ e.pending_elw = TRUE /\ irq_masked(e) # {} /\ e.sync_irq = NoIrq

NoIrqComing(e) ==
    e.irq_wakeup = Idle /\ e.pending_elw = FALSE /\ e.sync_irq = e.irq_req

Asleep(e, p) ==
    /\ Gated(e, p) /\ NoIrqComing(e)
    /\ e.wakeup = Idle /\ e.state = "WAITING_EVENT" /\ e.pending_req_is_wait = TRUE
    /\ evt_masked(e) = {}
    /\ p.mie = TRUE => irq_masked(e) = {}
    /\ p.elw_insn = "wait_clear" => e.clear_evt_mask = e.evt_mask

IrqWaking(e, p) ==
    /\ Gated(e, p) /\ IrqComing(e)
    /\ e.wakeup = Idle

Elected(e, p) ==
    /\ Gated(e, p)
    /\ e.wakeup \in {0, 1} /\ e.state \notin Waiting
    /\ NoIrqComing(e) \/ (IrqComing(e) /\ e.irq_wakeup > e.wakeup)

Shape(e, p) ==
    \/ Running(e, p) \/ Stuck(e, p)
    \/ Asleep(e, p) \/ IrqWaking(e, p) \/ Elected(e, p)

IInv ==
    /\ TypeOK
    /\ \A c \in Core : Shape(eu[c], cpu[c])

-----------------------------------------------------------------------------
(***************************************************************************)
(* The methods of a unit.                                                  *)
(***************************************************************************)

\* The events are finitely many numbers, none of which is the one that stands
\* for no interrupt.
LEMMA EventFacts ==
  IsFiniteSet(Event) /\ Event \subseteq Int /\ \A i \in Event : i # NoIrq
<1>1. \A i \in 0 .. 31 : i \in Int /\ i # NoIrq
  BY DEF NoIrq
<1>2. IsFiniteSet(0 .. 31)
  <2>1. 0 \in Int /\ 31 \in Int
    OBVIOUS
  <2> QED BY <2>1, FS_Interval
<1> DEFINE W == 0 .. 31
<1>3. Event \subseteq W
  BY EventAssumption
<1> HIDE DEF W
<1>4. IsFiniteSet(W) /\ \A i \in W : i \in Int /\ i # NoIrq
  BY <1>1, <1>2 DEF W
<1> QED BY <1>3, <1>4, FS_Subset

\* The interrupt of a buffer is one of its events, and there is one when the
\* masked buffer is not empty.
LEMMA IrqOf ==
  ASSUME NEW e, e \in Unit
  PROVE  /\ irq_of(e) \in Event \cup {NoIrq}
         /\ irq_of(e) = NoIrq <=> irq_masked(e) = {}
<1> DEFINE S == irq_masked(e)
<1>1. S \in SUBSET Event /\ S \in SUBSET Int
  BY EventFacts DEF irq_masked, Unit, Core_event_unit
<1>2. IsFiniteSet(S)
  BY <1>1, EventFacts, FS_Subset
<1>3. CASE S # {}
  <2> HIDE DEF S
  <2>1. \E i \in S : \A j \in S : j <= i
    BY <1>1, <1>2, <1>3, FiniteHasMax
  <2>2. Highest(S) \in S
    BY <2>1 DEF Highest
  <2>3. Highest(S) \in Event /\ Highest(S) # NoIrq
    BY <2>2, <1>1, EventFacts
  <2>4. irq_of(e) = Highest(S)
    BY <1>3 DEF irq_of, S
  <2> QED BY <2>3, <2>4, <1>3 DEF S
<1>4. CASE S = {}
  BY <1>4 DEF irq_of
<1> QED BY <1>3, <1>4

\* check_state() of an active core makes the wire current and leaves the rest.
LEMMA CheckActive ==
  ASSUME NEW f, f \in Unit, f.is_active = TRUE, f.wakeup = Idle, WireKnown(f)
  PROVE  LET g == check_state_delayed(f, 0)
         IN  /\ Active(g) /\ g.status = f.status /\ g.data = f.data
             /\ g.evt_mask = f.evt_mask /\ g.irq_mask = f.irq_mask
             /\ g.irq_wakeup = f.irq_wakeup /\ g.pending_req = f.pending_req
<1>1. check_state_delayed(f, 0) = update_irq(f)
  BY DEF check_state_delayed
<1>2. irq_of(f) \in Event \cup {NoIrq} /\ (irq_of(f) = NoIrq <=> irq_masked(f) = {})
  BY IrqOf
<1>3. CASE irq_of(f) = f.sync_irq
  <2>1. update_irq(f) = f
    BY <1>3 DEF update_irq
  <2>2. f.irq_req = irq_of(f)
    BY <1>2, <1>3 DEF WireKnown
  <2> QED BY <1>1, <1>3, <2>1, <2>2 DEF Active
<1>4. CASE irq_of(f) # f.sync_irq
  <2> DEFINE i == irq_of(f)
             g == [f EXCEPT !.sync_irq = i, !.irq_req = i]
  <2>1. update_irq(f) = g
    BY <1>4 DEF update_irq
  <2> HIDE DEF i
  <2>2. g \in Unit
    BY <1>2 DEF i, Unit, Core_event_unit
  <2>3. /\ g.sync_irq = i /\ g.irq_req = i /\ g.is_active = TRUE
        /\ g.wakeup = Idle /\ g.status = f.status /\ g.data = f.data
        /\ g.evt_mask = f.evt_mask /\ g.irq_mask = f.irq_mask
        /\ g.irq_wakeup = f.irq_wakeup /\ g.pending_req = f.pending_req
    BY DEF Unit, Core_event_unit
  <2> HIDE DEF g
  <2>4. irq_of(g) = i
    BY <2>3 DEF i, irq_of, irq_masked
  <2> QED BY <1>1, <2>1, <2>2, <2>3, <2>4 DEF Active
<1> QED BY <1>3, <1>4

\* An event in the buffer of an active core.
LEMMA SendActive ==
  ASSUME NEW e, Active(e), NEW mask \in SUBSET Event
  PROVE  LET g == send_event(e, mask, 0)
         IN  /\ Active(g) /\ g.irq_wakeup = e.irq_wakeup
             /\ e.status \subseteq g.status /\ irq_masked(e) \subseteq irq_masked(g)
<1> DEFINE f == [e EXCEPT !.status = @ \cup mask]
<1>1. /\ f \in Unit /\ f.is_active = TRUE /\ f.wakeup = Idle
      /\ f.irq_wakeup = e.irq_wakeup /\ f.sync_irq = f.irq_req
      /\ e.status \subseteq f.status /\ f.irq_mask = e.irq_mask
  BY DEF Active, Unit, Core_event_unit
<1> HIDE DEF f
<1> DEFINE g == check_state_delayed(f, 0)
<1>2. /\ Active(g) /\ g.status = f.status /\ g.irq_wakeup = f.irq_wakeup
      /\ g.irq_mask = f.irq_mask
  BY <1>1, CheckActive DEF WireKnown
<1>3. send_event(e, mask, 0) = g
  BY DEF send_event, f
<1> HIDE DEF g
<1>4. irq_masked(e) \subseteq irq_masked(g)
  BY <1>1, <1>2 DEF irq_masked
<1> QED BY <1>1, <1>2, <1>3, <1>4

\* An interrupt and no event: the unit of a gated core starts the interrupt
\* wake-up, or goes on with it.
LEMMA WakeForIrq ==
  ASSUME NEW f, NEW p, Gated(f, p), irq_masked(f) # {},
         f.irq_wakeup # Idle => IrqComing(f)
  PROVE  LET g == wake_for_irq(f)
         IN  /\ Gated(g, p) /\ IrqComing(g) /\ g.wakeup = f.wakeup
             /\ g.state = f.state /\ g.status = f.status
             /\ g.irq_wakeup = IF f.irq_wakeup = Idle THEN EU_WAKEUP_LATENCY
                               ELSE f.irq_wakeup
<1>0. f \in Unit /\ f.irq_wakeup \in Idle .. EU_WAKEUP_LATENCY
  BY DEF Gated, Unit, Core_event_unit
<1>1. CASE f.irq_wakeup # Idle
  <2>1. wake_for_irq(f) = f
    BY <1>0, <1>1 DEF wake_for_irq, IrqComing, Unit, Core_event_unit
  <2> QED BY <1>1, <2>1
<1>2. CASE f.irq_wakeup = Idle
  <2> DEFINE g == [f EXCEPT !.pending_elw = TRUE,
                            !.irq_wakeup = EU_WAKEUP_LATENCY, !.sync_irq = NoIrq]
  <2>1. wake_for_irq(f) = g
    BY <1>2 DEF wake_for_irq
  <2>2. /\ EU_WAKEUP_LATENCY \in Idle .. EU_WAKEUP_LATENCY
        /\ EU_WAKEUP_LATENCY \in 0 .. EU_WAKEUP_LATENCY
        /\ NoIrq \in Event \cup {NoIrq}
    BY DEF EU_WAKEUP_LATENCY, Idle
  <2>3. g \in Unit
    BY <1>0, <2>2 DEF Unit, Core_event_unit
  <2>4. /\ g.pending_elw = TRUE /\ g.irq_wakeup = EU_WAKEUP_LATENCY
        /\ g.sync_irq = NoIrq /\ g.irq_req = f.irq_req
        /\ g.is_active = f.is_active /\ g.pending_req = f.pending_req
        /\ g.wakeup = f.wakeup /\ g.state = f.state /\ g.status = f.status
        /\ g.irq_mask = f.irq_mask
    BY <1>0 DEF Unit, Core_event_unit
  <2> HIDE DEF g
  <2>5. irq_masked(g) # {}
    BY <2>4 DEF irq_masked
  <2>6. IrqComing(g)
    BY <2>2, <2>4, <2>5 DEF IrqComing
  <2>7. Gated(g, p)
    BY <2>3, <2>4, <2>5 DEF Gated, WireKnown
  <2> QED BY <1>2, <2>1, <2>4, <2>6, <2>7
<1> QED BY <1>1, <1>2

\* An event is in the buffer, check_state() not called yet.
buffered(e, mask) == [e EXCEPT !.status = @ \cup mask]

\* What that changes in the unit of a gated core.
OnlyBuffered(e, f, p, mask) ==
    /\ Gated(f, p) /\ f.status = e.status \cup mask
    /\ f.wakeup = e.wakeup /\ f.state = e.state
    /\ f.irq_wakeup = e.irq_wakeup /\ f.pending_elw = e.pending_elw
    /\ f.evt_mask = e.evt_mask /\ f.clear_evt_mask = e.clear_evt_mask
    /\ f.pending_req_is_wait = e.pending_req_is_wait
    /\ irq_masked(e) # {} => irq_masked(f) # {}
    /\ IrqComing(e) => IrqComing(f)
    /\ NoIrqComing(e) => NoIrqComing(f)
    /\ send_event(e, mask, 0) = check_state_delayed(f, 0)

\* Nothing but the buffer changes.
LEMMA Buffered ==
  ASSUME NEW e, NEW p, Gated(e, p), NEW mask \in SUBSET Event
  PROVE  OnlyBuffered(e, buffered(e, mask), p, mask)
<1> DEFINE f == [e EXCEPT !.status = @ \cup mask]
<1>0. buffered(e, mask) = f
  BY DEF buffered
<1>1. e \in Unit
  BY DEF Gated
<1>2. f \in Unit
  BY <1>1 DEF Unit, Core_event_unit
<1>3. /\ f.status = e.status \cup mask
      /\ f.wakeup = e.wakeup /\ f.state = e.state
      /\ f.irq_wakeup = e.irq_wakeup /\ f.pending_elw = e.pending_elw
      /\ f.sync_irq = e.sync_irq /\ f.irq_req = e.irq_req
      /\ f.evt_mask = e.evt_mask /\ f.clear_evt_mask = e.clear_evt_mask
      /\ f.pending_req_is_wait = e.pending_req_is_wait
      /\ f.irq_mask = e.irq_mask /\ f.is_active = e.is_active
      /\ f.pending_req = e.pending_req
  BY <1>1 DEF Unit, Core_event_unit
<1>4. send_event(e, mask, 0) = check_state_delayed(f, 0)
  BY DEF send_event
<1> HIDE DEF f
<1>5. irq_masked(e) # {} => irq_masked(f) # {}
  BY <1>3 DEF irq_masked
<1>6. /\ Gated(f, p)
      /\ (IrqComing(e) => IrqComing(f)) /\ (NoIrqComing(e) => NoIrqComing(f))
  BY <1>2, <1>3, <1>5 DEF Gated, WireKnown, IrqComing, NoIrqComing
<1> QED BY <1>0, <1>3, <1>4, <1>5, <1>6 DEF OnlyBuffered

\* The event a core sleeps for elects it; its read returns the buffer before
\* what it clears is taken out.
LEMMA WakeForEvent ==
  ASSUME NEW f, NEW p, Gated(f, p), NoIrqComing(f), f.wakeup = Idle,
         f.state = "WAITING_EVENT", f.pending_req_is_wait = TRUE
  PROVE  LET g == wake_for_event(f, 0)
         IN  /\ Elected(g, p) /\ g.data = evt_masked(f)
             /\ g.status = f.status \ f.clear_evt_mask
<1> DEFINE d == evt_masked(f)
           g == [f EXCEPT !.data = d, !.state = "NONE", !.wakeup = 1]
           s == f.status \ f.clear_evt_mask
           h == [g EXCEPT !.status = s, !.clear_evt_mask = {}]
<1>1. f \in Unit /\ f.pending_req = "live" /\ d \in SUBSET Event
  BY DEF Gated, Unit, Core_event_unit, evt_masked
<1>2. "NONE" \in Core_state /\ 1 \in Idle .. 2 /\ s \in SUBSET Event
  BY <1>1 DEF Core_state, Idle, Unit, Core_event_unit
<1>3. wake_for_event(f, 0) = check_wait_mask(g)
  <2>1. (IF f.wakeup = Idle THEN EU_EVENT_WAKEUP_LATENCY + 0 ELSE f.wakeup) = 1
    BY DEF EU_EVENT_WAKEUP_LATENCY
  <2>2. (IF returns_status(f) THEN evt_masked(f) ELSE f.data) = d
    BY <1>1 DEF returns_status
  <2> QED BY <2>1, <2>2 DEF wake_for_event
<1> HIDE DEF d
<1>4. g \in Unit
  BY <1>1, <1>2 DEF Unit, Core_event_unit
<1>5. g.status = f.status /\ g.clear_evt_mask = f.clear_evt_mask
  BY <1>1 DEF Unit, Core_event_unit
<1>6. check_wait_mask(g) = h
  <2> HIDE DEF g
  <2> QED BY <1>4, <1>5 DEF check_wait_mask, clear_status, Unit, Core_event_unit
<1> HIDE DEF s
<1>7. h \in Unit
  <2> HIDE DEF g
  <2> QED BY <1>2, <1>4 DEF Unit, Core_event_unit
<1>8. /\ h.status = s /\ h.data = d /\ h.state = "NONE" /\ h.wakeup = 1
      /\ h.is_active = f.is_active /\ h.pending_req = f.pending_req
      /\ h.sync_irq = f.sync_irq /\ h.irq_req = f.irq_req
      /\ h.irq_wakeup = f.irq_wakeup /\ h.pending_elw = f.pending_elw
  BY <1>1 DEF Unit, Core_event_unit
<1> HIDE DEF g, h
<1>9. Elected(h, p)
  BY <1>7, <1>8 DEF Elected, Gated, NoIrqComing, WireKnown, Waiting
<1> QED BY <1>3, <1>6, <1>8, <1>9 DEF d, s

\* An event reaches a core that sleeps.
LEMMA SendAsleep ==
  ASSUME NEW e, NEW p, Asleep(e, p), NEW mask \in SUBSET Event
  PROVE  LET g == send_event(e, mask, 0)
         IN  /\ Shape(g, p)
             /\ \A ev \in e.status \ g.status :
                  \/ ev \in g.data
                  \/ p.elw_insn # "wait_clear" /\ ev \in e.clear_evt_mask
<1> DEFINE f == buffered(e, mask)
           g == check_state_delayed(f, 0)
<1>1. /\ Gated(f, p) /\ f.status = e.status \cup mask
      /\ f.wakeup = Idle /\ f.state = "WAITING_EVENT"
      /\ f.irq_wakeup = Idle /\ f.pending_elw = FALSE
      /\ f.evt_mask = e.evt_mask /\ f.clear_evt_mask = e.clear_evt_mask
      /\ f.pending_req_is_wait = TRUE /\ NoIrqComing(f)
      /\ f.is_active = FALSE
      /\ send_event(e, mask, 0) = g
  <2>1. Gated(e, p) /\ NoIrqComing(e)
    BY DEF Asleep
  <2>2. OnlyBuffered(e, f, p, mask)
    BY <2>1, Buffered
  <2> HIDE DEF f
  <2> QED BY <2>1, <2>2 DEF OnlyBuffered, Asleep, NoIrqComing, Gated
<1> HIDE DEF f
<1>2. CASE irq_masked(f) # {} /\ evt_masked(f) = {}
  <2>1. g = wake_for_irq(f)
    BY <1>1, <1>2 DEF check_state_delayed
  <2>2. IrqWaking(g, p) /\ g.status = f.status
    BY <1>1, <1>2, <2>1, WakeForIrq DEF IrqWaking
  <2> QED BY <1>1, <2>2 DEF Shape
<1>3. CASE evt_masked(f) # {}
  <2>1. g = wake_for_event(f, 0)
    BY <1>1, <1>3 DEF check_state_delayed, Waiting
  <2>2. /\ Elected(g, p) /\ g.data = evt_masked(f)
        /\ g.status = f.status \ f.clear_evt_mask
    <3> DEFINE k == wake_for_event(f, 0)
    <3>1. Elected(k, p) /\ k.data = evt_masked(f)
          /\ k.status = f.status \ f.clear_evt_mask
      BY <1>1, WakeForEvent
    <3> HIDE DEF k
    <3> QED BY <2>1, <3>1 DEF k
  <2>3. p.elw_insn = "wait_clear" => f.clear_evt_mask = f.evt_mask
    BY <1>1 DEF Asleep
  <2> HIDE DEF g
  <2>4. \A ev \in e.status \ g.status :
           \/ ev \in g.data
           \/ p.elw_insn # "wait_clear" /\ ev \in e.clear_evt_mask
    BY <1>1, <2>2, <2>3 DEF evt_masked
  <2> QED BY <1>1, <2>2, <2>4 DEF Shape
<1>4. CASE irq_masked(f) = {} /\ evt_masked(f) = {}
  <2>1. g = f
    BY <1>1, <1>4 DEF check_state_delayed
  <2>2. p.elw_insn = "wait_clear" => f.clear_evt_mask = f.evt_mask
    BY <1>1 DEF Asleep
  <2>3. Asleep(f, p)
    BY <1>1, <1>4, <2>2 DEF Asleep
  <2> QED BY <1>1, <2>1, <2>3 DEF Shape
<1> QED BY <1>2, <1>3, <1>4

\* An event reaches a core an interrupt is waking: its read will be skipped.
LEMMA SendIrqComing ==
  ASSUME NEW e, NEW p, Gated(e, p), IrqComing(e), e.wakeup = Idle \/ e.state \notin Waiting,
         NEW mask \in SUBSET Event
  PROVE  LET g == send_event(e, mask, 0)
         IN  /\ Gated(g, p) /\ IrqComing(g) /\ e.status \subseteq g.status
             /\ g.wakeup = e.wakeup /\ g.irq_wakeup = e.irq_wakeup
             /\ g.state \in {e.state, "SKIP_ELW"}
<1> DEFINE f == buffered(e, mask)
           g == check_state_delayed(f, 0)
<1>1. /\ Gated(f, p) /\ f.status = e.status \cup mask
      /\ f.wakeup = e.wakeup /\ f.state = e.state
      /\ f.irq_wakeup = e.irq_wakeup /\ f.pending_elw = TRUE
      /\ IrqComing(f) /\ irq_masked(f) # {} /\ f.is_active = FALSE
      /\ send_event(e, mask, 0) = g
  <2>1. OnlyBuffered(e, f, p, mask)
    BY Buffered
  <2> HIDE DEF f
  <2> QED BY <2>1 DEF OnlyBuffered, IrqComing, Gated
<1>2. f.irq_wakeup # Idle
  BY <1>1 DEF IrqComing, Idle, EU_WAKEUP_LATENCY
<1> HIDE DEF f
<1>3. CASE evt_masked(f) = {}
  <2>1. g = wake_for_irq(f)
    BY <1>1, <1>3 DEF check_state_delayed
  <2>2. Gated(g, p) /\ IrqComing(g) /\ g.wakeup = f.wakeup /\ g.state = f.state
        /\ g.status = f.status /\ g.irq_wakeup = f.irq_wakeup
    BY <1>1, <1>2, <2>1, WakeForIrq
  <2> HIDE DEF g
  <2> QED BY <1>1, <2>2
<1>4. CASE evt_masked(f) # {}
  <2> DEFINE h == [f EXCEPT !.state = "SKIP_ELW"]
  <2>1. g = h
    BY <1>1, <1>4 DEF check_state_delayed
  <2>2. f \in Unit /\ h \in Unit
    BY <1>1 DEF Gated, Unit, Core_event_unit, Core_state
  <2>3. /\ h.status = f.status /\ h.wakeup = f.wakeup
        /\ h.irq_wakeup = f.irq_wakeup /\ h.state = "SKIP_ELW"
        /\ h.is_active = f.is_active /\ h.pending_req = f.pending_req
        /\ h.sync_irq = f.sync_irq /\ h.irq_req = f.irq_req
        /\ h.pending_elw = f.pending_elw /\ h.irq_mask = f.irq_mask
    BY <2>2 DEF Unit, Core_event_unit
  <2> HIDE DEF h, g
  <2>4. Gated(h, p) /\ IrqComing(h)
    BY <1>1, <2>2, <2>3 DEF Gated, IrqComing, WireKnown, irq_masked
  <2> QED BY <1>1, <2>1, <2>3, <2>4
<1> QED BY <1>3, <1>4

\* An event reaches a core whose answer is on its way.
LEMMA SendElected ==
  ASSUME NEW e, NEW p, Elected(e, p), NEW mask \in SUBSET Event
  PROVE  LET g == send_event(e, mask, 0)
         IN  Elected(g, p) /\ e.status \subseteq g.status
<1> DEFINE f == buffered(e, mask)
           g == check_state_delayed(f, 0)
<1>1. CASE IrqComing(e) /\ e.irq_wakeup > e.wakeup
  <2> DEFINE k == send_event(e, mask, 0)
  <2>1. /\ Gated(k, p) /\ IrqComing(k) /\ e.status \subseteq k.status
        /\ k.wakeup = e.wakeup /\ k.irq_wakeup = e.irq_wakeup
        /\ k.state \in {e.state, "SKIP_ELW"}
    BY <1>1, SendIrqComing DEF Elected
  <2> HIDE DEF k
  <2>2. Elected(k, p)
    BY <1>1, <2>1 DEF Elected, Waiting
  <2> QED BY <2>1, <2>2 DEF k
<1>2. CASE NoIrqComing(e)
  <2>1. /\ Gated(f, p) /\ f.status = e.status \cup mask
        /\ f.wakeup = e.wakeup /\ f.state = e.state /\ NoIrqComing(f)
        /\ f.is_active = FALSE /\ f.irq_wakeup = Idle /\ f.pending_elw = FALSE
        /\ send_event(e, mask, 0) = g
    <3>1. OnlyBuffered(e, f, p, mask)
      BY Buffered DEF Elected
    <3> HIDE DEF f
    <3> QED BY <1>2, <3>1 DEF OnlyBuffered, Gated, NoIrqComing
  <2> HIDE DEF f
  <2>2. CASE irq_masked(f) # {} /\ evt_masked(f) = {}
    <3>1. g = wake_for_irq(f)
      BY <2>1, <2>2 DEF check_state_delayed
    <3>2. /\ Gated(g, p) /\ IrqComing(g) /\ g.wakeup = f.wakeup
          /\ g.state = f.state /\ g.status = f.status
          /\ g.irq_wakeup = EU_WAKEUP_LATENCY
      BY <2>1, <2>2, <3>1, WakeForIrq
    <3> HIDE DEF g
    <3>3. g.wakeup \in {0, 1} /\ g.irq_wakeup > g.wakeup
      BY <2>1, <3>2 DEF Elected, EU_WAKEUP_LATENCY
    <3>4. Elected(g, p)
      BY <2>1, <3>2, <3>3 DEF Elected
    <3> QED BY <2>1, <3>2, <3>4
  <2>3. CASE ~(irq_masked(f) # {} /\ evt_masked(f) = {})
    <3>1. g = f
      BY <2>1, <2>3 DEF check_state_delayed, Elected
    <3>2. Elected(f, p)
      BY <2>1 DEF Elected
    <3> QED BY <2>1, <3>1, <3>2
  <2> QED BY <2>2, <2>3
<1> QED BY <1>1, <1>2 DEF Elected

\* An event reaches a unit, whatever its core does.
LEMMA SendKeeps ==
  ASSUME NEW e, NEW p, Shape(e, p), NEW mask \in SUBSET Event
  PROVE  LET g == send_event(e, mask, 0)
         IN  /\ Shape(g, p)
             /\ \A ev \in e.status \ g.status :
                  \/ ev \in g.data
                  \/ /\ p.parked = TRUE /\ p.elw_insn # "wait_clear"
                     /\ ev \in e.clear_evt_mask
<1> DEFINE g == send_event(e, mask, 0)
<1>1. CASE Active(e)
  <2>1. /\ Active(g) /\ g.irq_wakeup = e.irq_wakeup /\ e.status \subseteq g.status
        /\ irq_masked(e) \subseteq irq_masked(g)
    BY <1>1, SendActive
  <2>2. ~Asleep(e, p) /\ ~IrqWaking(e, p) /\ ~Elected(e, p)
    BY <1>1 DEF Active, Asleep, IrqWaking, Elected, Gated
  <2> HIDE DEF g
  <2>3. Shape(g, p)
    BY <2>1, <2>2 DEF Shape, Running, Stuck
  <2> QED BY <2>1, <2>3 DEF g
<1>2. CASE Asleep(e, p)
  <2>1. p.parked = TRUE
    BY <1>2 DEF Asleep, Gated
  <2> QED BY <1>2, <2>1, SendAsleep
<1>3. CASE IrqWaking(e, p)
  <2>1. /\ Gated(g, p) /\ IrqComing(g) /\ e.status \subseteq g.status
        /\ g.wakeup = e.wakeup
    BY <1>3, SendIrqComing DEF IrqWaking
  <2> HIDE DEF g
  <2>2. Shape(g, p)
    BY <1>3, <2>1 DEF Shape, IrqWaking
  <2> QED BY <2>1, <2>2 DEF g
<1>4. CASE Elected(e, p)
  <2>1. Elected(g, p) /\ e.status \subseteq g.status
    BY <1>4, SendElected
  <2> HIDE DEF g
  <2> QED BY <2>1 DEF Shape, g
<1> QED BY <1>1, <1>2, <1>3, <1>4 DEF Shape, Running, Stuck

-----------------------------------------------------------------------------
(***************************************************************************)
(* The accesses of a core that runs.                                       *)
(***************************************************************************)

\* A core that can execute an instruction has nothing under way in its unit,
\* and no request that it would have to take first.
LEMMA Issues ==
  ASSUME NEW e, NEW p \in ElwCoreState, Shape(e, p), CanIssue(p, e)
  PROVE  /\ Active(e) /\ p.parked = FALSE /\ e.irq_wakeup = Idle
         /\ p.mie = TRUE /\ p.handler = FALSE => e.irq_req = NoIrq
<1>1. p.parked = FALSE /\ p.stall = 0 /\ ~TakesIrq(p, e)
  BY DEF CanIssue, ElwCoreState
<1>2. Running(e, p)
  BY <1>1 DEF Shape, Stuck, Asleep, IrqWaking, Elected, Gated
<1>3. e.irq_wakeup \in Idle .. EU_WAKEUP_LATENCY
  BY <1>2 DEF Running, Active, Unit, Core_event_unit
<1>4. e.irq_wakeup = Idle
  BY <1>1, <1>2, <1>3 DEF Running, Idle, EU_WAKEUP_LATENCY
<1>5. p.mie = TRUE /\ p.handler = FALSE => e.irq_req = NoIrq
  BY <1>1 DEF TakesIrq, irq_enabled
<1> QED BY <1>1, <1>2, <1>4, <1>5 DEF Running

\* A unit that takes its core for active, with its core running and nothing
\* under way, fits whatever the core has just executed.
LEMMA RunningOn ==
  ASSUME NEW e, NEW p, Active(e), e.irq_wakeup = Idle, p.parked = FALSE
  PROVE  Shape(e, p)
BY DEF Shape, Running

\* Every access enters the demux port.
LEMMA EnterActive ==
  ASSUME NEW e, Active(e)
  PROVE  LET f == demux_enter(e)
         IN  /\ Active(f) /\ f.irq_wakeup = e.irq_wakeup
             /\ f.status = e.status /\ f.evt_mask = e.evt_mask
             /\ f.clear_evt_mask = e.clear_evt_mask /\ f.data = e.data
             /\ f.irq_req = e.irq_req /\ f.pending_elw = FALSE
<1> DEFINE s == IF e.state = "SKIP_ELW" THEN "NONE" ELSE e.state
           f == [e EXCEPT !.pending_elw = FALSE, !.pending_req_is_wait = FALSE,
                          !.state = s]
<1>1. demux_enter(e) = f
  BY DEF demux_enter
<1>2. e \in Unit /\ s \in Core_state
  BY DEF Active, Unit, Core_event_unit, Core_state
<1> HIDE DEF s
<1>3. f \in Unit
  BY <1>2 DEF Unit, Core_event_unit
<1>4. /\ f.status = e.status /\ f.evt_mask = e.evt_mask
      /\ f.irq_mask = e.irq_mask /\ f.clear_evt_mask = e.clear_evt_mask
      /\ f.data = e.data /\ f.irq_req = e.irq_req /\ f.pending_elw = FALSE
      /\ f.sync_irq = e.sync_irq /\ f.irq_wakeup = e.irq_wakeup
      /\ f.is_active = e.is_active /\ f.wakeup = e.wakeup
  BY <1>2 DEF Unit, Core_event_unit
<1> HIDE DEF f
<1>5. irq_of(f) = irq_of(e)
  BY <1>4 DEF irq_of, irq_masked
<1>6. Active(f)
  BY <1>3, <1>4, <1>5 DEF Active
<1> QED BY <1>1, <1>4, <1>6

\* A unit whose masks or buffer are changed, before check_state().
LEMMA Rechecked ==
  ASSUME NEW e, Active(e), NEW f, f \in Unit, f.is_active = TRUE,
         f.wakeup = Idle, f.sync_irq = f.irq_req, f.irq_wakeup = e.irq_wakeup
  PROVE  /\ Active(check_state(f)) /\ check_state(f).status = f.status
         /\ check_state(f).data = f.data
         /\ check_state(f).irq_wakeup = e.irq_wakeup
<1> DEFINE g == check_state_delayed(f, 0)
<1>1. Active(g) /\ g.status = f.status /\ g.data = f.data
      /\ g.irq_wakeup = f.irq_wakeup
  BY CheckActive DEF WireKnown
<1> HIDE DEF g
<1> QED BY <1>1 DEF check_state, g

\* A write of the event mask.
LEMMA WriteEvtMask ==
  ASSUME NEW e, Active(e), NEW m \in SUBSET Event
  PROVE  /\ Active(write_evt_mask(e, m))
         /\ write_evt_mask(e, m).irq_wakeup = e.irq_wakeup
         /\ write_evt_mask(e, m).status = e.status
<1> DEFINE f == [e EXCEPT !.evt_mask = m]
<1>1. /\ f \in Unit /\ f.is_active = TRUE /\ f.wakeup = Idle
      /\ f.sync_irq = f.irq_req /\ f.irq_wakeup = e.irq_wakeup
      /\ f.status = e.status
  BY DEF Active, Unit, Core_event_unit
<1> HIDE DEF f
<1>2. Active(check_state(f)) /\ check_state(f).irq_wakeup = e.irq_wakeup
      /\ check_state(f).status = f.status
  BY <1>1, Rechecked
<1> QED BY <1>1, <1>2 DEF write_evt_mask, f

\* A write of the interrupt mask.
LEMMA WriteIrqMask ==
  ASSUME NEW e, Active(e), NEW m \in SUBSET Event
  PROVE  /\ Active(write_irq_mask(e, m))
         /\ write_irq_mask(e, m).irq_wakeup = e.irq_wakeup
         /\ write_irq_mask(e, m).status = e.status
<1> DEFINE f == [e EXCEPT !.irq_mask = m]
<1>1. /\ f \in Unit /\ f.is_active = TRUE /\ f.wakeup = Idle
      /\ f.sync_irq = f.irq_req /\ f.irq_wakeup = e.irq_wakeup
      /\ f.status = e.status
  BY DEF Active, Unit, Core_event_unit
<1> HIDE DEF f
<1>2. Active(check_state(f)) /\ check_state(f).irq_wakeup = e.irq_wakeup
      /\ check_state(f).status = f.status
  BY <1>1, Rechecked
<1> QED BY <1>1, <1>2 DEF write_irq_mask, f

\* A write that clears events.
LEMMA ClearBuffer ==
  ASSUME NEW e, Active(e), NEW m \in SUBSET Event
  PROVE  /\ Active(buffer_clear(e, m))
         /\ buffer_clear(e, m).irq_wakeup = e.irq_wakeup
<1> DEFINE f == [e EXCEPT !.status = @ \ m]
<1>1. /\ f \in Unit /\ f.is_active = TRUE /\ f.wakeup = Idle
      /\ f.sync_irq = f.irq_req /\ f.irq_wakeup = e.irq_wakeup
  BY DEF Active, Unit, Core_event_unit
<1> HIDE DEF f
<1>2. Active(check_state(f)) /\ check_state(f).irq_wakeup = e.irq_wakeup
  BY <1>1, Rechecked
<1> QED BY <1>2 DEF buffer_clear, clear_status, f

\* Taking an interrupt.
LEMMA Acknowledges ==
  ASSUME NEW e, Active(e)
  PROVE  /\ Active(acknowledged(e))
         /\ acknowledged(e).irq_wakeup = e.irq_wakeup
<1> DEFINE d == [e EXCEPT !.irq_req = NoIrq]
           f == [clear_status(d, {e.irq_req}) EXCEPT !.sync_irq = NoIrq]
<1>1. e \in Unit /\ NoIrq \in Event \cup {NoIrq}
  BY DEF Active
<1>2. d \in Unit /\ d.is_active = TRUE /\ d.wakeup = Idle /\ d.irq_req = NoIrq
      /\ d.irq_wakeup = e.irq_wakeup
  BY <1>1 DEF Active, Unit, Core_event_unit
<1>3. acknowledged(e) = check_state(f)
  BY DEF acknowledged, irq_ack_sync
<1> HIDE DEF d
<1>4. /\ f \in Unit /\ f.is_active = TRUE /\ f.wakeup = Idle
      /\ f.sync_irq = f.irq_req /\ f.irq_wakeup = e.irq_wakeup
  BY <1>1, <1>2, ZenonT(60) DEF Unit, Core_event_unit, clear_status
<1> HIDE DEF f
<1>5. Active(check_state(f)) /\ check_state(f).irq_wakeup = e.irq_wakeup
  BY <1>4, Rechecked
<1> QED BY <1>3, <1>5

\* The unit as a wait read finds it once the demux port has been entered.
LEMMA WaitArmed ==
  ASSUME NEW e, Active(e), NEW insn
  PROVE  LET w == wait_armed(demux_enter(e), insn)
         IN  /\ Active(w) /\ w.irq_wakeup = e.irq_wakeup
             /\ w.status = e.status /\ w.evt_mask = e.evt_mask
             /\ w.irq_req = e.irq_req /\ w.pending_elw = FALSE
             /\ w.pending_req_is_wait = TRUE
             /\ w.clear_evt_mask = IF insn = "wait_clear" THEN e.evt_mask
                                   ELSE e.clear_evt_mask
<1> DEFINE d == demux_enter(e)
           m == IF insn = "wait_clear" THEN d.evt_mask ELSE d.clear_evt_mask
           w == [d EXCEPT !.pending_req_is_wait = TRUE, !.clear_evt_mask = m]
<1>1. /\ Active(d) /\ d.irq_wakeup = e.irq_wakeup
      /\ d.status = e.status /\ d.evt_mask = e.evt_mask
      /\ d.clear_evt_mask = e.clear_evt_mask
      /\ d.irq_req = e.irq_req /\ d.pending_elw = FALSE
  BY EnterActive
<1>2. wait_armed(d, insn) = w
  BY DEF wait_armed
<1> HIDE DEF d
<1>3. m \in SUBSET Event /\ d \in Unit
  BY <1>1 DEF Active, Unit, Core_event_unit
<1>4. m = IF insn = "wait_clear" THEN e.evt_mask ELSE e.clear_evt_mask
  BY <1>1
<1> HIDE DEF m
<1>5. w \in Unit
  BY <1>3 DEF Unit, Core_event_unit
<1>6. /\ w.status = d.status /\ w.evt_mask = d.evt_mask
      /\ w.irq_mask = d.irq_mask /\ w.clear_evt_mask = m
      /\ w.irq_req = d.irq_req /\ w.pending_elw = d.pending_elw
      /\ w.sync_irq = d.sync_irq /\ w.irq_wakeup = d.irq_wakeup
      /\ w.is_active = d.is_active /\ w.wakeup = d.wakeup
      /\ w.pending_req_is_wait = TRUE
  BY <1>3 DEF Unit, Core_event_unit
<1> HIDE DEF w
<1>7. irq_of(w) = irq_of(d)
  BY <1>6 DEF irq_of, irq_masked
<1>8. Active(w)
  BY <1>1, <1>5, <1>6, <1>7 DEF Active
<1> QED BY <1>1, <1>2, <1>4, <1>6, <1>8 DEF d

\* A wait read that finds its event returns the masked buffer, and takes out
\* of the buffer what it clears.
LEMMA WaitDone ==
  ASSUME NEW w, Active(w)
  PROVE  LET g == wait_event_sync(w)
         IN  /\ Active(g) /\ g.irq_wakeup = w.irq_wakeup
             /\ g.data = evt_masked(w) /\ g.status = w.status \ w.clear_evt_mask
<1> DEFINE d == evt_masked(w)
           s == w.status \ w.clear_evt_mask
           f == [w EXCEPT !.data = d]
           h == [f EXCEPT !.status = s, !.clear_evt_mask = {}]
<1>1. w \in Unit /\ d \in SUBSET Event /\ s \in SUBSET Event
  BY DEF Active, Unit, Core_event_unit, evt_masked
<1> HIDE DEF d
<1>2. f \in Unit /\ f.status = w.status /\ f.clear_evt_mask = w.clear_evt_mask
  BY <1>1 DEF Unit, Core_event_unit
<1>3. wait_event_sync(w) = check_state(check_wait_mask(f))
  BY DEF wait_event_sync, d
<1>4. check_wait_mask(f) = h
  <2> HIDE DEF f
  <2> QED BY <1>2 DEF check_wait_mask, clear_status, Unit, Core_event_unit
<1> HIDE DEF s
<1>5. h \in Unit
  <2> HIDE DEF f
  <2> QED BY <1>1, <1>2 DEF Unit, Core_event_unit
<1>6. /\ h.status = s /\ h.data = d /\ h.is_active = w.is_active
      /\ h.wakeup = w.wakeup /\ h.sync_irq = w.sync_irq
      /\ h.irq_req = w.irq_req /\ h.irq_wakeup = w.irq_wakeup
  BY <1>1 DEF Unit, Core_event_unit
<1> HIDE DEF h
<1>7. Active(check_state(h)) /\ check_state(h).status = s
      /\ check_state(h).data = d /\ check_state(h).irq_wakeup = w.irq_wakeup
  <2>1. h.is_active = TRUE /\ h.wakeup = Idle /\ h.sync_irq = h.irq_req
    BY <1>6 DEF Active
  <2> QED BY <1>5, <1>6, <2>1, Rechecked
<1> QED BY <1>3, <1>4, <1>7 DEF d, s

\* A wait read that finds nothing puts the core to sleep.
LEMMA WaitSleeps ==
  ASSUME NEW w, Active(w), w.irq_wakeup = Idle, w.pending_elw = FALSE,
         w.pending_req_is_wait = TRUE, evt_masked(w) = {},
         NEW p \in ElwCoreState, p.handler = FALSE, NEW insn \in Elw,
         p.mie = TRUE => w.irq_req = NoIrq,
         insn = "wait_clear" => w.clear_evt_mask = w.evt_mask
  PROVE  Asleep(put_to_sleep(w, "WAITING_EVENT"), elw_parked(p, insn))
<1> DEFINE g == [w EXCEPT !.state = "WAITING_EVENT", !.is_active = FALSE,
                          !.pending_req = "live"]
           q == [p EXCEPT !.parked = TRUE, !.elw_insn = insn, !.replay = FALSE]
<1>1. put_to_sleep(w, "WAITING_EVENT") = g /\ elw_parked(p, insn) = q
  BY DEF put_to_sleep, elw_parked
<1>2. w \in Unit /\ "WAITING_EVENT" \in Core_state /\ "live" \in PendingReq
  BY DEF Active, Core_state, Waiting, PendingReq
<1>3. g \in Unit
  BY <1>2 DEF Unit, Core_event_unit
<1>4. /\ g.state = "WAITING_EVENT" /\ g.is_active = FALSE
      /\ g.pending_req = "live" /\ g.status = w.status
      /\ g.evt_mask = w.evt_mask /\ g.irq_mask = w.irq_mask
      /\ g.clear_evt_mask = w.clear_evt_mask /\ g.sync_irq = w.sync_irq
      /\ g.irq_req = w.irq_req /\ g.pending_elw = FALSE
      /\ g.pending_req_is_wait = TRUE /\ g.irq_wakeup = Idle
      /\ g.wakeup = w.wakeup
  BY <1>2 DEF Unit, Core_event_unit
<1>5. /\ q.parked = TRUE /\ q.elw_insn = insn /\ q.handler = p.handler
      /\ q.mie = p.mie
  BY DEF ElwCoreState
<1> HIDE DEF g, q
<1>6. w.sync_irq = w.irq_req /\ w.wakeup = Idle
      /\ (p.mie = TRUE => irq_masked(w) = {})
  BY <1>2, IrqOf DEF Active
<1>7. evt_masked(g) = {} /\ irq_masked(g) = irq_masked(w)
  BY <1>4 DEF evt_masked, irq_masked
<1>8. Gated(g, q) /\ NoIrqComing(g)
  BY <1>3, <1>4, <1>5, <1>6 DEF Gated, NoIrqComing, WireKnown
<1>9. Asleep(g, q)
  BY <1>4, <1>5, <1>6, <1>7, <1>8 DEF Asleep
<1> QED BY <1>1, <1>9

-----------------------------------------------------------------------------
(***************************************************************************)
(* Clock events.                                                           *)
(***************************************************************************)

\* The answer of an elected core: the refill of its pipeline outlasts an
\* interrupt wake-up that is still under way.
LEMMA AnswerRuns ==
  ASSUME SlowRefill, NEW e, NEW p \in ElwCoreState, Shape(e, p), e.wakeup = 0
  PROVE  Shape(answered(e), retired(p, e)) /\ answered(e).status = e.status
<1>1. Elected(e, p)
  BY DEF Shape, Running, Stuck, Active, Asleep, IrqWaking, Idle
<1> DEFINE f == [e EXCEPT !.wakeup = Idle, !.is_active = TRUE]
           g == check_state_delayed(f, 0)
           h == [g EXCEPT !.pending_req = "freed"]
           q == [p EXCEPT !.parked = FALSE, !.elw_insn = NoInsn,
                          !.stall = ResumeCycles]
<1>2. e \in Unit /\ Idle \in Idle .. 2 /\ "freed" \in PendingReq
  BY <1>1 DEF Elected, Gated, Idle, PendingReq
<1>3. f \in Unit
  BY <1>2 DEF Unit, Core_event_unit
<1>4. /\ f.is_active = TRUE /\ f.wakeup = Idle /\ f.status = e.status
      /\ f.irq_mask = e.irq_mask /\ f.sync_irq = e.sync_irq
      /\ f.irq_req = e.irq_req /\ f.irq_wakeup = e.irq_wakeup
  BY <1>2 DEF Unit, Core_event_unit
<1>5. answered(e) = h
  BY DEF answered, wakeup_handler, check_state
<1> HIDE DEF f
<1>6. WireKnown(f)
  BY <1>1, <1>4 DEF Elected, Gated, WireKnown, irq_masked
<1>7. Active(g) /\ g.status = e.status /\ g.irq_wakeup = e.irq_wakeup
  BY <1>3, <1>4, <1>6, CheckActive
<1> HIDE DEF g
<1>8. h \in Unit
  BY <1>2, <1>7 DEF Active, Unit, Core_event_unit
<1>9. /\ h.is_active = TRUE /\ h.wakeup = Idle /\ h.status = e.status
      /\ h.irq_wakeup = e.irq_wakeup /\ h.sync_irq = g.sync_irq
      /\ h.irq_req = g.irq_req /\ h.irq_mask = g.irq_mask
      /\ h.status = g.status
  BY <1>7 DEF Active, Unit, Core_event_unit
<1> HIDE DEF h
<1>10. Active(h)
  BY <1>7, <1>8, <1>9 DEF Active, irq_of, irq_masked
<1>11. retired(p, e) = q
  BY <1>1 DEF retired, elw_wake, Elected, Gated
<1>12. q.parked = FALSE /\ q.stall = ResumeCycles
  BY DEF ElwCoreState
<1> HIDE DEF q
<1>13. h.irq_wakeup # Idle => q.stall > h.irq_wakeup
  <2>1. h.irq_wakeup \in Idle .. EU_WAKEUP_LATENCY
    BY <1>8 DEF Unit, Core_event_unit
  <2> QED BY <2>1, <1>12, ResumeAssumption
          DEF SlowRefill, Idle, EU_WAKEUP_LATENCY
<1> QED BY <1>5, <1>9, <1>10, <1>11, <1>12, <1>13 DEF Shape, Running

\* What the irq_req hook makes of a unit and of its core.
hooked(e, p) == p.parked /\ irq_enabled(p) /\ e.irq_req # NoIrq
unhooked(e, p) == IF hooked(e, p) THEN [e EXCEPT !.pending_req = "freed"] ELSE e
resumed(e, p) == IF hooked(e, p) THEN elw_irq_unstall(p) ELSE p

\* A unit and a core that fit each other wait for no hook.
LEMMA NoHook ==
  ASSUME NEW e, NEW p \in ElwCoreState, Shape(e, p)
  PROVE  unhooked(e, p) = e /\ resumed(e, p) = p
BY DEF hooked, unhooked, resumed, Shape, Running, Stuck, Asleep, IrqWaking,
   Elected, Gated, irq_enabled, ElwCoreState

\* The interrupt wake-up: the core abandons its read and runs, or has its
\* interrupts disabled and stays parked.
LEMMA IrqWakeupRuns ==
  ASSUME NEW e, NEW p \in ElwCoreState, Shape(e, p), e.irq_wakeup = 0
  PROVE  LET g == irq_wakeup_handler(e)
         IN  /\ Shape(unhooked(g, p), resumed(g, p))
             /\ unhooked(g, p).status = e.status
<1> DEFINE f == [e EXCEPT !.irq_wakeup = Idle, !.is_active = TRUE]
           g == check_state_delayed(f, 0)
<1>1. Running(e, p) \/ IrqWaking(e, p)
  BY DEF Shape, Stuck, Asleep, Elected, NoIrqComing, Idle
<1>2. e \in Unit /\ Idle \in Idle .. EU_WAKEUP_LATENCY /\ e.wakeup = Idle
  BY <1>1 DEF Running, IrqWaking, Active, Gated, Idle, EU_WAKEUP_LATENCY
<1>3. f \in Unit
  BY <1>2 DEF Unit, Core_event_unit
<1>4. /\ f.is_active = TRUE /\ f.wakeup = Idle /\ f.status = e.status
      /\ f.irq_mask = e.irq_mask /\ f.sync_irq = e.sync_irq
      /\ f.irq_req = e.irq_req /\ f.irq_wakeup = Idle
  BY <1>2 DEF Unit, Core_event_unit
<1>5. irq_wakeup_handler(e) = g
  BY DEF irq_wakeup_handler, check_state
<1> HIDE DEF f
<1>6. WireKnown(f)
  BY <1>1, <1>4 DEF Running, Active, IrqWaking, Gated, WireKnown, irq_masked
<1>7. /\ Active(g) /\ g.status = e.status /\ g.irq_wakeup = Idle
      /\ g.irq_mask = e.irq_mask
  BY <1>3, <1>4, <1>6, CheckActive
<1> HIDE DEF g
<1>8. CASE Running(e, p)
  <2>1. Shape(g, p)
    BY <1>7, <1>8 DEF Shape, Running
  <2> QED BY <1>5, <1>7, <2>1, NoHook
<1>9. CASE IrqWaking(e, p)
  <2>1. irq_masked(g) # {} /\ p.parked = TRUE /\ p.handler = FALSE
    BY <1>7, <1>9 DEF IrqWaking, IrqComing, Gated, irq_masked
  <2>2. g.irq_req # NoIrq
    BY <1>7, <2>1, IrqOf DEF Active
  <2>3. CASE p.mie = TRUE
    <3> DEFINE h == [g EXCEPT !.pending_req = "freed"]
               q == [p EXCEPT !.parked = FALSE, !.replay = TRUE, !.stall = 1]
    <3>1. hooked(g, p)
      BY <2>1, <2>2, <2>3 DEF hooked, irq_enabled
    <3>2. unhooked(g, p) = h /\ resumed(g, p) = q
      BY <3>1 DEF unhooked, resumed, elw_irq_unstall
    <3>3. h \in Unit
      BY <1>7 DEF Active, Unit, Core_event_unit, PendingReq
    <3>4. /\ h.is_active = TRUE /\ h.wakeup = Idle /\ h.status = g.status
          /\ h.irq_wakeup = Idle /\ h.sync_irq = g.sync_irq
          /\ h.irq_req = g.irq_req /\ h.irq_mask = g.irq_mask
      BY <1>7 DEF Active, Unit, Core_event_unit
    <3>5. q.parked = FALSE
      BY DEF ElwCoreState
    <3> HIDE DEF h, q
    <3>6. Active(h)
      BY <1>7, <3>3, <3>4 DEF Active, irq_of, irq_masked
    <3>7. Shape(h, q)
      BY <3>4, <3>5, <3>6, RunningOn
    <3> QED BY <1>5, <1>7, <3>2, <3>4, <3>7
  <2>4. CASE p.mie # TRUE
    <3>1. p.mie = FALSE
      BY <2>4 DEF ElwCoreState
    <3>2. Shape(g, p)
      BY <1>7, <2>1, <3>1 DEF Shape, Stuck
    <3> QED BY <1>5, <1>7, <3>2, NoHook
  <2> QED BY <2>3, <2>4
<1> QED BY <1>1, <1>8, <1>9

\* A cycle of a unit and its core.
LEMMA TickKeeps ==
  ASSUME NEW e, NEW p \in ElwCoreState, Shape(e, p), nothing_due(e)
  PROVE  Shape(tick(e), step_cycle(p)) /\ tick(e).status = e.status
<1> DEFINE w == IF e.wakeup > 0 THEN e.wakeup - 1 ELSE e.wakeup
           v == IF e.irq_wakeup > 0 THEN e.irq_wakeup - 1 ELSE e.irq_wakeup
           n == IF p.stall > 0 THEN p.stall - 1 ELSE 0
           f == [e EXCEPT !.wakeup = w, !.irq_wakeup = v]
           q == [p EXCEPT !.stall = n]
<1>1. tick(e) = f /\ step_cycle(p) = q
  BY DEF tick, step_cycle
<1>2. e \in Unit
  BY DEF Shape, Running, Stuck, Active, Asleep, IrqWaking, Elected, Gated
<1>3. /\ e.wakeup \in Idle .. 2 /\ e.irq_wakeup \in Idle .. EU_WAKEUP_LATENCY
      /\ e.wakeup # 0 /\ e.irq_wakeup # 0 /\ p.stall \in 0 .. ResumeCycles
  BY <1>2 DEF Unit, Core_event_unit, ElwCoreState, nothing_due
<1>4. /\ w \in Idle .. 2 /\ v \in Idle .. EU_WAKEUP_LATENCY
      /\ (e.wakeup = Idle => w = Idle) /\ (e.irq_wakeup = Idle => v = Idle)
      /\ (e.wakeup \in {0, 1} => w \in {0, 1})
      /\ (e.irq_wakeup # Idle => v \in 0 .. EU_WAKEUP_LATENCY /\ e.irq_wakeup # Idle)
      /\ (e.irq_wakeup > e.wakeup /\ e.wakeup \in {0, 1} => v > w)
      /\ (v # Idle /\ p.stall > e.irq_wakeup => n > v)
      /\ (v # Idle => e.irq_wakeup # Idle)
  BY <1>3, ResumeAssumption DEF Idle, EU_WAKEUP_LATENCY
<1> HIDE DEF w, v, n
<1>5. f \in Unit
  BY <1>2, <1>4 DEF Unit, Core_event_unit
<1>6. /\ f.wakeup = w /\ f.irq_wakeup = v /\ f.status = e.status
      /\ f.evt_mask = e.evt_mask /\ f.irq_mask = e.irq_mask
      /\ f.clear_evt_mask = e.clear_evt_mask /\ f.sync_irq = e.sync_irq
      /\ f.irq_req = e.irq_req /\ f.pending_elw = e.pending_elw
      /\ f.pending_req = e.pending_req
      /\ f.pending_req_is_wait = e.pending_req_is_wait
      /\ f.state = e.state /\ f.is_active = e.is_active
  BY <1>2 DEF Unit, Core_event_unit
<1>7. /\ q.stall = n /\ q.parked = p.parked /\ q.handler = p.handler
      /\ q.mie = p.mie /\ q.elw_insn = p.elw_insn
  BY DEF ElwCoreState
<1> HIDE DEF f, q
<1>8. irq_masked(f) = irq_masked(e) /\ evt_masked(f) = evt_masked(e)
      /\ irq_of(f) = irq_of(e)
  BY <1>6 DEF irq_masked, evt_masked, irq_of
<1>9. Running(e, p) => Running(f, q)
  BY <1>4, <1>5, <1>6, <1>7, <1>8 DEF Running, Active
<1>10. Stuck(e, p) => Stuck(f, q)
  BY <1>4, <1>5, <1>6, <1>7, <1>8 DEF Stuck, Active
<1>11. Gated(e, p) => Gated(f, q)
  BY <1>5, <1>6, <1>7, <1>8 DEF Gated, WireKnown
<1>12. NoIrqComing(e) => NoIrqComing(f)
  BY <1>4, <1>6 DEF NoIrqComing
<1>13. IrqComing(e) => IrqComing(f)
  <2>1. e.irq_wakeup \in 0 .. EU_WAKEUP_LATENCY => e.irq_wakeup # Idle
    BY DEF Idle
  <2> QED BY <1>4, <1>6, <1>8, <2>1 DEF IrqComing
<1>14. Asleep(e, p) => Asleep(f, q)
  BY <1>4, <1>6, <1>7, <1>8, <1>11, <1>12 DEF Asleep
<1>15. IrqWaking(e, p) => IrqWaking(f, q)
  BY <1>4, <1>6, <1>11, <1>13 DEF IrqWaking
<1>16. Elected(e, p) => Elected(f, q)
  BY <1>4, <1>6, <1>11, <1>12, <1>13 DEF Elected
<1> QED BY <1>1, <1>6, <1>9, <1>10, <1>14, <1>15, <1>16 DEF Shape

-----------------------------------------------------------------------------
(***************************************************************************)
(* The steps.  Each keeps the invariant, and accounts for the events that  *)
(* leave a buffer.                                                         *)
(***************************************************************************)
Port == {"null", "in", "demux_in"}

Accounted(c) ==
    \A ev \in eu[c].status \ eu'[c].status :
        \/ ev \in eu'[c].data
        \/ ev \in LeftBySkip(c)
        \/ TakeIrq(c) \/ BufferClear(c) \/ RemoteAccess(c)

Kept == IInv' /\ \A c \in Core : Accounted(c)

\* A shape is one of units.
LEMMA ShapeUnit ==
  ASSUME NEW e, NEW p, Shape(e, p)
  PROVE  e \in Unit
BY DEF Shape, Running, Stuck, Active, Asleep, IrqWaking, Elected, Gated

\* Units and cores that fit are left alone by the irq_req hooks.
LEMMA Settled ==
  ASSUME NEW E, NEW P, DOMAIN E = Core, E = [c \in Core |-> E[c]],
         P \in [Core -> ElwCoreState],
         \A c \in Core : Shape(E[c], P[c]), Becomes(E, P),
         resp_port' \in [Core -> Port]
  PROVE  IInv' /\ eu' = E /\ cpu' = P
<1>1. ASSUME NEW c \in Core
      PROVE  SettledUnits(E, P)[c] = E[c] /\ SettledCores(E, P)[c] = P[c]
  <2>1. unhooked(E[c], P[c]) = E[c] /\ resumed(E[c], P[c]) = P[c]
    BY NoHook
  <2> QED BY <2>1 DEF SettledUnits, SettledCores, unhooked, resumed, hooked,
                      irq_req_hook
<1>2. SettledUnits(E, P) = [c \in Core |-> SettledUnits(E, P)[c]]
  BY DEF SettledUnits
<1>3. SettledCores(E, P) = [c \in Core |-> SettledCores(E, P)[c]]
  BY DEF SettledCores
<1> DEFINE SU == SettledUnits(E, P)
           SC == SettledCores(E, P)
<1>4. eu' = SU /\ cpu' = SC
  BY DEF Becomes
<1> HIDE DEF SU, SC
<1>5. SU = E /\ SC = P
  BY <1>1, <1>2, <1>3 DEF SU, SC
<1>6. \A c \in Core : E[c] \in Unit
  BY ShapeUnit
<1>7. E \in [Core -> Unit]
  BY <1>6
<1> QED BY <1>4, <1>5, <1>7 DEF IInv, TypeOK, Unit, Port

\* A call that changes one unit and its core.
LEMMA OneCore ==
  ASSUME IInv, NEW c \in Core, NEW u, NEW q \in ElwCoreState, Shape(u, q),
         Becomes([eu EXCEPT ![c] = u], [cpu EXCEPT ![c] = q]),
         resp_port' \in [Core -> Port]
  PROVE  /\ IInv' /\ eu'[c] = u
         /\ \A d \in Core \ {c} : Accounted(d)
<1> DEFINE E == [eu EXCEPT ![c] = u]
           P == [cpu EXCEPT ![c] = q]
<1>1. eu \in [Core -> Unit] /\ cpu \in [Core -> ElwCoreState]
      /\ \A d \in Core : Shape(eu[d], cpu[d])
  BY DEF IInv, TypeOK, Unit
<1>2. /\ DOMAIN E = Core /\ E = [d \in Core |-> E[d]]
      /\ P \in [Core -> ElwCoreState]
      /\ E[c] = u /\ P[c] = q
      /\ \A d \in Core \ {c} : E[d] = eu[d] /\ P[d] = cpu[d]
  BY <1>1
<1> HIDE DEF E, P
<1>3. \A d \in Core : Shape(E[d], P[d])
  BY <1>1, <1>2
<1>4. Becomes(E, P)
  BY DEF E, P
<1>5. IInv' /\ eu' = E /\ cpu' = P
  BY <1>2, <1>3, <1>4, Settled
<1>6. \A d \in Core \ {c} : eu'[d].status = eu[d].status
  BY <1>2, <1>5
<1> QED BY <1>2, <1>5, <1>6 DEF Accounted

\* The same when its buffer keeps its events.
LEMMA OneCoreKept ==
  ASSUME IInv, NEW c \in Core, NEW u, NEW q \in ElwCoreState, Shape(u, q),
         Becomes([eu EXCEPT ![c] = u], [cpu EXCEPT ![c] = q]),
         resp_port' \in [Core -> Port], eu[c].status \subseteq u.status
  PROVE  Kept
<1>1. /\ IInv' /\ eu'[c] = u
      /\ \A d \in Core \ {c} : Accounted(d)
  BY OneCore
<1>2. Accounted(c)
  BY <1>1 DEF Accounted
<1> QED BY <1>1, <1>2 DEF Kept

\* The answer port of a unit.
LEMMA PortType ==
  ASSUME IInv, NEW c \in Core
  PROVE  /\ resp_port \in [Core -> Port]
         /\ [resp_port EXCEPT ![c] = "demux_in"] \in [Core -> Port]
         /\ [resp_port EXCEPT ![c] = "in"] \in [Core -> Port]
BY DEF IInv, TypeOK, Port

\* What a read that is parked makes of a core.
LEMMA ParkedType ==
  ASSUME NEW p \in ElwCoreState, NEW insn \in Elw
  PROVE  elw_parked(p, insn) \in ElwCoreState
BY DEF elw_parked, ElwCoreState

\* The other changes of a core.
LEMMA CoreSteps ==
  ASSUME NEW p \in ElwCoreState
  PROVE  /\ elw_done(p) \in ElwCoreState /\ elw_done(p).parked = p.parked
         /\ issued(p) \in ElwCoreState /\ issued(p).parked = p.parked
         /\ take_irq(p) \in ElwCoreState /\ take_irq(p).parked = p.parked
         /\ mret(p) \in ElwCoreState /\ mret(p).parked = p.parked
         /\ elw_irq_unstall(p) \in ElwCoreState
         /\ elw_wake(p) \in ElwCoreState
         /\ step_cycle(p) \in ElwCoreState
<1>1. 1 \in 0 .. ResumeCycles /\ ResumeCycles \in 0 .. ResumeCycles
      /\ p.stall \in 0 .. ResumeCycles
  BY ResumeAssumption DEF ElwCoreState
<1>2. (IF p.stall > 0 THEN p.stall - 1 ELSE 0) \in 0 .. ResumeCycles
  BY <1>1, ResumeAssumption
<1>3. NoInsn \in Elw \cup {NoInsn}
  OBVIOUS
<1>4. elw_done(p) \in ElwCoreState /\ elw_done(p).parked = p.parked
  BY <1>1, <1>3 DEF elw_done, ElwCoreState
<1>5. /\ issued(p) \in ElwCoreState /\ issued(p).parked = p.parked
      /\ take_irq(p) \in ElwCoreState /\ take_irq(p).parked = p.parked
      /\ mret(p) \in ElwCoreState /\ mret(p).parked = p.parked
  BY <1>1 DEF issued, take_irq, mret, ElwCoreState
<1>6. elw_irq_unstall(p) \in ElwCoreState /\ elw_wake(p) \in ElwCoreState
  BY <1>1, <1>3 DEF elw_irq_unstall, elw_wake, ElwCoreState
<1>7. step_cycle(p) \in ElwCoreState
  BY <1>2 DEF step_cycle, ElwCoreState
<1> QED BY <1>4, <1>5, <1>6, <1>7

\* The invariant, for one core.
LEMMA CoreInv ==
  ASSUME IInv, NEW c \in Core
  PROVE  eu[c] \in Unit /\ cpu[c] \in ElwCoreState /\ Shape(eu[c], cpu[c])
BY DEF IInv, TypeOK, Unit

\* A wait read.
LEMMA WaitStep ==
  ASSUME IInv, NEW c \in Core, NEW insn \in Elw, Wait(c, insn)
  PROVE  Kept
<1> DEFINE e == demux_enter(eu[c])
           w == wait_armed(e, insn)
           p == cpu[c]
<1>1. p \in ElwCoreState /\ Shape(eu[c], p)
  BY CoreInv
<1>2. CanIssue(p, eu[c]) /\ p.handler = FALSE
  BY <1>1 DEF Wait, CanIssueElw, ElwCoreState
<1>3. /\ Active(eu[c]) /\ p.parked = FALSE /\ eu[c].irq_wakeup = Idle
      /\ p.mie = TRUE => eu[c].irq_req = NoIrq
  BY <1>1, <1>2, Issues
<1>4. Active(e) /\ e.irq_wakeup = Idle /\ e.status = eu[c].status
      /\ e.evt_mask = eu[c].evt_mask
  BY <1>3, EnterActive
<1>5. /\ Active(w) /\ w.irq_wakeup = Idle /\ w.status = eu[c].status
      /\ w.evt_mask = eu[c].evt_mask /\ w.irq_req = eu[c].irq_req
      /\ w.pending_elw = FALSE /\ w.pending_req_is_wait = TRUE
      /\ w.clear_evt_mask = IF insn = "wait_clear" THEN eu[c].evt_mask
                            ELSE eu[c].clear_evt_mask
  <2> DEFINE x == eu[c]
             v == wait_armed(demux_enter(x), insn)
  <2> HIDE DEF x
  <2>1. /\ Active(v) /\ v.irq_wakeup = x.irq_wakeup
        /\ v.status = x.status /\ v.evt_mask = x.evt_mask
        /\ v.irq_req = x.irq_req /\ v.pending_elw = FALSE
        /\ v.pending_req_is_wait = TRUE
        /\ v.clear_evt_mask = IF insn = "wait_clear" THEN x.evt_mask
                              ELSE x.clear_evt_mask
    <3>1. Active(x)
      BY <1>3 DEF x
    <3> QED BY <3>1, WaitArmed
  <2> HIDE DEF v
  <2>2. w = v /\ x.irq_wakeup = Idle
    BY <1>3 DEF v, x
  <2> HIDE DEF w, e
  <2> QED BY <2>1, <2>2 DEF x
<1>6. resp_port' \in [Core -> Port]
  BY PortType DEF Wait
<1>7. elw_done(p) \in ElwCoreState /\ elw_done(p).parked = FALSE
  BY <1>1, <1>3, CoreSteps
<1>8. CASE Becomes([eu EXCEPT ![c] = e], [cpu EXCEPT ![c] = elw_done(p)])
  <2>1. Shape(e, elw_done(p))
    BY <1>4, <1>7, RunningOn
  <2> HIDE DEF e
  <2> QED BY <1>4, <1>6, <1>7, <1>8, <2>1, OneCoreKept
<1>9. CASE Becomes([eu EXCEPT ![c] = wait_event_sync(w)],
                   [cpu EXCEPT ![c] = elw_done(p)])
  <2> HIDE DEF w, e
  <2> DEFINE g == wait_event_sync(w)
  <2>1. /\ Active(g) /\ g.irq_wakeup = Idle /\ g.data = evt_masked(w)
        /\ g.status = w.status \ w.clear_evt_mask
    BY <1>5, WaitDone
  <2>2. Shape(g, elw_done(p))
    BY <2>1, <1>7, RunningOn
  <2>3. Becomes([eu EXCEPT ![c] = g], [cpu EXCEPT ![c] = elw_done(p)])
    BY <1>9
  <2> HIDE DEF g
  <2>4. IInv' /\ eu'[c] = g /\ \A d \in Core \ {c} : Accounted(d)
    BY <1>6, <1>7, <2>2, <2>3, OneCore
  <2>5. Accounted(c)
    <3> SUFFICES ASSUME NEW ev \in eu[c].status \ eu'[c].status
                 PROVE  ev \in eu'[c].data \/ ev \in LeftBySkip(c)
      BY DEF Accounted
    <3>1. ev \in w.status /\ ev \in w.clear_evt_mask
      BY <1>5, <2>1, <2>4
    <3>2. CASE insn = "wait_clear"
      BY <1>5, <2>1, <2>4, <3>1, <3>2 DEF evt_masked
    <3>3. CASE insn # "wait_clear"
      <4>1. \E i \in Elw \ {"wait_clear"} : Wait(c, i)
        BY <3>3
      <4> QED BY <1>5, <3>1, <3>3, <4>1 DEF LeftBySkip
    <3> QED BY <3>2, <3>3
  <2> QED BY <2>4, <2>5 DEF Kept
<1>10. CASE /\ evt_masked(e) = {}
            /\ Becomes([eu EXCEPT ![c] = put_to_sleep(w, "WAITING_EVENT")],
                       [cpu EXCEPT ![c] = elw_parked(p, insn)])
  <2>1. evt_masked(w) = {}
    BY <1>4, <1>5, <1>10 DEF evt_masked
  <2> HIDE DEF w, e
  <2> DEFINE g == put_to_sleep(w, "WAITING_EVENT")
             q == elw_parked(p, insn)
  <2>2. insn = "wait_clear" => w.clear_evt_mask = w.evt_mask
    BY <1>5
  <2>3. p.mie = TRUE => w.irq_req = NoIrq
    BY <1>3, <1>5
  <2>4. Asleep(g, q)
    BY <1>1, <1>2, <1>5, <2>1, <2>2, <2>3, WaitSleeps
  <2>5. g.status = w.status
    BY <1>5 DEF put_to_sleep, Active, Unit, Core_event_unit
  <2>6. q \in ElwCoreState
    BY <1>1, ParkedType
  <2>7. Becomes([eu EXCEPT ![c] = g], [cpu EXCEPT ![c] = q])
    BY <1>10
  <2> HIDE DEF g, q
  <2>8. Shape(g, q)
    BY <2>4 DEF Shape
  <2> QED BY <1>5, <1>6, <2>5, <2>6, <2>7, <2>8, OneCoreKept
<1> QED BY <1>8, <1>9, <1>10 DEF Wait

\* A write of a core to its own unit.
LEMMA OwnWriteStep ==
  ASSUME IInv, NEW c \in Core, NEW u, OwnWrite(c, u),
         Active(eu[c]) => Active(u) /\ u.irq_wakeup = eu[c].irq_wakeup
  PROVE  /\ IInv' /\ \A d \in Core \ {c} : Accounted(d)
         /\ eu'[c].status = eu[c].status \/ eu'[c] = u
<1> DEFINE p == cpu[c]
           g == IF skips(eu[c]) THEN demux_enter(eu[c]) ELSE u
<1>1. p \in ElwCoreState /\ Shape(eu[c], p)
  BY CoreInv
<1>2. CanIssue(p, eu[c])
  BY DEF OwnWrite, CanIssueOther
<1>3. Active(eu[c]) /\ p.parked = FALSE /\ eu[c].irq_wakeup = Idle
  BY <1>1, <1>2, Issues
<1>4. Active(demux_enter(eu[c])) /\ demux_enter(eu[c]).irq_wakeup = Idle
      /\ demux_enter(eu[c]).status = eu[c].status
  BY <1>3, EnterActive
<1>5. Active(g) /\ g.irq_wakeup = Idle /\ (g.status = eu[c].status \/ g = u)
  BY <1>3, <1>4
<1>6. issued(p) \in ElwCoreState /\ issued(p).parked = FALSE
  BY <1>1, <1>3, CoreSteps
<1>7. Shape(g, issued(p))
  BY <1>5, <1>6, RunningOn
<1>8. Becomes([eu EXCEPT ![c] = g], [cpu EXCEPT ![c] = issued(p)])
      /\ resp_port' \in [Core -> Port]
  BY PortType DEF OwnWrite
<1> HIDE DEF g
<1>9. IInv' /\ eu'[c] = g /\ \A d \in Core \ {c} : Accounted(d)
  BY <1>6, <1>7, <1>8, OneCore
<1> QED BY <1>5, <1>9

\* A write of a mask.
LEMMA SetMaskStep ==
  ASSUME IInv, NEW c \in Core, SetEvtMask(c) \/ SetIrqMask(c)
  PROVE  Kept
<1> DEFINE e == demux_enter(eu[c])
<1>0. Active(eu[c]) => /\ Active(e) /\ e.irq_wakeup = eu[c].irq_wakeup
                       /\ e.status = eu[c].status
  BY EnterActive
<1>3. ASSUME NEW u, OwnWrite(c, u),
             Active(eu[c]) => /\ Active(u) /\ u.irq_wakeup = eu[c].irq_wakeup
                              /\ u.status = eu[c].status
      PROVE  Kept
  <2>1. /\ IInv' /\ \A d \in Core \ {c} : Accounted(d)
        /\ eu'[c].status = eu[c].status \/ eu'[c] = u
    BY <1>3, OwnWriteStep
  <2>2. Active(eu[c])
    BY <1>3, CoreInv, Issues DEF OwnWrite, CanIssueOther
  <2>3. Accounted(c)
    BY <1>3, <2>1, <2>2 DEF Accounted
  <2> QED BY <2>1, <2>3 DEF Kept
<1> HIDE DEF e
<1>1. CASE SetEvtMask(c)
  <2>1. PICK m \in EvtMasks : OwnWrite(c, write_evt_mask(e, m))
    BY <1>1 DEF SetEvtMask, e
  <2>2. m \in SUBSET Event
    BY EventWaitAssumption
  <2> DEFINE u == write_evt_mask(e, m)
  <2>3. Active(e) => /\ Active(u) /\ u.irq_wakeup = e.irq_wakeup
                     /\ u.status = e.status
    BY <2>2, WriteEvtMask
  <2>4. OwnWrite(c, u)
    BY <2>1
  <2> HIDE DEF u
  <2> QED BY <1>0, <2>3, <2>4, <1>3
<1>2. CASE SetIrqMask(c)
  <2>1. PICK m \in IrqMasks : OwnWrite(c, write_irq_mask(e, m))
    BY <1>2 DEF SetIrqMask, e
  <2>2. m \in SUBSET Event
    BY EventWaitAssumption
  <2> DEFINE u == write_irq_mask(e, m)
  <2>3. Active(e) => /\ Active(u) /\ u.irq_wakeup = e.irq_wakeup
                     /\ u.status = e.status
    BY <2>2, WriteIrqMask
  <2>4. OwnWrite(c, u)
    BY <2>1
  <2> HIDE DEF u
  <2> QED BY <1>0, <2>3, <2>4, <1>3
<1> QED BY <1>1, <1>2

\* A write that clears events of the core's own buffer.
LEMMA BufferClearStep ==
  ASSUME IInv, NEW c \in Core, BufferClear(c)
  PROVE  Kept
<1> DEFINE e == demux_enter(eu[c])
<1>0. Active(eu[c]) => Active(e) /\ e.irq_wakeup = eu[c].irq_wakeup
  BY EnterActive
<1>1. PICK m \in SUBSET Event \ {{}} : OwnWrite(c, buffer_clear(e, m))
  BY DEF BufferClear
<1> DEFINE u == buffer_clear(e, m)
<1> HIDE DEF e
<1>2. Active(e) => Active(u) /\ u.irq_wakeup = e.irq_wakeup
  BY <1>1, ClearBuffer
<1>3. OwnWrite(c, u)
  BY <1>1
<1> HIDE DEF u
<1>4. IInv' /\ \A d \in Core \ {c} : Accounted(d)
  BY <1>0, <1>2, <1>3, OwnWriteStep
<1>5. Accounted(c)
  BY DEF Accounted
<1> QED BY <1>4, <1>5 DEF Kept

\* A software event.
LEMMA TriggerStep ==
  ASSUME IInv, NEW c \in Core, TriggerSwEvent(c)
  PROVE  Kept
<1>1. PICK ev \in TriggerEvents, targets \in SUBSET Core :
        /\ CanIssueOther(cpu[c], eu[c])
        /\ resp_port' = [resp_port EXCEPT ![c] = "demux_in"]
        /\ LET E == [eu EXCEPT ![c] = demux_enter(@)]
           IN  Becomes(IF skips(eu[c]) THEN E
                       ELSE trigger_event(E, {ev}, targets, 0),
                       [cpu EXCEPT ![c] = issued(@)])
  BY DEF TriggerSwEvent
<1> DEFINE p == cpu[c]
           P == [cpu EXCEPT ![c] = issued(p)]
           d == demux_enter(eu[c])
           E == [eu EXCEPT ![c] = d]
           F == trigger_event(E, {ev}, targets, 0)
<1>2. p \in ElwCoreState /\ Shape(eu[c], p) /\ CanIssue(p, eu[c])
  BY <1>1, CoreInv DEF CanIssueOther
<1>3. Active(eu[c]) /\ p.parked = FALSE /\ eu[c].irq_wakeup = Idle
  BY <1>2, Issues
<1>4. Active(d) /\ d.irq_wakeup = Idle /\ d.status = eu[c].status
  BY <1>3, EnterActive
<1>5. issued(p) \in ElwCoreState /\ issued(p).parked = FALSE
  BY <1>2, <1>3, CoreSteps
<1>6. Shape(d, issued(p))
  BY <1>4, <1>5, RunningOn
<1>7. resp_port' \in [Core -> Port]
  BY <1>1, PortType
<1>8. CASE skips(eu[c])
  <2>1. Becomes(E, P)
    BY <1>1, <1>8
  <2> HIDE DEF d
  <2> QED BY <1>4, <1>5, <1>6, <1>7, <2>1, OneCoreKept
<1>9. CASE ~skips(eu[c])
  <2>1. Becomes(F, P)
    BY <1>1, <1>9
  <2> HIDE DEF d
  <2>2. /\ \A b \in Core : Shape(E[b], P[b]) /\ E[b].status = eu[b].status
        /\ \A b \in Core \ {c} : E[b] = eu[b] /\ P[b] = cpu[b]
        /\ P[c].parked = FALSE /\ P \in [Core -> ElwCoreState]
    BY <1>4, <1>5, <1>6 DEF IInv, TypeOK
  <2> HIDE DEF E, P
  <2>3. F = [b \in Core |-> IF targets = {} \/ b \in targets
                            THEN send_event(E[b], {ev}, 0) ELSE E[b]]
    BY DEF trigger_event
  <2>4. {ev} \in SUBSET Event
    BY EventWaitAssumption
  <2>5. ASSUME NEW b \in Core
        PROVE  /\ Shape(F[b], P[b])
               /\ \A x \in E[b].status \ F[b].status :
                    \/ x \in F[b].data
                    \/ /\ P[b].parked = TRUE /\ P[b].elw_insn # "wait_clear"
                       /\ x \in E[b].clear_evt_mask
    <3> DEFINE g == send_event(E[b], {ev}, 0)
    <3>1. /\ Shape(g, P[b])
          /\ \A x \in E[b].status \ g.status :
               \/ x \in g.data
               \/ /\ P[b].parked = TRUE /\ P[b].elw_insn # "wait_clear"
                  /\ x \in E[b].clear_evt_mask
      BY <2>2, <2>4, SendKeeps
    <3> HIDE DEF g
    <3>2. F[b] = g \/ F[b] = E[b]
      BY <2>3 DEF g
    <3> QED BY <3>1, <3>2, <2>2
  <2>6. DOMAIN F = Core /\ F = [b \in Core |-> F[b]]
    BY <2>3
  <2> HIDE DEF F
  <2>7. IInv' /\ eu' = F
    BY <2>1, <2>2, <2>5, <2>6, <1>7, Settled
  <2>8. ASSUME NEW b \in Core PROVE Accounted(b)
    <3> SUFFICES ASSUME NEW x \in eu[b].status \ eu'[b].status
                 PROVE  x \in eu'[b].data \/ x \in LeftBySkip(b)
      BY DEF Accounted
    <3>1. \/ x \in F[b].data
          \/ /\ P[b].parked = TRUE /\ P[b].elw_insn # "wait_clear"
             /\ x \in E[b].clear_evt_mask
      BY <2>2, <2>5, <2>7
    <3>2. P[b].parked = TRUE => P[b] = cpu[b] /\ E[b] = eu[b]
      BY <2>2
    <3> QED BY <3>1, <3>2, <2>7 DEF LeftBySkip
  <2> QED BY <2>7, <2>8 DEF Kept
<1> QED BY <1>8, <1>9

\* An access through the shared port.
LEMMA RemoteStep ==
  ASSUME IInv, NEW c \in Core, RemoteAccess(c)
  PROVE  Kept
<1> DEFINE p == cpu[c]
<1>1. p \in ElwCoreState /\ Shape(eu[c], p) /\ p.parked = FALSE
  BY CoreInv DEF RemoteAccess, ElwCoreState
<1>2. Running(eu[c], p)
  BY <1>1 DEF Shape, Stuck, Asleep, IrqWaking, Elected, Gated
<1>3. Active(eu[c])
  BY <1>2 DEF Running
<1>4. PICK u \in {write_evt_mask(eu[c], m) : m \in EvtMasks}
                   \cup {buffer_clear(eu[c], m) : m \in SUBSET Event} :
        Becomes([eu EXCEPT ![c] = u], cpu)
  BY DEF RemoteAccess
<1>5. Active(u) /\ u.irq_wakeup = eu[c].irq_wakeup
  <2>1. CASE \E m \in EvtMasks : u = write_evt_mask(eu[c], m)
    BY <1>3, <2>1, WriteEvtMask, EventWaitAssumption
  <2>2. CASE \E m \in SUBSET Event : u = buffer_clear(eu[c], m)
    BY <1>3, <2>2, ClearBuffer
  <2> QED BY <1>4, <2>1, <2>2
<1>6. Shape(u, p)
  BY <1>2, <1>5 DEF Running, Shape
<1>7. cpu = [cpu EXCEPT ![c] = p]
  BY DEF IInv, TypeOK
<1>8. resp_port' \in [Core -> Port]
  BY PortType DEF RemoteAccess
<1>9. IInv' /\ \A d \in Core \ {c} : Accounted(d)
  <2>1. Becomes([eu EXCEPT ![c] = u], [cpu EXCEPT ![c] = p])
    BY <1>4, <1>7
  <2> QED BY <1>1, <1>6, <1>8, <2>1, OneCore
<1>10. Accounted(c)
  BY DEF Accounted
<1> QED BY <1>9, <1>10 DEF Kept

\* An event of a peripheral.
LEMMA InEventStep ==
  ASSUME IInv, NEW c \in Core, InEvent(c)
  PROVE  Kept
<1>1. PICK ev \in InEvents :
        /\ Becomes([eu EXCEPT ![c] = send_event(@, {ev}, 0)], cpu)
        /\ UNCHANGED resp_port
  BY DEF InEvent
<1> DEFINE p == cpu[c]
           g == send_event(eu[c], {ev}, 0)
<1>2. p \in ElwCoreState /\ Shape(eu[c], p)
  BY CoreInv
<1>3. {ev} \in SUBSET Event
  BY EventWaitAssumption
<1>4. /\ Shape(g, p)
      /\ \A x \in eu[c].status \ g.status :
           \/ x \in g.data
           \/ /\ p.parked = TRUE /\ p.elw_insn # "wait_clear"
              /\ x \in eu[c].clear_evt_mask
  BY <1>2, <1>3, SendKeeps
<1>5. Becomes([eu EXCEPT ![c] = g], [cpu EXCEPT ![c] = p])
  <2>1. cpu = [cpu EXCEPT ![c] = p]
    BY DEF IInv, TypeOK
  <2> QED BY <1>1, <2>1
<1>6. resp_port' \in [Core -> Port]
  BY <1>1, PortType
<1> HIDE DEF g
<1>7. IInv' /\ eu'[c] = g /\ \A d \in Core \ {c} : Accounted(d)
  BY <1>2, <1>4, <1>5, <1>6, OneCore
<1>8. Accounted(c)
  BY <1>4, <1>7 DEF Accounted, LeftBySkip
<1> QED BY <1>7, <1>8 DEF Kept

\* A core takes an interrupt.
LEMMA TakeIrqStep ==
  ASSUME IInv, NEW c \in Core, TakeIrq(c)
  PROVE  Kept
<1> DEFINE p == cpu[c]
           g == acknowledged(eu[c])
           q == take_irq(p)
<1>1. p \in ElwCoreState /\ Shape(eu[c], p) /\ p.parked = FALSE /\ p.stall = 0
  BY CoreInv DEF TakeIrq, TakesIrq, ElwCoreState
<1>2. Running(eu[c], p)
  BY <1>1 DEF Shape, Stuck, Asleep, IrqWaking, Elected, Gated
<1>3. Active(eu[c]) /\ eu[c].irq_wakeup = Idle
  <2>1. eu[c].irq_wakeup \in Idle .. EU_WAKEUP_LATENCY
    BY <1>2 DEF Running, Active, Unit, Core_event_unit
  <2> QED BY <1>1, <1>2, <2>1 DEF Running, Idle, EU_WAKEUP_LATENCY
<1>4. Active(g) /\ g.irq_wakeup = Idle
  BY <1>3, Acknowledges
<1>5. q \in ElwCoreState /\ q.parked = FALSE
  BY <1>1, CoreSteps
<1>6. Becomes([eu EXCEPT ![c] = g], [cpu EXCEPT ![c] = q])
      /\ resp_port' \in [Core -> Port]
  BY PortType DEF TakeIrq
<1> HIDE DEF g, q
<1>7. Shape(g, q)
  BY <1>4, <1>5, RunningOn
<1>8. IInv' /\ \A d \in Core \ {c} : Accounted(d)
  BY <1>5, <1>6, <1>7, OneCore
<1>9. Accounted(c)
  BY DEF Accounted
<1> QED BY <1>8, <1>9 DEF Kept

\* A core returns from its handler, or enables or disables interrupts.
LEMMA CoreOnlyStep ==
  ASSUME IInv, NEW c \in Core, Mret(c) \/ ToggleMie(c)
  PROVE  Kept
<1> DEFINE p == cpu[c]
           q == cpu'[c]
<1>1. p \in ElwCoreState /\ Shape(eu[c], p) /\ CanIssue(p, eu[c])
  BY CoreInv DEF Mret, ToggleMie, CanIssueOther
<1>2. Active(eu[c]) /\ p.parked = FALSE /\ eu[c].irq_wakeup = Idle
  BY <1>1, Issues
<1>3. /\ UNCHANGED <<eu, resp_port>> /\ q \in ElwCoreState /\ q.parked = FALSE
      /\ cpu' = [cpu EXCEPT ![c] = q]
  <2>1. cpu \in [Core -> ElwCoreState]
    BY DEF IInv, TypeOK
  <2>2. CASE Mret(c)
    <3>1. cpu' = [cpu EXCEPT ![c] = mret(p)] /\ UNCHANGED <<eu, resp_port>>
      BY <2>2 DEF Mret
    <3>2. q = mret(p)
      BY <2>1, <3>1
    <3>3. mret(p) \in ElwCoreState /\ mret(p).parked = FALSE
      BY <1>1, <1>2, CoreSteps
    <3> QED BY <3>1, <3>2, <3>3
  <2>3. CASE ToggleMie(c)
    <3> DEFINE r == [p EXCEPT !.mie = ~p.mie, !.stall = 1]
    <3>1. cpu' = [cpu EXCEPT ![c] = r] /\ UNCHANGED <<eu, resp_port>>
      BY <2>1, <2>3 DEF ToggleMie, ElwCoreState
    <3>2. 1 \in 0 .. ResumeCycles
      BY ResumeAssumption
    <3>5. (~p.mie) \in BOOLEAN
      OBVIOUS
    <3>3. r \in ElwCoreState /\ r.parked = FALSE
      BY <1>1, <1>2, <3>2, <3>5 DEF ElwCoreState
    <3> HIDE DEF r
    <3>4. q = r
      BY <2>1, <3>1
    <3> QED BY <3>1, <3>3, <3>4
  <2> QED BY <2>2, <2>3
<1> HIDE DEF q
<1>4. Shape(eu[c], q)
  BY <1>2, <1>3, RunningOn
<1>5. IInv'
  BY <1>3, <1>4 DEF IInv, TypeOK
<1>6. \A d \in Core : Accounted(d)
  BY <1>3 DEF Accounted
<1> QED BY <1>5, <1>6 DEF Kept

\* The answer of a read.
LEMMA WakeupStep ==
  ASSUME SlowRefill, IInv, NEW c \in Core, Wakeup(c)
  PROVE  Kept
<1> DEFINE p == cpu[c]
           g == answered(eu[c])
           q == retired(p, eu[c])
<1>1. p \in ElwCoreState /\ Shape(eu[c], p) /\ eu[c].wakeup = 0
  BY CoreInv DEF Wakeup
<1>2. Shape(g, q) /\ g.status = eu[c].status
  BY <1>1, AnswerRuns
<1>3. q \in ElwCoreState
  BY <1>1, CoreSteps DEF retired
<1>4. Becomes([eu EXCEPT ![c] = g], [cpu EXCEPT ![c] = q])
      /\ resp_port' \in [Core -> Port]
  BY PortType DEF Wakeup
<1> HIDE DEF g, q
<1> QED BY <1>2, <1>3, <1>4, OneCoreKept

\* The end of an interrupt wake-up.
LEMMA IrqWakeupStep ==
  ASSUME IInv, NEW c \in Core, IrqWakeup(c)
  PROVE  Kept
<1> DEFINE p == cpu[c]
           g == irq_wakeup_handler(eu[c])
           h == unhooked(g, p)
           q == resumed(g, p)
           E == [eu EXCEPT ![c] = g]
<1>1. p \in ElwCoreState /\ Shape(eu[c], p) /\ eu[c].irq_wakeup = 0
  BY CoreInv DEF IrqWakeup
<1>2. Shape(h, q) /\ h.status = eu[c].status
  BY <1>1, IrqWakeupRuns
<1>3. q \in ElwCoreState
  BY <1>1, CoreSteps DEF resumed
<1>4. Becomes(E, cpu) /\ resp_port' = resp_port
  BY DEF IrqWakeup
<1> HIDE DEF g
<1>5. /\ eu \in [Core -> Unit] /\ cpu \in [Core -> ElwCoreState]
      /\ \A d \in Core : Shape(eu[d], cpu[d])
  BY DEF IInv, TypeOK, Unit
<1>6. eu'[c] = h /\ cpu'[c] = q
  BY <1>4, <1>5 DEF Becomes, SettledUnits, SettledCores, irq_req_hook,
                    unhooked, resumed, hooked
<1>7. \A d \in Core \ {c} : eu'[d] = eu[d] /\ cpu'[d] = cpu[d]
  <2> TAKE d \in Core \ {c}
  <2>1. unhooked(eu[d], cpu[d]) = eu[d] /\ resumed(eu[d], cpu[d]) = cpu[d]
    BY <1>5, NoHook
  <2>2. eu'[d] = unhooked(eu[d], cpu[d]) /\ cpu'[d] = resumed(eu[d], cpu[d])
    BY <1>4, <1>5 DEF Becomes, SettledUnits, SettledCores, irq_req_hook,
                      unhooked, resumed, hooked
  <2> QED BY <2>1, <2>2
<1>8. /\ DOMAIN eu' = Core /\ eu' = [d \in Core |-> eu'[d]]
      /\ DOMAIN cpu' = Core /\ cpu' = [d \in Core |-> cpu'[d]]
  BY <1>4 DEF Becomes, SettledUnits, SettledCores
<1> HIDE DEF h, q
<1>9. \A d \in Core : /\ Shape(eu'[d], cpu'[d]) /\ cpu'[d] \in ElwCoreState
                      /\ eu'[d].status = eu[d].status
  BY <1>2, <1>3, <1>5, <1>6, <1>7
<1>10. eu' \in [Core -> Unit] /\ cpu' \in [Core -> ElwCoreState]
  <2>1. \A d \in Core : eu'[d] \in Unit
    BY <1>9, ShapeUnit
  <2> QED BY <1>8, <1>9, <2>1
<1>11. IInv'
  BY <1>4, <1>9, <1>10 DEF IInv, TypeOK, Unit
<1>12. \A d \in Core : Accounted(d)
  BY <1>9 DEF Accounted
<1> QED BY <1>11, <1>12 DEF Kept

\* A cycle passes.
LEMMA TickStep ==
  ASSUME IInv, Tick
  PROVE  Kept
<1>1. ASSUME NEW d \in Core
      PROVE  /\ Shape(eu'[d], cpu'[d]) /\ eu'[d] \in Unit
             /\ cpu'[d] \in ElwCoreState /\ eu'[d].status = eu[d].status
  <2>1. nothing_due(eu[d]) /\ eu'[d] = tick(eu[d])
        /\ cpu'[d] = step_cycle(cpu[d])
    BY DEF Tick
  <2>2. cpu[d] \in ElwCoreState /\ Shape(eu[d], cpu[d])
    BY CoreInv
  <2>3. Shape(tick(eu[d]), step_cycle(cpu[d])) /\ tick(eu[d]).status = eu[d].status
    BY <2>1, <2>2, TickKeeps
  <2>4. step_cycle(cpu[d]) \in ElwCoreState /\ tick(eu[d]) \in Unit
    BY <2>2, <2>3, CoreSteps, ShapeUnit
  <2> QED BY <2>1, <2>3, <2>4
<1>2. /\ DOMAIN eu' = Core /\ eu' = [d \in Core |-> eu'[d]]
      /\ DOMAIN cpu' = Core /\ cpu' = [d \in Core |-> cpu'[d]]
      /\ resp_port' = resp_port
  BY DEF Tick
<1>3. eu' \in [Core -> Unit] /\ cpu' \in [Core -> ElwCoreState]
  BY <1>1, <1>2
<1>4. IInv'
  BY <1>1, <1>2, <1>3 DEF IInv, TypeOK, Unit
<1>5. \A d \in Core : Accounted(d)
  BY <1>1 DEF Accounted
<1> QED BY <1>4, <1>5 DEF Kept

\* The initial state.
LEMMA InitIInv == Init => IInv
<1> SUFFICES ASSUME Init PROVE IInv
  OBVIOUS
<1> DEFINE r == Core_event_unit_reset
           p == ElwCoreReset
<1>1. r \in Unit
  <2>1. Idle \in Idle .. 2 /\ Idle \in Idle .. EU_WAKEUP_LATENCY
    BY DEF Idle, EU_WAKEUP_LATENCY
  <2>2. "NONE" \in Core_state /\ "null" \in PendingReq
    BY DEF Core_state, PendingReq
  <2> QED BY <2>1, <2>2 DEF Unit, Core_event_unit, Core_event_unit_reset
<1>2. p \in ElwCoreState
  BY ResumeAssumption DEF ElwCoreState, ElwCoreReset
<1>3. /\ r.is_active = TRUE /\ r.wakeup = Idle /\ r.irq_wakeup = Idle
      /\ r.sync_irq = NoIrq /\ r.irq_req = NoIrq /\ r.status = {}
      /\ p.parked = FALSE
  BY DEF Core_event_unit_reset, ElwCoreReset
<1> HIDE DEF r, p
<1>4. Active(r)
  BY <1>1, <1>3 DEF Active, irq_of, irq_masked
<1>5. Shape(r, p)
  BY <1>3, <1>4, RunningOn
<1>6. eu = [c \in Core |-> r] /\ cpu = [c \in Core |-> p]
  BY DEF Init, r, p
<1>7. resp_port \in [Core -> Port]
  BY DEF Init, Port
<1> QED BY <1>1, <1>2, <1>5, <1>6, <1>7 DEF IInv, TypeOK, Unit, Port

\* Every step keeps the invariant and accounts for the events.
LEMMA NextKept == SlowRefill /\ IInv /\ [Next]_vars => Kept
<1> SUFFICES ASSUME SlowRefill, IInv, [Next]_vars PROVE Kept
  OBVIOUS
<1>1. CASE Tick
  BY <1>1, TickStep
<1>2. ASSUME NEW c \in Core, NEW insn \in Elw, Wait(c, insn)
      PROVE  Kept
  BY <1>2, WaitStep
<1>3. ASSUME NEW c \in Core,
             \/ SetEvtMask(c) \/ SetIrqMask(c) \/ BufferClear(c)
             \/ TriggerSwEvent(c) \/ RemoteAccess(c)
      PROVE  Kept
  BY <1>3, SetMaskStep, BufferClearStep, TriggerStep, RemoteStep
<1>4. ASSUME NEW c \in Core,
             \/ InEvent(c) \/ TakeIrq(c) \/ Mret(c) \/ ToggleMie(c)
             \/ Wakeup(c) \/ IrqWakeup(c)
      PROVE  Kept
  BY <1>4, InEventStep, TakeIrqStep, CoreOnlyStep, WakeupStep, IrqWakeupStep
<1>5. CASE UNCHANGED vars
  <2>1. IInv'
    BY <1>5 DEF IInv, TypeOK, vars
  <2>2. \A c \in Core : Accounted(c)
    BY <1>5 DEF Accounted, vars
  <2> QED BY <2>1, <2>2 DEF Kept
<1> QED BY <1>1, <1>2, <1>3, <1>4, <1>5 DEF Next

-----------------------------------------------------------------------------
\* The invariant holds in every state, whatever cores, peripherals, software
\* and clock events do, as long as the refill outlasts an interrupt wake-up.
THEOREM Invariance ==
  ASSUME SlowRefill
  PROVE  Spec => []IInv
<1>1. IInv /\ [Next]_vars => IInv'
  BY NextKept DEF Kept
<1> QED BY <1>1, InitIInv, PTL DEF Spec

\* Type correctness of units and cores.
THEOREM TypeCorrect ==
  ASSUME SlowRefill
  PROVE  Spec => []TypeOK
<1>1. IInv => TypeOK
  BY DEF IInv
<1> QED BY <1>1, Invariance, PTL

\* The contract of ri5ky/lsu.cpp: an answer is on its way only to a core that
\* is still parked on the read it answers.
THEOREM OnlyParkedReadsAnswered ==
  ASSUME SlowRefill
  PROVE  Spec => []AnswersOnlyParkedReads
<1>1. IInv => AnswersOnlyParkedReads
  <2> SUFFICES ASSUME IInv, NEW c \in Core, eu[c].wakeup # Idle
               PROVE  cpu[c].parked /\ eu[c].pending_req = "live"
    BY DEF AnswersOnlyParkedReads
  <2>1. Shape(eu[c], cpu[c])
    BY DEF IInv
  <2>2. Elected(eu[c], cpu[c])
    BY <2>1 DEF Shape, Running, Stuck, Active, Asleep, IrqWaking
  <2> QED BY <2>2 DEF Elected, Gated
<1> QED BY <1>1, Invariance, PTL

\* check_state() loses no wake-up: a core that sleeps without being woken has no
\* event to wake for, interrupts enabled or not, unless it is Unheeded, and no
\* interrupt unless it has them disabled.
THEOREM NoWakeupLost ==
  ASSUME SlowRefill
  PROVE  Spec => []NoLostWakeup
<1>1. IInv => NoLostWakeup
  <2> SUFFICES ASSUME IInv, NEW c \in Core, cpu[c].parked = TRUE,
                      eu[c].wakeup = Idle, eu[c].irq_wakeup = Idle
               PROVE  /\ evt_masked(eu[c]) # {} => Unheeded(c)
                      /\ irq_masked(eu[c]) # {} => ~cpu[c].mie
    BY CoreInv DEF NoLostWakeup, ElwCoreState
  <2>1. Shape(eu[c], cpu[c]) /\ cpu[c].mie \in BOOLEAN
    BY CoreInv DEF ElwCoreState
  <2>2. Stuck(eu[c], cpu[c]) \/ Asleep(eu[c], cpu[c])
    BY <2>1 DEF Shape, Running, IrqWaking, IrqComing, Elected, Idle,
                EU_WAKEUP_LATENCY
  <2>3. CASE Stuck(eu[c], cpu[c])
    BY <2>3 DEF Stuck, Active, Unheeded
  <2>4. CASE Asleep(eu[c], cpu[c])
    BY <2>1, <2>4 DEF Asleep
  <2> QED BY <2>2, <2>3, <2>4
<1> QED BY <1>1, Invariance, PTL

\* No step drops an event unseen: what leaves a buffer was read, taken,
\* cleared, or was in the clear mask a skipped read had left behind.
THEOREM EventsAccounted ==
  ASSUME SlowRefill
  PROVE  Spec => NoEventDropped
<1>1. IInv /\ [Next]_vars =>
        [\A c \in Core : \A ev \in eu[c].status \ eu'[c].status :
            \/ ev \in eu'[c].data
            \/ ev \in LeftBySkip(c)
            \/ TakeIrq(c) \/ BufferClear(c) \/ RemoteAccess(c)]_vars
  BY NextKept DEF Kept, Accounted
<1> QED BY <1>1, Invariance, PTL DEF Spec, NoEventDropped

=============================================================================
