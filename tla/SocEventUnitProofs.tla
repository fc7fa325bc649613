------------------------- MODULE SocEventUnitProofs -------------------------
(***************************************************************************)
(* Proofs about the SoC-event FIFO of the event unit, for every size of    *)
(* the ring and every number of cores.                                     *)
(*                                                                         *)
(* The ring: its content is where head, tail and the count of free slots   *)
(* say, whatever the wrap-arounds.  The units: a core is awake, asleep on  *)
(* a wait read, or elected and about to be answered; while the ring holds  *)
(* something the FIFO event is in every buffer, so nobody is asleep.       *)
(***************************************************************************)
EXTENDS SocEventUnit, Integers, Sequences, FiniteSets,
        SequenceTheorems, FunctionTheorems, FiniteSetTheorems,
        WellFoundedInduction, TLAPS

-----------------------------------------------------------------------------
(***************************************************************************)
(* Queues that are split and joined.                                       *)
(***************************************************************************)

\* What is appended to the second part is appended to the whole.
LEMMA AppendToConcat ==
  ASSUME NEW S, NEW q \in Seq(S), NEW r \in Seq(S), NEW x \in S,
         NEW s, s = Append(r, x)
  PROVE  Append(q \o r, x) = q \o s
<1> DEFINE t == <<x>>
<1>1. t \in Seq(S) /\ q \o r \in Seq(S)
  BY ConcatProperties
<1>2. Append(q \o r, x) = (q \o r) \o t /\ s = r \o t
  BY <1>1, AppendIsConcat
<1> HIDE DEF t
<1> QED BY <1>1, <1>2, ConcatAssociative

\* A sequence is its head followed by its tail.
LEMMA HeadThenTail ==
  ASSUME NEW S, NEW q \in Seq(S), q # <<>>
  PROVE  q = <<Head(q)>> \o Tail(q)
<1> DEFINE h == <<Head(q)>>
           t == Tail(q)
<1>1. /\ Head(q) \in S /\ t \in Seq(S) /\ Len(t) = Len(q) - 1
      /\ \A i \in 1 .. Len(t) : t[i] = q[i + 1]
      /\ Len(q) \in Nat \ {0}
  BY HeadTailProperties, EmptySeq
<1>2. h \in Seq(S) /\ Len(h) = 1 /\ h[1] = q[1]
  BY <1>1
<1> HIDE DEF h, t
<1>3. /\ h \o t \in Seq(S) /\ Len(h \o t) = Len(h) + Len(t)
      /\ \A i \in 1 .. Len(h) + Len(t) : (h \o t)[i] =
            IF i <= Len(h) THEN h[i] ELSE t[i - Len(h)]
  BY <1>1, <1>2, ConcatProperties
<1>4. Len(h) + Len(t) = Len(q)
  BY <1>1, <1>2
<1>5. \A i \in 1 .. Len(q) : q[i] = (h \o t)[i]
  BY <1>1, <1>2, <1>3, <1>4
<1>6. q = h \o t
  BY <1>3, <1>4, <1>5, SeqEqual
<1> QED BY <1>6 DEF h, t

\* Moving the head of the second part to the end of the first leaves the
\* whole as it is.
LEMMA MoveHead ==
  ASSUME NEW S, NEW q \in Seq(S), NEW r \in Seq(S), r # <<>>
  PROVE  Append(q, Head(r)) \o Tail(r) = q \o r
<1> DEFINE h == <<Head(r)>>
<1>1. h \in Seq(S) /\ Tail(r) \in Seq(S) /\ Append(q, Head(r)) = q \o h
  BY HeadTailProperties, AppendIsConcat
<1>2. r = h \o Tail(r)
  BY HeadThenTail
<1> HIDE DEF h
<1>3. (q \o h) \o Tail(r) = q \o (h \o Tail(r))
  BY <1>1, ConcatAssociative
<1> QED BY <1>1, <1>2, <1>3

-----------------------------------------------------------------------------
Unit == Core_event_unit(SUBSET Event)
Fifo == {fifo_soc_event}

\* What holds of every unit: no event but the one of the FIFO is ever raised.
Quiet(e) ==
    /\ e \in Unit
    /\ e.status \in {{}, Fifo} /\ e.evt_mask = Fifo /\ e.irq_mask = {}
    /\ e.sync_irq = NoIrq /\ e.irq_req = NoIrq
    /\ e.pending_elw = FALSE /\ e.irq_wakeup = Idle

Awake(e) ==
    /\ Quiet(e)
    /\ e.is_active = TRUE /\ e.state = "NONE"
    /\ e.clear_evt_mask = {} /\ e.wakeup = Idle

Asleep(e) ==
    /\ Quiet(e) /\ e.status = {}
    /\ e.is_active = FALSE /\ e.state = "WAITING_EVENT"
    /\ e.clear_evt_mask = Fifo /\ e.wakeup = Idle

Elected(e) ==
    /\ Quiet(e)
    /\ e.is_active = FALSE /\ e.state = "NONE"
    /\ e.clear_evt_mask = {} /\ e.wakeup \in {0, 1}

-----------------------------------------------------------------------------
(***************************************************************************)
(* The methods of a unit.                                                  *)
(***************************************************************************)

\* The FIFO event is an event, and no word of it is empty.
LEMMA FifoFacts == Fifo \in SUBSET Event /\ Fifo # {} /\ Fifo \cap Fifo = Fifo
BY SocAssumption DEF Fifo

\* Reset leaves a unit awake.
LEMMA ResetIsAwake ==
  Awake([Core_event_unit_reset EXCEPT !.evt_mask = {fifo_soc_event}])
<1> DEFINE r == Core_event_unit_reset
           e == [r EXCEPT !.evt_mask = {fifo_soc_event}]
<1>1. Fifo \in SUBSET Event /\ NoIrq \in Event \cup {NoIrq}
  BY FifoFacts
<1>2. Idle \in Idle .. 2 /\ Idle \in Idle .. EU_WAKEUP_LATENCY
  BY DEF Idle, EU_WAKEUP_LATENCY
<1>3. "NONE" \in Core_state /\ "null" \in PendingReq
  BY DEF Core_state, PendingReq
<1>4. r \in Unit
  BY <1>1, <1>2, <1>3 DEF Unit, Core_event_unit, Core_event_unit_reset
<1>5. e \in Unit
  BY <1>1, <1>4 DEF Unit, Core_event_unit, Fifo
<1>6. /\ e.status = {} /\ e.evt_mask = Fifo /\ e.irq_mask = {}
      /\ e.sync_irq = NoIrq /\ e.irq_req = NoIrq
      /\ e.pending_elw = FALSE /\ e.irq_wakeup = Idle
      /\ e.is_active = TRUE /\ e.state = "NONE"
      /\ e.clear_evt_mask = {} /\ e.wakeup = Idle
  BY DEF Core_event_unit_reset, Fifo
<1> QED BY <1>5, <1>6 DEF Awake, Quiet

\* check_state() does nothing for a core that runs: there is no interrupt.
LEMMA CheckActive ==
  ASSUME NEW e, Quiet(e), e.is_active = TRUE
  PROVE  check_state_delayed(e, 0) = e
<1>1. irq_of(e) = NoIrq
  BY DEF Quiet, irq_of, irq_masked
<1> QED BY <1>1 DEF check_state_delayed, update_irq, Quiet

\* The event is buffered for a core that runs.
LEMMA SendAwake ==
  ASSUME NEW e, Awake(e)
  PROVE  Awake(send_event(e, Fifo, 0)) /\ send_event(e, Fifo, 0).status = Fifo
<1> DEFINE f == [e EXCEPT !.status = @ \cup Fifo]
<1>1. f = [e EXCEPT !.status = Fifo]
  BY DEF Awake, Quiet
<1>2. f \in Unit /\ Awake(f) /\ f.status = Fifo
  BY <1>1, FifoFacts DEF Awake, Quiet, Unit, Core_event_unit
<1> HIDE DEF f
<1>3. check_state_delayed(f, 0) = f
  BY <1>2, CheckActive DEF Awake
<1> QED BY <1>2, <1>3 DEF send_event, f

\* It is buffered for a core that is about to be answered.
LEMMA SendElected ==
  ASSUME NEW e, Elected(e)
  PROVE  Elected(send_event(e, Fifo, 0)) /\ send_event(e, Fifo, 0).status = Fifo
<1> DEFINE f == [e EXCEPT !.status = @ \cup Fifo]
<1>1. f = [e EXCEPT !.status = Fifo]
  BY DEF Elected, Quiet
<1>2. f \in Unit /\ Elected(f) /\ f.status = Fifo
  BY <1>1, FifoFacts DEF Elected, Quiet, Unit, Core_event_unit
<1> HIDE DEF f
<1>3. evt_masked(f) # {} /\ irq_masked(f) = {} /\ f.state \notin Waiting
  BY <1>2, FifoFacts DEF evt_masked, irq_masked, Waiting, Elected, Quiet
<1>4. check_state_delayed(f, 0) = f
  BY <1>2, <1>3 DEF check_state_delayed, Elected, Quiet
<1> QED BY <1>2, <1>4 DEF send_event, f

\* It elects a core that is asleep, whose read clears it again.
LEMMA SendAsleep ==
  ASSUME NEW e, Asleep(e)
  PROVE  Elected(send_event(e, Fifo, 0))
<1> DEFINE f == [e EXCEPT !.status = @ \cup Fifo]
           d == IF returns_status(f) THEN evt_masked(f) ELSE f.data
           g == [f EXCEPT !.data = d, !.state = "NONE", !.wakeup = 1]
           h == [g EXCEPT !.status = {}, !.clear_evt_mask = {}]
<1>1. f = [e EXCEPT !.status = Fifo]
  BY DEF Asleep, Quiet
<1>2. /\ f \in Unit /\ f.status = Fifo /\ f.evt_mask = Fifo /\ f.irq_mask = {}
      /\ f.is_active = FALSE /\ f.state = "WAITING_EVENT"
      /\ f.pending_elw = FALSE /\ f.clear_evt_mask = Fifo /\ f.wakeup = Idle
      /\ f.sync_irq = NoIrq /\ f.irq_req = NoIrq /\ f.irq_wakeup = Idle
  BY <1>1, FifoFacts DEF Asleep, Quiet, Unit, Core_event_unit
<1> HIDE DEF f
<1>3. evt_masked(f) # {} /\ irq_masked(f) = {} /\ evt_masked(f) \in SUBSET Event
  BY <1>2, FifoFacts DEF evt_masked, irq_masked
<1>4. d \in SUBSET Event
  BY <1>2, <1>3 DEF Unit, Core_event_unit
<1>5. check_state_delayed(f, 0) = wake_for_event(f, 0)
  BY <1>2, <1>3 DEF check_state_delayed, Waiting
<1>6. wake_for_event(f, 0) = check_wait_mask(g)
  <2>1. (IF f.wakeup = Idle THEN EU_EVENT_WAKEUP_LATENCY + 0 ELSE f.wakeup) = 1
    BY <1>2 DEF EU_EVENT_WAKEUP_LATENCY
  <2> QED BY <2>1 DEF wake_for_event
<1> HIDE DEF d
<1>7. "NONE" \in Core_state /\ 1 \in Idle .. 2
  BY DEF Core_state, Idle
<1>8. /\ g \in Unit /\ g.status = Fifo /\ g.evt_mask = Fifo /\ g.irq_mask = {}
      /\ g.is_active = FALSE /\ g.state = "NONE" /\ g.pending_elw = FALSE
      /\ g.clear_evt_mask = Fifo /\ g.wakeup = 1
      /\ g.sync_irq = NoIrq /\ g.irq_req = NoIrq /\ g.irq_wakeup = Idle
  BY <1>2, <1>4, <1>7 DEF Unit, Core_event_unit
<1> HIDE DEF g
<1>9. check_wait_mask(g) = h
  BY <1>8 DEF check_wait_mask, clear_status, Unit, Core_event_unit
<1>10. Elected(h)
  BY <1>8 DEF Elected, Quiet, Unit, Core_event_unit
<1> QED BY <1>5, <1>6, <1>9, <1>10 DEF send_event, f

\* Entering the demux port does not disturb an awake unit.
LEMMA EnterAwake ==
  ASSUME NEW e, Awake(e)
  PROVE  Awake(demux_enter(e)) /\ demux_enter(e).status = e.status
BY DEF Awake, Quiet, Unit, Core_event_unit, demux_enter, Core_state

\* A wait-and-clear read of a buffer that holds the event leaves it empty and
\* the core awake.
LEMMA WaitDone ==
  ASSUME NEW e, Quiet(e), e.is_active = TRUE, e.state = "NONE",
         e.clear_evt_mask = Fifo, e.wakeup = Idle
  PROVE  Awake(wait_event_sync(e))
<1> DEFINE f == [e EXCEPT !.data = evt_masked(e)]
           g == [f EXCEPT !.status = {}, !.clear_evt_mask = {}]
<1>1. evt_masked(e) \in SUBSET Event
  BY FifoFacts DEF Quiet, evt_masked
<1>2. /\ f \in Unit /\ Quiet(f) /\ f.is_active = TRUE /\ f.state = "NONE"
      /\ f.clear_evt_mask = Fifo /\ f.wakeup = Idle
  BY <1>1 DEF Quiet, Unit, Core_event_unit
<1> HIDE DEF f
<1>3. check_wait_mask(f) = g
  BY <1>2, ZenonT(60) DEF check_wait_mask, clear_status, Quiet, Unit, Core_event_unit
<1>4. Awake(g)
  BY <1>2 DEF Awake, Quiet, Unit, Core_event_unit
<1> HIDE DEF g
<1>5. check_state_delayed(g, 0) = g
  BY <1>4, CheckActive DEF Awake
<1> QED BY <1>3, <1>4, <1>5 DEF wait_event_sync, check_state, f

\* A wait-and-clear read of an empty buffer puts the core to sleep.
LEMMA WaitSleeps ==
  ASSUME NEW e, Quiet(e), e.status = {}, e.is_active = TRUE, e.state = "NONE",
         e.clear_evt_mask = Fifo, e.wakeup = Idle
  PROVE  Asleep(put_to_sleep(e, "WAITING_EVENT"))
BY DEF Asleep, Quiet, Unit, Core_event_unit, put_to_sleep, Core_state, Waiting,
   PendingReq

\* A core that clears its buffer stays awake.
LEMMA ClearAwake ==
  ASSUME NEW e, Awake(e)
  PROVE  Awake(check_state(clear_status(e, {fifo_soc_event})))
<1> DEFINE f == clear_status(e, {fifo_soc_event})
<1>1. f = [e EXCEPT !.status = {}]
  BY DEF clear_status, Awake, Quiet, Fifo
<1>2. Awake(f)
  BY <1>1 DEF Awake, Quiet, Unit, Core_event_unit
<1> HIDE DEF f
<1>3. check_state_delayed(f, 0) = f
  BY <1>2, CheckActive DEF Awake
<1> QED BY <1>2, <1>3 DEF check_state, f

\* The answer wakes an elected core and leaves its buffer as it is.
LEMMA AnswerWakes ==
  ASSUME NEW e, Elected(e)
  PROVE  /\ Awake([wakeup_handler(e) EXCEPT !.pending_req = "freed"])
         /\ [wakeup_handler(e) EXCEPT !.pending_req = "freed"].status = e.status
<1> DEFINE f == [e EXCEPT !.wakeup = Idle, !.is_active = TRUE]
<1>0. Idle \in Idle .. 2
  BY DEF Idle
<1>1. f \in Unit /\ Awake(f) /\ f.status = e.status
  <2>1. f \in Unit
    BY <1>0 DEF Elected, Quiet, Unit, Core_event_unit
  <2> QED BY <2>1 DEF Elected, Awake, Quiet, Unit, Core_event_unit
<1> HIDE DEF f
<1>2. check_state_delayed(f, 0) = f
  BY <1>1, CheckActive DEF Awake
<1>3. wakeup_handler(e) = f
  BY <1>2 DEF wakeup_handler, check_state, f
<1>4. /\ Awake([f EXCEPT !.pending_req = "freed"])
      /\ [f EXCEPT !.pending_req = "freed"].status = e.status
  BY <1>1 DEF Awake, Quiet, Unit, Core_event_unit, PendingReq
<1> QED BY <1>3, <1>4

\* A cycle keeps the shape of a unit.
LEMMA TickKeeps ==
  ASSUME NEW e, nothing_due(e)
  PROVE  /\ Awake(e) => Awake(tick(e)) /\ tick(e).status = e.status
         /\ Asleep(e) => Asleep(tick(e)) /\ tick(e).status = e.status
         /\ Elected(e) => Elected(tick(e)) /\ tick(e).status = e.status
<1>1. ASSUME Quiet(e), e.wakeup \in {Idle, 1}
      PROVE  /\ Quiet(tick(e)) /\ tick(e).status = e.status
             /\ tick(e).is_active = e.is_active /\ tick(e).state = e.state
             /\ tick(e).clear_evt_mask = e.clear_evt_mask
             /\ tick(e).wakeup = IF e.wakeup = 1 THEN 0 ELSE Idle
  <2> DEFINE w == IF e.wakeup = 1 THEN 0 ELSE Idle
             f == [e EXCEPT !.wakeup = w, !.irq_wakeup = Idle]
  <2>1. tick(e) = f
    <3>1. (IF e.wakeup > 0 THEN e.wakeup - 1 ELSE e.wakeup) = w
      BY <1>1 DEF Idle
    <3>2. (IF e.irq_wakeup > 0 THEN e.irq_wakeup - 1 ELSE e.irq_wakeup) = Idle
      BY <1>1 DEF Quiet, Idle
    <3> QED BY <3>1, <3>2 DEF tick
  <2>2. w \in Idle .. 2 /\ Idle \in Idle .. EU_WAKEUP_LATENCY
    BY DEF Idle, EU_WAKEUP_LATENCY
  <2> HIDE DEF w
  <2>3. f \in Unit
    BY <2>2, <1>1 DEF Quiet, Unit, Core_event_unit
  <2>4. Quiet(f) /\ f.status = e.status /\ f.wakeup = w
        /\ f.is_active = e.is_active /\ f.state = e.state
        /\ f.clear_evt_mask = e.clear_evt_mask
    BY <2>3, <1>1 DEF Quiet, Unit, Core_event_unit
  <2> QED BY <2>1, <2>4 DEF w
<1>2. Awake(e) => Awake(tick(e)) /\ tick(e).status = e.status
  BY <1>1 DEF Awake, Idle
<1>3. Asleep(e) => Asleep(tick(e)) /\ tick(e).status = e.status
  BY <1>1 DEF Asleep, Idle
<1>4. Elected(e) => Elected(tick(e)) /\ tick(e).status = e.status
  BY <1>1 DEF Elected, Idle, nothing_due
<1> QED BY <1>2, <1>3, <1>4

-----------------------------------------------------------------------------
(***************************************************************************)
(* All the units.                                                          *)
(***************************************************************************)

\* The units fit the set P of the cores that are parked.
Shapes(E, P) ==
    /\ E \in [Core -> Unit]
    /\ \A c \in Core \ P : Awake(E[c])
    /\ \A c \in Core \cap P : Asleep(E[c]) \/ Elected(E[c])

\* The event is in every buffer.
Signalled(E) == \A c \in Core : E[c].status = Fifo

\* One pass of the event over the cores leaves nobody asleep; a second one
\* puts it in every buffer.
LEMMA OncePasses ==
  ASSUME NEW P, NEW E, Shapes(E, P)
  PROVE  LET F == trigger_event(E, {fifo_soc_event}, Core, 0)
         IN  /\ Shapes(F, P)
             /\ \A c \in Core : ~Asleep(E[c]) => F[c].status = Fifo
             /\ \A c \in Core : ~Asleep(F[c])
<1> DEFINE F == trigger_event(E, {fifo_soc_event}, Core, 0)
<1>1. F = [c \in Core |-> send_event(E[c], Fifo, 0)]
  BY DEF trigger_event, Fifo
<1>2. ASSUME NEW c \in Core
      PROVE  /\ c \notin P => Awake(F[c])
             /\ c \in P => Elected(F[c])
             /\ ~Asleep(E[c]) => F[c].status = Fifo
  <2>1. F[c] = send_event(E[c], Fifo, 0)
    BY <1>1
  <2> HIDE DEF F
  <2> QED BY <2>1, SendAwake, SendElected, SendAsleep DEF Shapes
<1>3. \A c \in Core : F[c] \in Unit /\ ~Asleep(F[c])
  <2> HIDE DEF F
  <2> QED BY <1>2 DEF Awake, Elected, Asleep, Quiet
<1>4. F \in [Core -> Unit]
  BY <1>1, <1>3
<1> HIDE DEF F
<1>5. Shapes(F, P)
  BY <1>2, <1>4 DEF Shapes
<1> QED BY <1>2, <1>3, <1>5 DEF F

\* raised(): every buffer has the event, and nobody is asleep.
LEMMA RaisedSignals ==
  ASSUME NEW P, NEW E, Shapes(E, P)
  PROVE  Shapes(raised(E), P) /\ Signalled(raised(E))
<1> DEFINE F == trigger_event(E, {fifo_soc_event}, Core, 0)
           G == trigger_event(F, {fifo_soc_event}, Core, 0)
<1>1. Shapes(F, P) /\ \A c \in Core : ~Asleep(F[c])
  BY OncePasses
<1>2. raised(E) = G
  BY DEF raised
<1> HIDE DEF F
<1>3. Shapes(G, P) /\ \A c \in Core : ~Asleep(F[c]) => G[c].status = Fifo
  BY <1>1, OncePasses
<1> QED BY <1>1, <1>2, <1>3 DEF Signalled

\* check_state() of the FIFO keeps the shapes, and signals what it holds.
LEMMA CheckSignals ==
  ASSUME NEW P, NEW E, NEW free, Shapes(E, P)
  PROVE  /\ Shapes(check_fifo(E, free), P)
         /\ holds_events(free) => Signalled(check_fifo(E, free))
BY RaisedSignals DEF check_fifo

-----------------------------------------------------------------------------
(***************************************************************************)
(* The ring.                                                               *)
(***************************************************************************)
held == nb_fifo_events - nb_free_events
Word == SocEvent \cup {NoEvent}

\* A position of the ring, at most one turn from its start.
LEMMA Wrap ==
  ASSUME NEW t \in Slot, NEW k \in 0 .. nb_fifo_events
  PROVE  /\ (t + k) % nb_fifo_events =
              IF t + k < nb_fifo_events THEN t + k ELSE t + k - nb_fifo_events
         /\ (t + k) % nb_fifo_events \in Slot
<1>1. nb_fifo_events \in Nat \ {0}
  BY SocAssumption
<1>2. t \in Nat /\ t < nb_fifo_events /\ k \in Nat /\ k <= nb_fifo_events
  BY <1>1 DEF Slot
<1>3. t + k < nb_fifo_events => (t + k) % nb_fifo_events = t + k
  BY <1>1, <1>2
<1>4. ~(t + k < nb_fifo_events) =>
         (t + k) % nb_fifo_events = t + k - nb_fifo_events
  BY <1>1, <1>2
<1> QED BY <1>1, <1>2, <1>3, <1>4 DEF Slot

\* next_slot() is the position one further.
LEMMA NextSlot ==
  ASSUME NEW t \in Slot
  PROVE  next_slot(t) \in Slot /\ next_slot(t) = (t + 1) % nb_fifo_events
<1>1. nb_fifo_events \in Nat \ {0}
  BY SocAssumption
<1>2. t \in Nat /\ t < nb_fifo_events /\ 1 \in 0 .. nb_fifo_events
  BY <1>1 DEF Slot
<1>3. (t + 1) % nb_fifo_events =
         IF t + 1 < nb_fifo_events THEN t + 1 ELSE t + 1 - nb_fifo_events
  BY <1>2, Wrap
<1> QED BY <1>1, <1>2, <1>3 DEF next_slot, Slot

\* The n words from slot t on.
Words(f, t, n) == [k \in 1 .. n |-> f[(t + k - 1) % nb_fifo_events]]

\* They are a sequence, and each one is where it should be.
LEMMA WordsType ==
  ASSUME NEW f \in [Slot -> Word], NEW t \in Slot, NEW n \in 0 .. nb_fifo_events
  PROVE  /\ Words(f, t, n) \in Seq(Word) /\ Len(Words(f, t, n)) = n
         /\ \A k \in 1 .. n :
              /\ (t + (k - 1)) % nb_fifo_events \in Slot
              /\ Words(f, t, n)[k] = f[(t + (k - 1)) % nb_fifo_events]
<1>1. nb_fifo_events \in Nat \ {0} /\ n \in Nat
  BY SocAssumption
<1>2. ASSUME NEW k \in 1 .. n
      PROVE  /\ t + k - 1 = t + (k - 1)
             /\ (t + (k - 1)) % nb_fifo_events \in Slot
  <2>1. k - 1 \in 0 .. nb_fifo_events /\ k \in Int /\ t \in Int
    BY <1>1 DEF Slot
  <2> QED BY <2>1, Wrap
<1> DEFINE W == Words(f, t, n)
<1>3. \A k \in 1 .. n : W[k] = f[(t + (k - 1)) % nb_fifo_events]
  BY <1>2 DEF Words
<1>4. W \in [1 .. n -> Word]
  BY <1>2 DEF Words
<1> HIDE DEF W
<1>5. W \in Seq(Word) /\ Len(W) = n
  BY <1>1, <1>4
<1> QED BY <1>2, <1>3, <1>5 DEF W

\* A word put behind the last one is appended: it goes over no other.
LEMMA WordsPushed ==
  ASSUME NEW f \in [Slot -> Word], NEW t \in Slot,
         NEW n \in 0 .. nb_fifo_events - 1, NEW ev \in Word
  PROVE  Words([f EXCEPT ![(t + n) % nb_fifo_events] = ev], t, n + 1)
           = Append(Words(f, t, n), ev)
<1> DEFINE h == (t + n) % nb_fifo_events
           g == [f EXCEPT ![h] = ev]
           W == Words(f, t, n)
           V == Words(g, t, n + 1)
<1>1. /\ nb_fifo_events \in Nat \ {0} /\ n \in 0 .. nb_fifo_events
      /\ n + 1 \in 0 .. nb_fifo_events /\ n \in Nat /\ n < nb_fifo_events
      /\ t \in Nat /\ t < nb_fifo_events
  BY SocAssumption DEF Slot
<1>2. h \in Slot /\ g \in [Slot -> Word] /\ g[h] = ev
  BY <1>1, Wrap
<1>3. \A k \in 1 .. n : g[(t + (k - 1)) % nb_fifo_events]
                      = f[(t + (k - 1)) % nb_fifo_events]
  <2> TAKE k \in 1 .. n
  <2>1. k - 1 \in 0 .. nb_fifo_events /\ k - 1 < n /\ k \in Int
    BY <1>1
  <2>2. /\ (t + (k - 1)) % nb_fifo_events =
             IF t + (k - 1) < nb_fifo_events THEN t + (k - 1)
             ELSE t + (k - 1) - nb_fifo_events
        /\ (t + (k - 1)) % nb_fifo_events \in Slot
    BY <2>1, Wrap
  <2>3. h = IF t + n < nb_fifo_events THEN t + n ELSE t + n - nb_fifo_events
    BY <1>1, Wrap
  <2>4. (t + (k - 1)) % nb_fifo_events # h
    <3> HIDE DEF h
    <3> QED BY <2>1, <2>2, <2>3, <1>1
  <2> QED BY <2>2, <2>4
<1>4. /\ W \in Seq(Word) /\ Len(W) = n
      /\ \A k \in 1 .. n : W[k] = f[(t + (k - 1)) % nb_fifo_events]
  BY <1>1, WordsType
<1> HIDE DEF g, W
<1>5. /\ V \in Seq(Word) /\ Len(V) = n + 1
      /\ \A k \in 1 .. n + 1 : V[k] = g[(t + (k - 1)) % nb_fifo_events]
  BY <1>1, <1>2, WordsType
<1> HIDE DEF V
<1>6. V[n + 1] = ev
  <2>1. n + 1 \in 1 .. n + 1 /\ n + 1 - 1 = n
    BY <1>1
  <2> QED BY <2>1, <1>2, <1>5
<1>7. \A k \in 1 .. n : V[k] = W[k]
  <2> TAKE k \in 1 .. n
  <2>1. k \in 1 .. n + 1
    BY <1>1
  <2> HIDE DEF h
  <2> QED BY <2>1, <1>3, <1>4, <1>5
<1> DEFINE A == Append(W, ev)
<1>8. /\ A \in Seq(Word) /\ Len(A) = n + 1 /\ A[n + 1] = ev
      /\ \A k \in 1 .. n : A[k] = W[k]
  BY <1>4, AppendProperties
<1> HIDE DEF A, h
<1>9. \A k \in 1 .. Len(V) : V[k] = A[k]
  <2> TAKE k \in 1 .. Len(V)
  <2>1. k \in 1 .. n \/ k = n + 1
    BY <1>1, <1>5
  <2> QED BY <2>1, <1>6, <1>7, <1>8
<1>10. V = A
  BY <1>5, <1>8, <1>9, SeqEqual
<1> QED BY <1>10 DEF V, A, W, g, h

\* Moving the start one slot on takes the head.
LEMMA WordsPopped ==
  ASSUME NEW f \in [Slot -> Word], NEW t \in Slot, NEW n \in 1 .. nb_fifo_events
  PROVE  /\ Words(f, t, n) # <<>>
         /\ Head(Words(f, t, n)) = f[t]
         /\ Words(f, next_slot(t), n - 1) = Tail(Words(f, t, n))
<1> DEFINE u == next_slot(t)
           W == Words(f, t, n)
           V == Words(f, u, n - 1)
<1>1. /\ nb_fifo_events \in Nat \ {0} /\ n \in 0 .. nb_fifo_events
      /\ n - 1 \in 0 .. nb_fifo_events /\ n \in Nat \ {0}
      /\ t \in Nat /\ t < nb_fifo_events
  BY SocAssumption DEF Slot
<1>2. u \in Slot /\ u = IF t + 1 = nb_fifo_events THEN 0 ELSE t + 1
  BY NextSlot DEF next_slot
<1>3. /\ W \in Seq(Word) /\ Len(W) = n
      /\ \A k \in 1 .. n : W[k] = f[(t + (k - 1)) % nb_fifo_events]
  BY <1>1, WordsType
<1> HIDE DEF W, u
<1>4. /\ V \in Seq(Word) /\ Len(V) = n - 1
      /\ \A k \in 1 .. n - 1 : V[k] = f[(u + (k - 1)) % nb_fifo_events]
  <2> DEFINE m == n - 1
  <2>1. m \in 0 .. nb_fifo_events
    BY <1>1
  <2> HIDE DEF m
  <2>2. /\ Words(f, u, m) \in Seq(Word) /\ Len(Words(f, u, m)) = m
        /\ \A k \in 1 .. m :
             Words(f, u, m)[k] = f[(u + (k - 1)) % nb_fifo_events]
    BY <1>2, <2>1, WordsType
  <2> QED BY <2>2 DEF m
<1> HIDE DEF V
<1>5. W[1] = f[t]
  <2>1. 1 \in 1 .. n /\ t + (1 - 1) = t /\ t % nb_fifo_events = t
    BY <1>1
  <2> QED BY <2>1, <1>3
<1>6. \A k \in 1 .. n - 1 : V[k] = W[k + 1]
  <2> TAKE k \in 1 .. n - 1
  <2>1. /\ k \in Nat /\ k + 1 \in 1 .. n /\ k + 1 - 1 = k
        /\ k - 1 \in 0 .. nb_fifo_events /\ k \in 0 .. nb_fifo_events
        /\ 1 <= k /\ k < nb_fifo_events
    BY <1>1
  <2>2. (u + (k - 1)) % nb_fifo_events =
          IF u + (k - 1) < nb_fifo_events THEN u + (k - 1)
          ELSE u + (k - 1) - nb_fifo_events
    BY <2>1, <1>2, Wrap
  <2>3. (t + k) % nb_fifo_events =
          IF t + k < nb_fifo_events THEN t + k ELSE t + k - nb_fifo_events
    BY <2>1, Wrap
  <2>4. (u + (k - 1)) % nb_fifo_events = (t + k) % nb_fifo_events
    <3> DEFINE x == (u + (k - 1)) % nb_fifo_events
               y == (t + k) % nb_fifo_events
    <3> HIDE DEF x, y
    <3>1. x = y
      BY <1>1, <1>2, <2>1, <2>2, <2>3 DEF x, y
    <3> QED BY <3>1 DEF x, y
  <2>5. W[k + 1] = f[(t + k) % nb_fifo_events]
    BY <2>1, <1>3
  <2> QED BY <2>4, <2>5, <1>4
<1>7. W # <<>>
  BY <1>1, <1>3, EmptySeq
<1> DEFINE T == Tail(W)
<1>8. /\ T \in Seq(Word) /\ Len(T) = n - 1 /\ Head(W) = W[1]
      /\ \A k \in 1 .. n - 1 : T[k] = W[k + 1]
  BY <1>1, <1>3, <1>7, HeadTailProperties
<1> HIDE DEF T
<1>9. V = T
  BY <1>4, <1>6, <1>8, SeqEqual
<1> QED BY <1>5, <1>7, <1>8, <1>9 DEF V, T, W, u

\* What the ring itself keeps: head is where tail and the count put it.
RingInv ==
    /\ fifo_event \in [Slot -> Word]
    /\ fifo_event_head \in Slot /\ fifo_event_tail \in Slot
    /\ nb_free_events \in 0 .. nb_fifo_events
    /\ accepted \in Seq(SocEvent) /\ popped \in Seq(SocEvent)
    /\ fifo_event_head = (fifo_event_tail + held) % nb_fifo_events

\* The content is what lies from the tail on.
LEMMA ContentIs == content = Words(fifo_event, fifo_event_tail, held)
BY DEF content, Words, held

\* An event that finds a free slot is appended to the content.
LEMMA Pushed ==
  ASSUME RingInv, RingIsFifo, NEW ev \in SocEvent, nb_free_events # 0,
         nb_free_events' = nb_free_events - 1,
         fifo_event' = [fifo_event EXCEPT ![fifo_event_head] = ev],
         fifo_event_head' = next_slot(fifo_event_head),
         accepted' = Append(accepted, ev),
         fifo_event_tail' = fifo_event_tail, popped' = popped
  PROVE  RingInv' /\ RingIsFifo'
<1> DEFINE n == held
           f == fifo_event
           t == fifo_event_tail
           W == Words(f, t, n)
<1>1. /\ nb_fifo_events \in Nat \ {0} /\ nb_free_events \in 1 .. nb_fifo_events
      /\ f \in [Slot -> Word] /\ t \in Slot /\ fifo_event_head \in Slot
      /\ fifo_event_head = (t + n) % nb_fifo_events /\ ev \in Word
      /\ accepted \in Seq(SocEvent) /\ popped \in Seq(SocEvent)
  BY SocAssumption DEF RingInv, Word
<1>2. held' = n + 1 /\ n \in 0 .. nb_fifo_events - 1 /\ n \in 0 .. nb_fifo_events
      /\ n + 1 \in 0 .. nb_fifo_events
  BY <1>1 DEF held
<1>3. accepted' \in Seq(SocEvent) /\ fifo_event' \in [Slot -> Word]
      /\ fifo_event_head' \in Slot
  BY <1>1, NextSlot
<1>4. fifo_event_head' = (t + (n + 1)) % nb_fifo_events
  <2> DEFINE h == fifo_event_head
             g == fifo_event_head'
             r == (t + (n + 1)) % nb_fifo_events
  <2>1. h = IF t + n < nb_fifo_events THEN t + n ELSE t + n - nb_fifo_events
    BY <1>1, <1>2, Wrap
  <2>2. r = IF t + (n + 1) < nb_fifo_events THEN t + (n + 1)
            ELSE t + (n + 1) - nb_fifo_events
    <3> DEFINE m == n + 1
    <3>1. m \in 0 .. nb_fifo_events
      BY <1>2
    <3> HIDE DEF m
    <3>2. (t + m) % nb_fifo_events =
            IF t + m < nb_fifo_events THEN t + m ELSE t + m - nb_fifo_events
      BY <1>1, <3>1, Wrap
    <3> QED BY <3>2 DEF m
  <2>3. g = IF h + 1 = nb_fifo_events THEN 0 ELSE h + 1
    BY DEF next_slot
  <2>4. t \in Nat /\ t < nb_fifo_events /\ n \in Nat /\ n < nb_fifo_events
    BY <1>1, <1>2 DEF Slot
  <2> HIDE DEF r, n
  <2>5. g = r
    BY <2>1, <2>2, <2>3, <2>4, <1>1
  <2> QED BY <2>5 DEF r
<1>5. nb_free_events' \in 0 .. nb_fifo_events
  BY <1>1
<1>6. RingInv'
  BY <1>1, <1>2, <1>3, <1>4, <1>5 DEF RingInv
<1>7. content' = Append(W, ev) /\ content = W
  <2>1. content' = Words(fifo_event', t, n + 1)
    BY <1>2 DEF content, Words, held
  <2>2. Words([f EXCEPT ![(t + n) % nb_fifo_events] = ev], t, n + 1)
          = Append(W, ev)
    BY <1>1, <1>2, WordsPushed
  <2> QED BY <2>1, <2>2, <1>1, ContentIs
<1>8. W \in Seq(Word)
  BY <1>1, <1>2, WordsType
<1>9. popped \in Seq(Word)
  BY <1>1 DEF Word
<1> HIDE DEF W, n, f, t
<1>10. Append(popped \o W, ev) = popped \o content'
  <2> DEFINE A == Append(W, ev)
  <2>1. ev \in Word
    BY <1>1
  <2>2. Append(popped \o W, ev) = popped \o A
    BY <2>1, <1>8, <1>9, AppendToConcat
  <2> QED BY <2>2, <1>7
<1>11. popped \o W = accepted
  BY <1>7 DEF RingIsFifo
<1>12. popped' \o content' = accepted'
  BY <1>10, <1>11
<1> QED BY <1>6, <1>12 DEF RingIsFifo

\* A core that pops takes the head of the content.
LEMMA Popped ==
  ASSUME RingInv, RingIsFifo, holds_events(nb_free_events),
         popped' = Append(popped, fifo_event[fifo_event_tail]),
         fifo_event_tail' = next_slot(fifo_event_tail),
         nb_free_events' = nb_free_events + 1,
         fifo_event' = fifo_event, fifo_event_head' = fifo_event_head,
         accepted' = accepted
  PROVE  RingInv' /\ RingIsFifo'
<1> DEFINE n == held
           f == fifo_event
           t == fifo_event_tail
           W == Words(f, t, n)
<1>1. /\ nb_fifo_events \in Nat \ {0} /\ nb_free_events \in 0 .. nb_fifo_events - 1
      /\ f \in [Slot -> Word] /\ t \in Slot /\ fifo_event_head \in Slot
      /\ fifo_event_head = (t + n) % nb_fifo_events
      /\ accepted \in Seq(SocEvent) /\ popped \in Seq(SocEvent)
  BY SocAssumption DEF RingInv, holds_events
<1>2. held' = n - 1 /\ n \in 1 .. nb_fifo_events /\ n \in 0 .. nb_fifo_events
      /\ n - 1 \in 0 .. nb_fifo_events
  BY <1>1 DEF held
<1>3. fifo_event_tail' \in Slot
  BY <1>1, NextSlot
<1>4. fifo_event_head' = (fifo_event_tail' + (n - 1)) % nb_fifo_events
  <2> DEFINE h == fifo_event_head
             u == fifo_event_tail'
             r == (u + (n - 1)) % nb_fifo_events
  <2>1. h = IF t + n < nb_fifo_events THEN t + n ELSE t + n - nb_fifo_events
    BY <1>1, <1>2, Wrap
  <2>2. r = IF u + (n - 1) < nb_fifo_events THEN u + (n - 1)
            ELSE u + (n - 1) - nb_fifo_events
    <3> DEFINE m == n - 1
    <3>1. m \in 0 .. nb_fifo_events
      BY <1>2
    <3> HIDE DEF m
    <3>2. (u + m) % nb_fifo_events =
            IF u + m < nb_fifo_events THEN u + m ELSE u + m - nb_fifo_events
      BY <1>3, <3>1, Wrap
    <3> QED BY <3>2 DEF m
  <2>3. u = IF t + 1 = nb_fifo_events THEN 0 ELSE t + 1
    BY DEF next_slot
  <2>4. t \in Nat /\ t < nb_fifo_events /\ n \in Nat /\ n <= nb_fifo_events
        /\ 1 <= n
    BY <1>1, <1>2 DEF Slot
  <2> HIDE DEF r, n
  <2>5. h = r
    BY <2>1, <2>2, <2>3, <2>4, <1>1
  <2> QED BY <2>5 DEF r
<1>5. /\ W # <<>> /\ Head(W) = f[t] /\ Words(f, next_slot(t), n - 1) = Tail(W)
  BY <1>1, <1>2, WordsPopped
<1>6. content' = Tail(W) /\ content = W
  <2>1. content' = Words(f, fifo_event_tail', n - 1)
    BY <1>2 DEF content, Words, held
  <2> QED BY <2>1, <1>5, ContentIs
<1>7. W \in Seq(Word) /\ popped \in Seq(Word)
  <2>1. W \in Seq(Word)
    BY <1>1, <1>2, WordsType
  <2> QED BY <2>1, <1>1 DEF Word
<1> HIDE DEF W, n
<1>8. popped \o W = accepted
  BY <1>6 DEF RingIsFifo
<1>9. Append(popped, Head(W)) \o Tail(W) = popped \o W
  BY <1>5, <1>7, MoveHead
<1>10. popped' \o content' = accepted'
  BY <1>5, <1>6, <1>8, <1>9
<1>11. Head(W) \in SocEvent
  <2> DEFINE p == Len(popped)
             i == p + 1
  <2>1. /\ p \in Nat /\ Len(W) \in Nat \ {0} /\ Head(W) = W[1]
    BY <1>5, <1>7, HeadTailProperties, EmptySeq
  <2>2. /\ Len(popped \o W) = p + Len(W)
        /\ \A j \in 1 .. p + Len(W) : (popped \o W)[j] =
              IF j <= p THEN popped[j] ELSE W[j - p]
    BY <1>7, ConcatProperties
  <2>3. i \in 1 .. p + Len(W) /\ ~(i <= p) /\ i - p = 1
    BY <2>1
  <2>4. accepted[i] = W[1] /\ Len(accepted) = p + Len(W)
    BY <2>2, <2>3, <1>8
  <2>5. i \in 1 .. Len(accepted)
    BY <2>3, <2>4
  <2> HIDE DEF i
  <2>6. accepted[i] \in SocEvent
    BY <2>5, <1>1, ElementOfSeq
  <2> QED BY <2>1, <2>4, <2>6
<1>12. popped' \in Seq(SocEvent)
  BY <1>1, <1>5, <1>11
<1>13. nb_free_events' \in 0 .. nb_fifo_events
  BY <1>1
<1>14. RingInv'
  BY <1>1, <1>2, <1>3, <1>4, <1>12, <1>13 DEF RingInv
<1> QED BY <1>10, <1>14 DEF RingIsFifo

-----------------------------------------------------------------------------
(***************************************************************************)
(* The invariant.                                                          *)
(***************************************************************************)
IInv ==
    /\ RingInv /\ RingIsFifo
    /\ parked \subseteq Core /\ Shapes(eu, parked)
    /\ holds_events(nb_free_events) => Signalled(eu)

\* It holds of the empty ring with every core awake.
LEMMA InitIInv == Init => IInv
<1> SUFFICES ASSUME Init PROVE IInv
  OBVIOUS
<1>1. nb_fifo_events \in Nat \ {0}
  BY SocAssumption
<1>2. 0 \in Slot /\ nb_fifo_events \in 0 .. nb_fifo_events
  BY <1>1 DEF Slot
<1>3. held = 0 /\ 0 + 0 = 0 /\ 0 % nb_fifo_events = 0
  BY <1>1 DEF Init, held
<1>4. RingInv
  BY <1>2, <1>3 DEF RingInv, Init, Word
<1>5. content = <<>>
  <2>1. Words(fifo_event, fifo_event_tail, 0) \in Seq(Word)
        /\ Len(Words(fifo_event, fifo_event_tail, 0)) = 0
    <3>1. 0 \in 0 .. nb_fifo_events
      BY <1>1
    <3> QED BY <3>1, <1>4, WordsType DEF RingInv
  <2>2. content = Words(fifo_event, fifo_event_tail, 0)
    BY <1>3, ContentIs
  <2> QED BY <2>1, <2>2, EmptySeq
<1>6. RingIsFifo
  BY <1>5 DEF RingIsFifo, Init
<1>7. \A c \in Core : Awake(eu[c]) /\ eu[c] \in Unit
  BY ResetIsAwake DEF Init, Awake, Quiet
<1>8. Shapes(eu, parked)
  BY <1>7 DEF Shapes, Init
<1> QED BY <1>4, <1>6, <1>8 DEF IInv, Init, holds_events

\* The ring is a function of its variables.
LEMMA RingUnchanged ==
  ASSUME RingInv, RingIsFifo, UNCHANGED <<ring, accepted, popped>>
  PROVE  RingInv' /\ RingIsFifo' /\ nb_free_events' = nb_free_events
<1>1. content' = content
  BY DEF content, ring
<1> QED BY <1>1 DEF RingInv, RingIsFifo, held, ring

\* One unit replaced by one that is awake.
LEMMA OneAwake ==
  ASSUME NEW E, NEW P, NEW c \in Core, NEW e, Awake(e), Shapes(E, P)
  PROVE  Shapes([E EXCEPT ![c] = e], P \ {c})
BY DEF Shapes, Awake, Quiet

\* An event comes.
LEMMA SyncStep ==
  ASSUME IInv, NEW ev \in SocEvent, Sync(ev)
  PROVE  IInv'
<1>1. CASE nb_free_events = 0
  BY <1>1, RingUnchanged DEF IInv, Sync
<1>2. CASE nb_free_events # 0
  <2>1. RingInv' /\ RingIsFifo'
    BY <1>2, Pushed DEF IInv, Sync
  <2>2. /\ Shapes(eu', parked)
        /\ holds_events(nb_free_events') => Signalled(eu')
    BY <1>2, CheckSignals DEF IInv, Sync
  <2> QED BY <2>1, <2>2 DEF IInv, Sync
<1> QED BY <1>1, <1>2

\* A core pops.
LEMMA PopStep ==
  ASSUME IInv, NEW c \in Core, Pop(c)
  PROVE  IInv'
<1>1. RingInv' /\ RingIsFifo'
  BY Popped DEF IInv, Pop
<1>2. /\ Shapes(eu', parked)
      /\ holds_events(nb_free_events') => Signalled(eu')
  BY CheckSignals DEF IInv, Pop
<1> QED BY <1>1, <1>2 DEF IInv, Pop

\* A core waits: it sleeps only on an empty ring.
LEMMA WaitClearStep ==
  ASSUME IInv, NEW c \in Core, WaitClear(c)
  PROVE  IInv'
<1> DEFINE d == demux_enter(eu[c])
           e == [d EXCEPT !.pending_req_is_wait = TRUE,
                          !.clear_evt_mask = eu[c].evt_mask]
<1>1. RingInv' /\ RingIsFifo' /\ nb_free_events' = nb_free_events
  BY RingUnchanged DEF IInv, WaitClear
<1>2. c \notin parked /\ Awake(eu[c]) /\ eu[c].evt_mask = Fifo
  BY DEF IInv, WaitClear, Shapes, Awake, Quiet
<1>3. Awake(d) /\ d.status = eu[c].status
  BY <1>2, EnterAwake
<1> HIDE DEF d
<1>4. /\ Quiet(e) /\ e.is_active = TRUE /\ e.state = "NONE"
      /\ e.clear_evt_mask = Fifo /\ e.wakeup = Idle /\ e.status = eu[c].status
  BY <1>2, <1>3, FifoFacts DEF Awake, Quiet, Unit, Core_event_unit
<1>5. CASE /\ evt_masked(e) # {}
           /\ eu' = check_fifo([eu EXCEPT ![c] = wait_event_sync(e)],
                               nb_free_events)
           /\ UNCHANGED parked
  <2> HIDE DEF e
  <2> DEFINE w == wait_event_sync(e)
             E == [eu EXCEPT ![c] = w]
  <2>1. Awake(w)
    BY <1>4, WaitDone
  <2> HIDE DEF w
  <2>2. Shapes(E, parked \ {c}) /\ parked \ {c} = parked
    BY <2>1, <1>2, OneAwake DEF IInv
  <2>3. eu' = check_fifo(E, nb_free_events)
    BY <1>5 DEF w
  <2> HIDE DEF E
  <2>4. Shapes(eu', parked) /\ (holds_events(nb_free_events) => Signalled(eu'))
    BY <2>2, <2>3, CheckSignals
  <2> QED BY <1>1, <1>5, <2>4 DEF IInv
<1>6. CASE /\ evt_masked(e) = {}
           /\ eu' = [eu EXCEPT ![c] = put_to_sleep(e, "WAITING_EVENT")]
           /\ parked' = parked \cup {c}
  <2> HIDE DEF e
  <2> DEFINE w == put_to_sleep(e, "WAITING_EVENT")
  <2>1. e.status = {}
    BY <1>4, <1>6, FifoFacts DEF Quiet, evt_masked
  <2>2. Asleep(w)
    BY <2>1, <1>4, WaitSleeps
  <2>3. ~holds_events(nb_free_events)
    BY <2>1, <1>4, FifoFacts DEF IInv, Signalled
  <2> HIDE DEF w
  <2>4. eu' = [eu EXCEPT ![c] = w]
    BY <1>6 DEF w
  <2>5. Shapes(eu', parked') /\ parked' \subseteq Core
    BY <2>2, <2>4, <1>6 DEF IInv, Shapes, Asleep, Quiet
  <2> QED BY <2>3, <2>5, <1>1 DEF IInv
<1> QED BY <1>5, <1>6 DEF WaitClear, d

\* A core clears its buffer: the event is raised again while the ring holds
\* something.
LEMMA BufferClearStep ==
  ASSUME IInv, NEW c \in Core, BufferClear(c)
  PROVE  IInv'
<1> DEFINE w == check_state(clear_status(demux_enter(eu[c]), {fifo_soc_event}))
           E == [eu EXCEPT ![c] = w]
<1>1. RingInv' /\ RingIsFifo' /\ nb_free_events' = nb_free_events
  BY RingUnchanged DEF IInv, BufferClear
<1>2. c \notin parked /\ Awake(eu[c])
  BY DEF IInv, BufferClear, Shapes
<1>3. Awake(w)
  BY <1>2, EnterAwake, ClearAwake
<1>4. eu' = check_fifo(E, nb_free_events) /\ parked' = parked
  BY DEF BufferClear
<1> HIDE DEF w
<1>5. Shapes(E, parked \ {c}) /\ parked \ {c} = parked
  BY <1>2, <1>3, OneAwake DEF IInv
<1> HIDE DEF E
<1>6. Shapes(eu', parked) /\ (holds_events(nb_free_events) => Signalled(eu'))
  BY <1>4, <1>5, CheckSignals
<1> QED BY <1>1, <1>4, <1>6 DEF IInv

\* The answer of an elected core reaches it.
LEMMA WakeupStep ==
  ASSUME IInv, NEW c \in Core, Wakeup(c)
  PROVE  IInv'
<1> DEFINE w == [wakeup_handler(eu[c]) EXCEPT !.pending_req = "freed"]
<1>1. RingInv' /\ RingIsFifo' /\ nb_free_events' = nb_free_events
  BY RingUnchanged DEF IInv, Wakeup
<1>2. Elected(eu[c])
  <2>1. eu[c].wakeup # Idle
    BY DEF Wakeup, Idle
  <2> QED BY <2>1 DEF IInv, Shapes, Awake, Asleep
<1>3. Awake(w) /\ w.status = eu[c].status
  BY <1>2, AnswerWakes
<1>4. eu' = [eu EXCEPT ![c] = w] /\ parked' = parked \ {c}
  BY DEF Wakeup
<1> HIDE DEF w
<1>5. Shapes(eu', parked')
  BY <1>3, <1>4, OneAwake DEF IInv
<1>6. Signalled(eu) => Signalled(eu')
  BY <1>3, <1>4 DEF Signalled, IInv, Shapes
<1> QED BY <1>1, <1>4, <1>5, <1>6 DEF IInv

\* A cycle passes.
LEMMA TickStep ==
  ASSUME IInv, Tick
  PROVE  IInv'
<1>1. RingInv' /\ RingIsFifo' /\ nb_free_events' = nb_free_events
  BY RingUnchanged DEF IInv, Tick
<1>2. ASSUME NEW c \in Core
      PROVE  /\ Awake(eu[c]) => Awake(eu'[c]) /\ eu'[c].status = eu[c].status
             /\ Asleep(eu[c]) => Asleep(eu'[c]) /\ eu'[c].status = eu[c].status
             /\ Elected(eu[c]) => Elected(eu'[c]) /\ eu'[c].status = eu[c].status
  <2>1. nothing_due(eu[c]) /\ eu'[c] = tick(eu[c])
    BY DEF Tick
  <2> QED BY <2>1, TickKeeps
<1>3. DOMAIN eu' = Core /\ eu' = [c \in Core |-> eu'[c]] /\ parked' = parked
  BY DEF Tick
<1>4. \A c \in Core : Awake(eu[c]) \/ Asleep(eu[c]) \/ Elected(eu[c])
  BY DEF IInv, Shapes
<1>5. \A c \in Core : eu'[c] \in Unit /\ eu'[c].status = eu[c].status
  BY <1>2, <1>4 DEF Awake, Asleep, Elected, Quiet
<1>6. Shapes(eu', parked')
  BY <1>2, <1>3, <1>5 DEF IInv, Shapes
<1>7. Signalled(eu) => Signalled(eu')
  BY <1>5 DEF Signalled
<1> QED BY <1>1, <1>3, <1>6, <1>7 DEF IInv

\* Every step keeps the invariant.
LEMMA NextIInv == IInv /\ [Next]_vars => IInv'
<1> SUFFICES ASSUME IInv, [Next]_vars PROVE IInv'
  OBVIOUS
<1>1. CASE Tick
  BY <1>1, TickStep
<1>2. CASE \E ev \in SocEvent : Sync(ev)
  BY <1>2, SyncStep
<1>3. ASSUME NEW c \in Core, Pop(c) \/ WaitClear(c) \/ BufferClear(c) \/ Wakeup(c)
      PROVE  IInv'
  BY <1>3, PopStep, WaitClearStep, BufferClearStep, WakeupStep
<1>4. CASE UNCHANGED vars
  BY <1>4, RingUnchanged DEF IInv, vars
<1> QED BY <1>1, <1>2, <1>3, <1>4 DEF Next

\* The invariant holds in every state, for every size of the ring and every
\* set of cores: the induction all results below rest on.
THEOREM Invariance == Spec => []IInv
BY InitIInv, NextIInv, PTL DEF Spec

\* Type correctness of the FIFO: head and tail stay in the ring, the count of
\* free slots between 0 and its size, although neither is checked on a pop.
THEOREM TypeCorrect == Spec => []TypeOK
<1>1. IInv => TypeOK
  BY DEF IInv, RingInv, Shapes, TypeOK, Unit, Word
<1> QED BY <1>1, Invariance, PTL

\* The ring is a FIFO (sync and the pop of soc_event_unit.cpp): no event is
\* overwritten, repeated or reordered, through any number of wrap-arounds.
THEOREM RingOrder == Spec => []RingIsFifo
<1>1. IInv => RingIsFifo
  BY DEF IInv
<1> QED BY <1>1, Invariance, PTL

\* While the ring holds something every core that sleeps has its answer under
\* way, whichever cores cleared their buffers in the meantime.
THEOREM NoOversleep == Spec => []NobodyOversleeps
<1>1. IInv => NobodyOversleeps
  <2> SUFFICES ASSUME IInv, holds_events(nb_free_events), NEW c \in parked
               PROVE  eu[c].wakeup # Idle
    BY DEF NobodyOversleeps
  <2>1. c \in Core /\ eu[c].status = Fifo
    BY DEF IInv, Signalled
  <2>2. Elected(eu[c])
    BY <2>1, FifoFacts DEF IInv, Shapes, Asleep
  <2> QED BY <2>2 DEF Elected, Idle
<1> QED BY <1>1, Invariance, PTL

=============================================================================
