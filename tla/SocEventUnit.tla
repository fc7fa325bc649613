---------------------------- MODULE SocEventUnit ----------------------------
(***************************************************************************)
(* The SoC-event FIFO of the event unit (soc_event_unit.cpp): a ring of    *)
(* event numbers the SoC pushes over a wire and the cores pop through the  *)
(* shared port, and the FIFO event that wakes them.  Any core that clears  *)
(* its buffer while the ring holds something has the event raised again,   *)
(* for all cores (Core_event_unit::clear_status).                          *)
(*                                                                         *)
(* A core waits with a wait-and-clear read for the FIFO event, or clears   *)
(* its buffer, and pops.  Its interrupt mask keeps its reset value.        *)
(***************************************************************************)
EXTENDS CoreEventUnit, Sequences

CONSTANTS nb_fifo_events,     \* size of the ring
          fifo_soc_event,     \* event number of the FIFO
          SocEvent,           \* numbers of the SoC events
          MaxEvents           \* bound: number of events put in the ring

ASSUME SocAssumption ==
    /\ nb_fifo_events \in Nat \ {0} /\ MaxEvents \in Nat
    /\ fifo_soc_event \in Event

VARIABLES eu,
          fifo_event, fifo_event_head, fifo_event_tail, nb_free_events,
          parked,       \* the cores that sleep on a wait read
          accepted,     \* the events put in the ring, in order
          popped        \* the events the cores got, in order

ring == <<fifo_event, fifo_event_head, fifo_event_tail, nb_free_events>>
vars == <<eu, ring, parked, accepted, popped>>

Slot == 0 .. nb_fifo_events - 1
NoEvent == "none"             \* a slot never written

TypeOK ==
    /\ eu \in [Core -> Core_event_unit(SUBSET Event)]
    /\ fifo_event \in [Slot -> SocEvent \cup {NoEvent}]
    /\ fifo_event_head \in Slot /\ fifo_event_tail \in Slot
    /\ nb_free_events \in 0 .. nb_fifo_events
    /\ parked \subseteq Core
    /\ accepted \in Seq(SocEvent) /\ popped \in Seq(SocEvent)

Init ==
    /\ eu = [c \in Core |-> [Core_event_unit_reset EXCEPT
                                !.evt_mask = {fifo_soc_event}]]
    /\ fifo_event = [i \in Slot |-> NoEvent]
    /\ fifo_event_head = 0 /\ fifo_event_tail = 0
    /\ nb_free_events = nb_fifo_events
    /\ parked = {} /\ accepted = <<>> /\ popped = <<>>

-----------------------------------------------------------------------------
\* Faulty: one slot too early.
next_slot_early(i) == IF i + 2 = nb_fifo_events THEN 0 ELSE i + 1

next_slot(i) == IF i + 1 = nb_fifo_events THEN 0 ELSE i + 1
\* Faulty: one event is not enough.
holds_two(free) == free + 1 < nb_fifo_events

holds_events(free) == free # nb_fifo_events

\* The FIFO event for every core.  A core it wakes clears it, which raises it
\* once more: the second pass wakes nobody.
raised(E) ==
    LET once(F) == trigger_event(F, {fifo_soc_event}, Core, 0)
    IN  once(once(E))

\* Faulty: the event is not raised again.
check_fifo_never(E, free) == E

\* check_state() of the FIFO with that many free slots.
check_fifo(E, free) == IF holds_events(free) THEN raised(E) ELSE E

\* An event from the SoC; one that comes when the ring is full is dropped.
Sync(ev) ==
    /\ Len(accepted) < MaxEvents
    /\ IF nb_free_events = 0
       THEN UNCHANGED <<eu, ring, accepted>>
       ELSE /\ nb_free_events' = nb_free_events - 1
            /\ fifo_event' = [fifo_event EXCEPT ![fifo_event_head] = ev]
            /\ fifo_event_head' = next_slot(fifo_event_head)
            /\ eu' = check_fifo(eu, nb_free_events')
            /\ accepted' = Append(accepted, ev)
            /\ UNCHANGED fifo_event_tail
    /\ UNCHANGED <<parked, popped>>

\* A read of the FIFO by core c gets the oldest event; a read of the empty
\* FIFO returns 0 and changes nothing.
Pop(c) ==
    /\ c \notin parked
    /\ holds_events(nb_free_events)
    /\ popped' = Append(popped, fifo_event[fifo_event_tail])
    /\ fifo_event_tail' = next_slot(fifo_event_tail)
    /\ nb_free_events' = nb_free_events + 1
    /\ eu' = check_fifo(eu, nb_free_events')
    /\ UNCHANGED <<fifo_event, fifo_event_head, parked, accepted>>

\* A wait-and-clear read: answered at once, or the core sleeps.
WaitClear(c) ==
    LET e == [demux_enter(eu[c]) EXCEPT !.pending_req_is_wait = TRUE,
                                        !.clear_evt_mask = eu[c].evt_mask]
    IN  /\ c \notin parked
        /\ \/ /\ evt_masked(e) # {}
              /\ eu' = check_fifo([eu EXCEPT ![c] = wait_event_sync(e)],
                                  nb_free_events)
              /\ UNCHANGED parked
           \/ /\ evt_masked(e) = {}
              /\ eu' = [eu EXCEPT ![c] = put_to_sleep(e, "WAITING_EVENT")]
              /\ parked' = parked \cup {c}
        /\ UNCHANGED <<ring, accepted, popped>>

BufferClear(c) ==
    /\ c \notin parked
    /\ eu' = check_fifo([eu EXCEPT ![c] = check_state(
                clear_status(demux_enter(@), {fifo_soc_event}))], nb_free_events)
    /\ UNCHANGED <<ring, parked, accepted, popped>>

Wakeup(c) ==
    /\ eu[c].wakeup = 0
    /\ eu' = [eu EXCEPT ![c] = [wakeup_handler(@) EXCEPT !.pending_req = "freed"]]
    /\ parked' = parked \ {c}
    /\ UNCHANGED <<ring, accepted, popped>>

Tick ==
    /\ \A c \in Core : nothing_due(eu[c])
    /\ eu' = [c \in Core |-> tick(eu[c])]
    /\ UNCHANGED <<ring, parked, accepted, popped>>

Next ==
    \/ Tick
    \/ \E ev \in SocEvent : Sync(ev)
    \/ \E c \in Core : Pop(c) \/ WaitClear(c) \/ BufferClear(c) \/ Wakeup(c)

\* Clock events run in their cycle, cycles pass, and a core that is awake ends
\* up popping what there is.
Fairness ==
    /\ WF_vars(Tick)
    /\ \A c \in Core : WF_vars(Wakeup(c)) /\ SF_vars(Pop(c))

Spec == Init /\ [][Next]_vars /\ Fairness

-----------------------------------------------------------------------------
(***************************************************************************)
(* Properties.                                                             *)
(***************************************************************************)
\* The events in the ring, oldest first.
content ==
    [k \in 1 .. nb_fifo_events - nb_free_events |->
        fifo_event[(fifo_event_tail + k - 1) % nb_fifo_events]]

\* The ring is a FIFO: what was popped, followed by what the ring holds, is
\* what was put in, whatever the wrap-arounds of head and tail and whatever
\* was dropped when it was full.
RingIsFifo == popped \o content = accepted

\* No core oversleeps: while the ring holds something, a core that sleeps has
\* its answer under way.
NobodyOversleeps ==
    holds_events(nb_free_events) => \A c \in parked : eu[c].wakeup # Idle

\* Every event the ring took is popped.
EachPopped ==
    \A n \in 1 .. MaxEvents : Len(accepted) >= n ~> Len(popped) >= n

=============================================================================
