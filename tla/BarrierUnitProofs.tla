------------------------- MODULE BarrierUnitProofs --------------------------
(***************************************************************************)
(* Proofs about the hardware barriers, for every number of cores and of    *)
(* barriers and every assignment of teams and programs, as long as no      *)
(* interrupt arrives.  With interrupts the release of a barrier can be     *)
(* left over or an arrival be lost, so the same properties do not hold.    *)
(*                                                                         *)
(* A core and its unit are in one of three shapes: the core runs, sleeps   *)
(* on its read, or will get its answer.  A core that has arrived waits,    *)
(* running or asleep, exactly as long as its bit is in the status of its   *)
(* barrier; the last arrival of a team takes all the bits away and sends   *)
(* every waiting core on.  So the cores of a team have all arrived in the  *)
(* same number of rounds, the ones in the status once more.                *)
(***************************************************************************)
EXTENDS BarrierUnit, Integers, Sequences, FiniteSets,
        SequenceTheorems, FunctionTheorems, FiniteSetTheorems,
        WellFoundedInduction, TLAPS

Unit == Core_event_unit(SUBSET Event)
Release == {barrier_event}

\* The events a read clears when it is answered.
Clears(insn) == IF insn = "trigger_wait" THEN {} ELSE Release

\* Nothing but the event of the barriers is in the buffer or waited for.
Quiet(e) ==
    /\ e \in Unit /\ e.evt_mask = Release /\ e.irq_mask = {}
    /\ e.status \subseteq Release
    /\ e.sync_irq = NoIrq /\ e.irq_req = NoIrq /\ e.irq_wakeup = Idle
    /\ e.pending_elw = FALSE

\* The core runs; it sleeps on its read; its read will be answered.
Free(e, p) ==
    /\ Quiet(e) /\ p.parked = FALSE
    /\ e.is_active = TRUE /\ e.wakeup = Idle
    /\ e.state = "NONE" /\ e.clear_evt_mask = {}
Sleeping(e, p) ==
    /\ Quiet(e) /\ p.parked = TRUE
    /\ e.is_active = FALSE /\ e.wakeup = Idle
    /\ e.state \in Waiting /\ e.pending_req = "live"
    /\ e.clear_evt_mask = Clears(p.elw_insn) /\ e.status = {}
Coming(e, p) ==
    /\ Quiet(e) /\ p.parked = TRUE
    /\ e.wakeup # Idle
    /\ e.state = "NONE" /\ e.pending_req = "live"
    /\ e.clear_evt_mask = {} /\ e.status = Release \ Clears(p.elw_insn)

\* A core that has arrived before and after the release.
Waits(e, p) == (Free(e, p) /\ e.status = {}) \/ Sleeping(e, p)
Goes(e, p)  == (Free(e, p) /\ e.status = Release) \/ Coming(e, p)

\* A core that is never interrupted.
Plain(p) == p \in ElwCoreState /\ p.replay = FALSE /\ p.handler = FALSE

Types ==
    /\ plan \in Plans /\ plan.irq = FALSE
    /\ eu \in [Core -> Unit] /\ cpu \in [Core -> ElwCoreState]
    /\ \A c \in Core : Plain(cpu[c])
    /\ barriers \in [Barrier -> BarrierState]
    /\ arrived \in [Core -> Nat] /\ passed \in [Core -> Nat]
    /\ toclear \in [Core -> BOOLEAN]

\* Between two barriers the buffer holds at most what the software has still
\* to clear.  A core that has arrived waits as long as the status of its
\* barrier has its bit, and goes on once it is gone.
CoreInv(c) ==
    /\ passed[c] <= Len(Program[c])
    /\ arrived[c] = passed[c] =>
          /\ Free(eu[c], cpu[c])
          /\ eu[c].status = IF toclear[c] THEN Release ELSE {}
    /\ arrived[c] # passed[c] =>
          /\ arrived[c] = passed[c] + 1 /\ ~Done(c) /\ toclear[c] = FALSE
          /\ c \in barriers[Ahead(c)].status => Waits(eu[c], cpu[c])
          /\ c \notin barriers[Ahead(c)].status => Goes(eu[c], cpu[c])

\* The trigger mask is set up first, and nobody arrives before.
Masks(b) ==
    /\ barriers[b].core_mask \in {{}, Team[b]}
    /\ barriers[b].target_mask \in {{}, Team[b]}
    /\ barriers[b].target_mask # {} => SetUp(b)
    /\ barriers[b].status # {} => SetUp(b)

\* The status is of cores that have arrived and have not left, never of the
\* whole team.
Bits(b) ==
    /\ barriers[b].status \subseteq Team[b] /\ barriers[b].status # Team[b]
    /\ \A c \in barriers[b].status : arrived[c] # passed[c] /\ Ahead(c) = b

\* How many of the first n elements of s are b.
Tally(s, b, n) == Cardinality({i \in 1 .. n : s[i] = b})

\* Every core of the team has arrived in the same number of rounds, and the
\* ones in the status once more.
Counted(b) ==
    \E r \in Nat : \A d \in Team[b] :
        Tally(Program[d], b, arrived[d])
            = IF d \in barriers[b].status THEN r + 1 ELSE r

NoIrqInv ==
    /\ Types
    /\ \A c \in Core : CoreInv(c)
    /\ \A b \in Used : Masks(b) /\ Bits(b) /\ Counted(b)

\* The inductive invariant, about the plans without interrupts.
IInv == plan \in Plans /\ (~WithIrq => NoIrqInv)

-----------------------------------------------------------------------------
(***************************************************************************)
(* The methods of a unit, without interrupts.                              *)
(***************************************************************************)

\* The barrier event is an event, and is not the empty set of them.
LEMMA ReleaseFacts == Release \in SUBSET Event /\ Release # {}
  BY BarrierAssumption DEF Release

\* What check_state() looks at in a quiet unit.
LEMMA QuietFacts ==
  ASSUME NEW e, Quiet(e)
  PROVE  /\ irq_masked(e) = {} /\ irq_of(e) = NoIrq
         /\ evt_masked(e) = e.status
         /\ e.status = {} \/ e.status = Release
<1>1. irq_masked(e) = {} /\ evt_masked(e) = e.status
  BY DEF Quiet, irq_masked, evt_masked
<1>2. e.status = {} \/ e.status = Release
  BY DEF Quiet, Release
<1> QED BY <1>1, <1>2 DEF irq_of

\* check_state() of an active core has nothing to do.
LEMMA QuietActive ==
  ASSUME NEW e, Quiet(e), e.is_active = TRUE, NEW delay
  PROVE  check_state_delayed(e, delay) = e
<1>1. irq_of(e) = e.sync_irq
  BY QuietFacts DEF Quiet
<1> QED BY <1>1 DEF check_state_delayed, update_irq

\* demux_req() leaves a running core running, whatever instruction it is.
LEMMA Entered ==
  ASSUME NEW e, NEW p, Free(e, p), NEW q, q.parked = FALSE
  PROVE  Free(demux_enter(e), q) /\ demux_enter(e).status = e.status
<1> DEFINE f == demux_enter(e)
<1>1. /\ f \in Unit /\ f.status = e.status /\ f.evt_mask = e.evt_mask
      /\ f.irq_mask = e.irq_mask /\ f.sync_irq = e.sync_irq
      /\ f.irq_req = e.irq_req /\ f.irq_wakeup = e.irq_wakeup
      /\ f.pending_elw = FALSE /\ f.is_active = e.is_active
      /\ f.wakeup = e.wakeup /\ f.state = "NONE"
      /\ f.clear_evt_mask = e.clear_evt_mask
  BY DEF demux_enter, Free, Quiet, Unit, Core_event_unit
<1> HIDE DEF f
<1> QED BY <1>1 DEF Free, Quiet, f

\* An event buffered in a quiet unit leaves it quiet.
LEMMA Buffered ==
  ASSUME NEW e, Quiet(e)
  PROVE  LET f == [e EXCEPT !.status = @ \cup Release]
         IN  /\ Quiet(f) /\ f.status = Release
             /\ f.is_active = e.is_active /\ f.wakeup = e.wakeup
             /\ f.state = e.state /\ f.clear_evt_mask = e.clear_evt_mask
             /\ f.pending_req = e.pending_req
<1> DEFINE f == [e EXCEPT !.status = @ \cup Release]
<1>1. /\ f \in Unit /\ f.status = e.status \cup Release /\ f.evt_mask = e.evt_mask
      /\ f.irq_mask = e.irq_mask /\ f.sync_irq = e.sync_irq
      /\ f.irq_req = e.irq_req /\ f.irq_wakeup = e.irq_wakeup
      /\ f.pending_elw = e.pending_elw /\ f.is_active = e.is_active
      /\ f.wakeup = e.wakeup /\ f.state = e.state
      /\ f.clear_evt_mask = e.clear_evt_mask /\ f.pending_req = e.pending_req
  BY ReleaseFacts DEF Quiet, Unit, Core_event_unit
<1>2. f.status = Release
  BY <1>1 DEF Quiet
<1> HIDE DEF f
<1> QED BY <1>1, <1>2 DEF Quiet, f

\* The events a wait read clears are taken out of a quiet unit that holds the
\* release, whatever else changes in it.
LEMMA Consumed ==
  ASSUME NEW e, Quiet(e), e.status = Release, NEW insn,
         e.clear_evt_mask = Clears(insn)
  PROVE  LET f == check_wait_mask(e)
         IN  /\ Quiet(f) /\ f.status = Release \ Clears(insn)
             /\ f.clear_evt_mask = {}
             /\ f.is_active = e.is_active /\ f.wakeup = e.wakeup
             /\ f.state = e.state /\ f.pending_req = e.pending_req
<1> DEFINE f == check_wait_mask(e)
<1>1. /\ f \in Unit /\ f.status = e.status \ e.clear_evt_mask
      /\ f.evt_mask = e.evt_mask
      /\ f.irq_mask = e.irq_mask /\ f.sync_irq = e.sync_irq
      /\ f.irq_req = e.irq_req /\ f.irq_wakeup = e.irq_wakeup
      /\ f.pending_elw = e.pending_elw /\ f.is_active = e.is_active
      /\ f.wakeup = e.wakeup /\ f.state = e.state
      /\ f.clear_evt_mask = {} /\ f.pending_req = e.pending_req
  BY DEF check_wait_mask, clear_status, Quiet, Unit, Core_event_unit
<1> HIDE DEF f
<1> QED BY <1>1 DEF Quiet, f

\* A release sends a core on that waits: it finds the event when it reads, or
\* its read is answered two cycles later.
LEMMA Released ==
  ASSUME NEW e, NEW p, Waits(e, p)
  PROVE  Goes(send_event(e, Release, 1), p)
<1> DEFINE f == [e EXCEPT !.status = @ \cup Release]
<1>1. Quiet(e)
  BY DEF Waits, Free, Sleeping
<1>2. /\ Quiet(f) /\ f.status = Release
      /\ f.is_active = e.is_active /\ f.wakeup = e.wakeup
      /\ f.state = e.state /\ f.clear_evt_mask = e.clear_evt_mask
      /\ f.pending_req = e.pending_req
  BY <1>1, Buffered
<1>3. send_event(e, Release, 1) = check_state_delayed(f, 1)
  BY DEF send_event
<1> HIDE DEF f
<1>4. CASE Free(e, p)
  <2>1. check_state_delayed(f, 1) = f
    BY <1>2, <1>4, QuietActive DEF Free
  <2> QED BY <1>2, <1>3, <1>4, <2>1 DEF Free, Goes
<1>5. CASE Sleeping(e, p)
  <2>1. irq_masked(f) = {} /\ evt_masked(f) # {}
    BY <1>2, QuietFacts, ReleaseFacts
  <2>2. check_state_delayed(f, 1) = wake_for_event(f, 1)
    BY <1>2, <1>5, <2>1 DEF check_state_delayed, Sleeping, Quiet
  <2> DEFINE g == [f EXCEPT !.data = IF returns_status(f) THEN evt_masked(f) ELSE @,
                            !.state = "NONE",
                            !.wakeup = IF @ = Idle
                                THEN EU_EVENT_WAKEUP_LATENCY + 1 ELSE @]
  <2>3. (IF returns_status(f) THEN evt_masked(f) ELSE f.data) \in SUBSET Event
    BY <1>2 DEF evt_masked, Quiet, Unit, Core_event_unit
  <2>4. f.wakeup = Idle
    BY <1>2, <1>5 DEF Sleeping
  <2>5. (IF f.wakeup = Idle THEN EU_EVENT_WAKEUP_LATENCY + 1 ELSE f.wakeup) = 2
    BY <2>4 DEF EU_EVENT_WAKEUP_LATENCY
  <2>6. 2 \in Idle .. 2 /\ 2 # Idle
    BY DEF Idle
  <2>7. /\ g \in Unit /\ g.status = f.status /\ g.evt_mask = f.evt_mask
        /\ g.irq_mask = f.irq_mask /\ g.sync_irq = f.sync_irq
        /\ g.irq_req = f.irq_req /\ g.irq_wakeup = f.irq_wakeup
        /\ g.pending_elw = f.pending_elw
        /\ g.wakeup = 2 /\ g.state = "NONE"
        /\ g.clear_evt_mask = f.clear_evt_mask /\ g.pending_req = f.pending_req
    BY <1>2, <2>3, <2>5, <2>6 DEF Quiet, Unit, Core_event_unit, Core_state
  <2>8. wake_for_event(f, 1) = check_wait_mask(g)
    BY DEF wake_for_event
  <2> HIDE DEF g
  <2>9. Quiet(g) /\ g.status = Release /\ g.clear_evt_mask = Clears(p.elw_insn)
    BY <1>2, <1>5, <2>7 DEF Quiet, Sleeping
  <2>10. LET h == check_wait_mask(g)
         IN  /\ Quiet(h) /\ h.status = Release \ Clears(p.elw_insn)
             /\ h.clear_evt_mask = {} /\ h.wakeup = g.wakeup
             /\ h.state = g.state /\ h.pending_req = g.pending_req
    BY <2>9, Consumed
  <2>11. Coming(check_wait_mask(g), p)
    BY <1>2, <1>5, <2>6, <2>7, <2>10 DEF Coming, Sleeping
  <2> QED BY <1>3, <2>2, <2>8, <2>11 DEF Goes
<1> QED BY <1>4, <1>5 DEF Waits

\* The unit of a running core once the read insn has armed it.
Armed(e, insn) ==
    /\ Quiet(e) /\ e.is_active = TRUE /\ e.wakeup = Idle /\ e.state = "NONE"
    /\ e.clear_evt_mask = Clears(insn)

\* A trigger-and-wait read arms the unit.
LEMMA ReadArms ==
  ASSUME NEW e, NEW p, Free(e, p), NEW insn \in Elw \ {"wait_clear"}
  PROVE  LET f == armed(demux_enter(e), insn)
         IN  Armed(f, insn) /\ f.status = e.status
<1> DEFINE g == demux_enter(e)
           f == armed(g, insn)
<1>1. /\ Quiet(g) /\ g.is_active = TRUE /\ g.wakeup = Idle /\ g.state = "NONE"
      /\ g.clear_evt_mask = {} /\ g.status = e.status
  BY Entered DEF Free
<1> HIDE DEF g
<1>2. CASE insn = "trigger_wait_clear"
  <2>1. Clears(insn) = Release /\ f = [g EXCEPT !.clear_evt_mask = g.evt_mask]
    BY <1>2 DEF Clears, armed
  <2>2. /\ f \in Unit /\ f.status = g.status /\ f.evt_mask = g.evt_mask
        /\ f.irq_mask = g.irq_mask /\ f.sync_irq = g.sync_irq
        /\ f.irq_req = g.irq_req /\ f.irq_wakeup = g.irq_wakeup
        /\ f.pending_elw = g.pending_elw /\ f.is_active = g.is_active
        /\ f.wakeup = g.wakeup /\ f.state = g.state
        /\ f.clear_evt_mask = g.evt_mask
    BY <1>1, <2>1 DEF Quiet, Unit, Core_event_unit
  <2> HIDE DEF f
  <2> QED BY <1>1, <2>1, <2>2 DEF Armed, Quiet, f, g
<1>3. CASE insn # "trigger_wait_clear"
  <2>1. insn = "trigger_wait"
    BY <1>3, BarrierAssumption
  <2>2. Clears(insn) = {} /\ f = g
    BY <2>1 DEF Clears, armed
  <2> QED BY <1>1, <2>2 DEF Armed, g
<1> QED BY <1>2, <1>3

\* A release that comes before the read looks at the buffer leaves it armed.
LEMMA ArmedReleased ==
  ASSUME NEW e, NEW insn, Armed(e, insn)
  PROVE  LET f == send_event(e, Release, 1)
         IN  Armed(f, insn) /\ f.status = Release
<1> DEFINE f == [e EXCEPT !.status = @ \cup Release]
<1>1. /\ Quiet(f) /\ f.status = Release
      /\ f.is_active = e.is_active /\ f.wakeup = e.wakeup
      /\ f.state = e.state /\ f.clear_evt_mask = e.clear_evt_mask
  BY Buffered DEF Armed
<1>2. send_event(e, Release, 1) = check_state_delayed(f, 1)
  BY DEF send_event
<1> HIDE DEF f
<1>3. check_state_delayed(f, 1) = f
  BY <1>1, QuietActive DEF Armed
<1> QED BY <1>1, <1>2, <1>3 DEF Armed

\* Going to sleep on a read.
LEMMA Parked ==
  ASSUME NEW e, NEW insn, Armed(e, insn), e.status = {}, NEW w \in Waiting,
         NEW p, p.parked = TRUE, p.elw_insn = insn
  PROVE  Sleeping(put_to_sleep(e, w), p)
<1> DEFINE f == put_to_sleep(e, w)
<1>1. /\ f \in Unit /\ f.status = e.status /\ f.evt_mask = e.evt_mask
      /\ f.irq_mask = e.irq_mask /\ f.sync_irq = e.sync_irq
      /\ f.irq_req = e.irq_req /\ f.irq_wakeup = e.irq_wakeup
      /\ f.pending_elw = e.pending_elw /\ f.is_active = FALSE
      /\ f.wakeup = e.wakeup /\ f.state = w /\ f.pending_req = "live"
      /\ f.clear_evt_mask = e.clear_evt_mask
  BY DEF put_to_sleep, Armed, Quiet, Unit, Core_event_unit, Core_state, PendingReq
<1> HIDE DEF f
<1> QED BY <1>1 DEF Sleeping, Armed, Quiet, f

\* wait_event() of an armed unit puts the core to sleep when the release has
\* not come, and will answer it otherwise.
LEMMA ArmedReads ==
  ASSUME NEW e, NEW insn, Armed(e, insn),
         NEW p, p.parked = TRUE, p.elw_insn = insn
  PROVE  LET f == wait_event(e, "WAITING_BARRIER")
         IN  /\ e.status = {} => Sleeping(f, p)
             /\ e.status = Release => Coming(f, p)
<1>1. evt_masked(e) = e.status
  BY QuietFacts DEF Armed
<1>2. ASSUME e.status = {} PROVE Sleeping(wait_event(e, "WAITING_BARRIER"), p)
  <2>1. wait_event(e, "WAITING_BARRIER") = put_to_sleep(e, "WAITING_BARRIER")
    BY <1>1, <1>2 DEF wait_event
  <2>2. "WAITING_BARRIER" \in Waiting
    BY DEF Waiting
  <2> QED BY <1>2, <2>1, <2>2, Parked
<1>3. ASSUME e.status = Release PROVE Coming(wait_event(e, "WAITING_BARRIER"), p)
  <2> DEFINE g == [e EXCEPT !.data = evt_masked(e)]
             h == check_wait_mask(g)
             f == [h EXCEPT !.pending_req = "live", !.wakeup = EU_WAKEUP_LATENCY]
  <2>1. wait_event(e, "WAITING_BARRIER") = f
    BY <1>1, <1>3, ReleaseFacts DEF wait_event
  <2>2. /\ g \in Unit /\ g.status = e.status /\ g.evt_mask = e.evt_mask
        /\ g.irq_mask = e.irq_mask /\ g.sync_irq = e.sync_irq
        /\ g.irq_req = e.irq_req /\ g.irq_wakeup = e.irq_wakeup
        /\ g.pending_elw = e.pending_elw
        /\ g.state = e.state /\ g.clear_evt_mask = e.clear_evt_mask
    BY <1>1 DEF Armed, Quiet, Unit, Core_event_unit
  <2> HIDE DEF g
  <2>3. /\ Quiet(h) /\ h.status = Release \ Clears(insn)
        /\ h.clear_evt_mask = {} /\ h.state = g.state
    <3>1. Quiet(g) /\ g.status = Release /\ g.clear_evt_mask = Clears(insn)
      BY <1>3, <2>2 DEF Armed, Quiet
    <3> QED BY <3>1, Consumed
  <2> HIDE DEF h
  <2>4. EU_WAKEUP_LATENCY \in Idle .. 2 /\ EU_WAKEUP_LATENCY # Idle
    BY DEF Idle, EU_WAKEUP_LATENCY
  <2>5. /\ f \in Unit /\ f.status = h.status /\ f.evt_mask = h.evt_mask
        /\ f.irq_mask = h.irq_mask /\ f.sync_irq = h.sync_irq
        /\ f.irq_req = h.irq_req /\ f.irq_wakeup = h.irq_wakeup
        /\ f.pending_elw = h.pending_elw
        /\ f.wakeup = EU_WAKEUP_LATENCY
        /\ f.state = h.state /\ f.pending_req = "live"
        /\ f.clear_evt_mask = h.clear_evt_mask
    BY <2>3, <2>4 DEF Quiet, Unit, Core_event_unit, PendingReq
  <2> HIDE DEF f
  <2> QED BY <2>1, <2>2, <2>3, <2>4, <2>5 DEF Coming, Quiet, Armed
<1> QED BY <1>2, <1>3

\* The unit as an event-wait read that clears finds it.
WaitUnit(e) ==
    [demux_enter(e) EXCEPT !.pending_req_is_wait = TRUE,
                           !.clear_evt_mask = e.evt_mask]

\* The event-wait read is answered at once when the release has come, and
\* takes it; it puts the core to sleep otherwise.
LEMMA WaitReads ==
  ASSUME NEW e, NEW p, Free(e, p)
  PROVE  LET f == WaitUnit(e)
         IN  /\ evt_masked(f) = e.status
             /\ e.status = Release => \A q : q.parked = FALSE =>
                    Free(wait_event_sync(f), q) /\ wait_event_sync(f).status = {}
             /\ e.status = {} => \A q :
                    q.parked = TRUE /\ q.elw_insn = "wait_clear" =>
                        Sleeping(put_to_sleep(f, "WAITING_EVENT"), q)
<1> DEFINE g == demux_enter(e)
           f == WaitUnit(e)
<1>1. /\ Quiet(g) /\ g.is_active = TRUE /\ g.wakeup = Idle /\ g.state = "NONE"
      /\ g.clear_evt_mask = {} /\ g.status = e.status
  <2>1. /\ Quiet(e) /\ e.is_active = TRUE /\ e.wakeup = Idle /\ e.state = "NONE"
        /\ e.clear_evt_mask = {} /\ p.parked = FALSE
    BY DEF Free
  <2> QED BY <2>1, Entered DEF Free
<1>2. Clears("wait_clear") = Release /\ e.evt_mask = Release
  BY DEF Clears, Free, Quiet
<1>3. f = [g EXCEPT !.pending_req_is_wait = TRUE, !.clear_evt_mask = Release]
  BY <1>2 DEF WaitUnit
<1> HIDE DEF g, f
<1>4. /\ f \in Unit /\ f.status = g.status /\ f.evt_mask = g.evt_mask
      /\ f.irq_mask = g.irq_mask /\ f.sync_irq = g.sync_irq
      /\ f.irq_req = g.irq_req /\ f.irq_wakeup = g.irq_wakeup
      /\ f.pending_elw = g.pending_elw /\ f.is_active = g.is_active
      /\ f.wakeup = g.wakeup /\ f.state = g.state
      /\ f.clear_evt_mask = Release
  BY <1>1, <1>3, ReleaseFacts DEF Quiet, Unit, Core_event_unit
<1>5. Armed(f, "wait_clear") /\ f.status = e.status
  BY <1>1, <1>2, <1>4 DEF Armed, Quiet
<1>6. evt_masked(f) = e.status
  BY <1>5, QuietFacts DEF Armed
<1>7. ASSUME e.status = Release, NEW q, q.parked = FALSE
      PROVE  Free(wait_event_sync(f), q) /\ wait_event_sync(f).status = {}
  <2> DEFINE k == [f EXCEPT !.data = evt_masked(f)]
             h == check_wait_mask(k)
  <2>1. wait_event_sync(f) = check_state_delayed(h, 0)
    BY DEF wait_event_sync, check_state
  <2>2. /\ k \in Unit /\ k.status = f.status /\ k.evt_mask = f.evt_mask
        /\ k.irq_mask = f.irq_mask /\ k.sync_irq = f.sync_irq
        /\ k.irq_req = f.irq_req /\ k.irq_wakeup = f.irq_wakeup
        /\ k.pending_elw = f.pending_elw /\ k.is_active = f.is_active
        /\ k.wakeup = f.wakeup
        /\ k.state = f.state /\ k.clear_evt_mask = f.clear_evt_mask
    BY <1>4, <1>5, <1>6 DEF Armed, Quiet, Unit, Core_event_unit
  <2> HIDE DEF k
  <2>3. Quiet(k) /\ k.status = Release /\ k.clear_evt_mask = Clears("wait_clear")
    BY <1>5, <1>7, <2>2 DEF Armed, Quiet
  <2>4. /\ Quiet(h) /\ h.status = Release \ Clears("wait_clear")
        /\ h.clear_evt_mask = {} /\ h.is_active = k.is_active
        /\ h.wakeup = k.wakeup /\ h.state = k.state
    BY <2>3, Consumed
  <2> HIDE DEF h
  <2>5. check_state_delayed(h, 0) = h
    BY <1>5, <2>2, <2>4, QuietActive DEF Armed
  <2>6. h.status = {}
    BY <1>2, <2>4
  <2> QED BY <1>5, <1>7, <2>1, <2>2, <2>4, <2>5, <2>6 DEF Free, Armed
<1>8. ASSUME e.status = {}, NEW q, q.parked = TRUE, q.elw_insn = "wait_clear"
      PROVE  Sleeping(put_to_sleep(f, "WAITING_EVENT"), q)
  <2>1. "WAITING_EVENT" \in Waiting
    BY DEF Waiting
  <2> QED BY <1>5, <1>8, <2>1, Parked
<1> QED BY <1>6, <1>7, <1>8 DEF f

\* The answer of a read leaves the core running, with what the read did not
\* clear in its buffer.
LEMMA Answered ==
  ASSUME NEW e, NEW p, Coming(e, p), p \in ElwCoreState
  PROVE  /\ Free(answered(e), retired(p, e))
         /\ answered(e).status = Release \ Clears(p.elw_insn)
<1> DEFINE f == [e EXCEPT !.wakeup = Idle, !.is_active = TRUE]
           g == [f EXCEPT !.pending_req = "freed"]
<1>1. Idle \in Idle .. 2
  BY DEF Idle
<1>2. /\ f \in Unit /\ f.status = e.status /\ f.evt_mask = e.evt_mask
      /\ f.irq_mask = e.irq_mask /\ f.sync_irq = e.sync_irq
      /\ f.irq_req = e.irq_req /\ f.irq_wakeup = e.irq_wakeup
      /\ f.pending_elw = e.pending_elw /\ f.is_active = TRUE
      /\ f.wakeup = Idle
      /\ f.state = e.state /\ f.clear_evt_mask = e.clear_evt_mask
  BY <1>1 DEF Coming, Quiet, Unit, Core_event_unit
<1>3. answered(e) = [check_state_delayed(f, 0) EXCEPT !.pending_req = "freed"]
  BY DEF answered, wakeup_handler, check_state
<1> HIDE DEF f
<1>4. Quiet(f)
  BY <1>2 DEF Coming, Quiet
<1>5. answered(e) = g
  BY <1>2, <1>3, <1>4, QuietActive
<1>6. /\ g \in Unit /\ g.status = f.status /\ g.evt_mask = f.evt_mask
      /\ g.irq_mask = f.irq_mask /\ g.sync_irq = f.sync_irq
      /\ g.irq_req = f.irq_req /\ g.irq_wakeup = f.irq_wakeup
      /\ g.pending_elw = f.pending_elw /\ g.is_active = f.is_active
      /\ g.wakeup = f.wakeup
      /\ g.state = f.state /\ g.clear_evt_mask = f.clear_evt_mask
  BY <1>2 DEF Unit, Core_event_unit, PendingReq
<1> HIDE DEF g
<1>7. retired(p, e).parked = FALSE
  BY DEF retired, elw_wake, Coming, ElwCoreState
<1> QED BY <1>2, <1>4, <1>5, <1>6, <1>7 DEF Free, Coming, Quiet

\* A core keeps its shape when a cycle passes in which nothing is due.
LEMMA Ticked ==
  ASSUME NEW e, NEW p, p \in ElwCoreState, e \in Unit, nothing_due(e)
  PROVE  /\ tick(e) \in Unit /\ tick(e).status = e.status
         /\ Free(e, p) => Free(tick(e), step_cycle(p))
         /\ Waits(e, p) => Waits(tick(e), step_cycle(p))
         /\ Goes(e, p) => Goes(tick(e), step_cycle(p))
<1> DEFINE f == tick(e)
           q == step_cycle(p)
           w == IF e.wakeup > 0 THEN e.wakeup - 1 ELSE e.wakeup
           v == IF e.irq_wakeup > 0 THEN e.irq_wakeup - 1 ELSE e.irq_wakeup
<1>1. e.wakeup \in Idle .. 2 /\ e.irq_wakeup \in Idle .. EU_WAKEUP_LATENCY
  BY DEF Unit, Core_event_unit
<1>2. /\ w \in Idle .. 2 /\ v \in Idle .. EU_WAKEUP_LATENCY
      /\ w = Idle <=> e.wakeup = Idle
      /\ v = Idle <=> e.irq_wakeup = Idle
  BY <1>1 DEF nothing_due, Idle, EU_WAKEUP_LATENCY
<1>3. f = [e EXCEPT !.wakeup = w, !.irq_wakeup = v]
  BY DEF tick
<1> HIDE DEF w, v
<1>4. /\ f \in Unit /\ f.status = e.status /\ f.evt_mask = e.evt_mask
      /\ f.irq_mask = e.irq_mask /\ f.sync_irq = e.sync_irq
      /\ f.irq_req = e.irq_req /\ f.irq_wakeup = v
      /\ f.pending_elw = e.pending_elw /\ f.is_active = e.is_active
      /\ f.wakeup = w /\ f.pending_req = e.pending_req
      /\ f.state = e.state /\ f.clear_evt_mask = e.clear_evt_mask
  BY <1>2, <1>3 DEF Unit, Core_event_unit
<1>5. q.parked = p.parked /\ q.elw_insn = p.elw_insn
  BY DEF step_cycle, ElwCoreState
<1> HIDE DEF f, q
<1>6. Quiet(e) => Quiet(f)
  BY <1>2, <1>4 DEF Quiet
<1>7. Free(e, p) => Free(f, q)
  BY <1>2, <1>4, <1>5, <1>6 DEF Free
<1>8. Sleeping(e, p) => Sleeping(f, q)
  BY <1>2, <1>4, <1>5, <1>6 DEF Sleeping
<1>9. Coming(e, p) => Coming(f, q)
  BY <1>2, <1>4, <1>5, <1>6 DEF Coming
<1> QED BY <1>4, <1>7, <1>8, <1>9 DEF Waits, Goes, f, q

\* The software clears what a read has left in the buffer.
LEMMA Cleared ==
  ASSUME NEW e, NEW p, Free(e, p), NEW q, q.parked = FALSE
  PROVE  LET f == check_state(clear_status(demux_enter(e), Release))
         IN  Free(f, q) /\ f.status = {}
<1> DEFINE g == demux_enter(e)
           h == clear_status(g, Release)
<1>1. Free(g, q)
  BY Entered
<1> HIDE DEF g
<1>2. /\ h \in Unit /\ h.status = g.status \ Release /\ h.evt_mask = g.evt_mask
      /\ h.irq_mask = g.irq_mask /\ h.sync_irq = g.sync_irq
      /\ h.irq_req = g.irq_req /\ h.irq_wakeup = g.irq_wakeup
      /\ h.pending_elw = g.pending_elw /\ h.is_active = g.is_active
      /\ h.wakeup = g.wakeup
      /\ h.state = g.state /\ h.clear_evt_mask = g.clear_evt_mask
  BY <1>1 DEF clear_status, Free, Quiet, Unit, Core_event_unit
<1> HIDE DEF h
<1>3. Quiet(h) /\ h.status = {}
  BY <1>1, <1>2 DEF Free, Quiet
<1>4. check_state_delayed(h, 0) = h
  BY <1>1, <1>2, <1>3, QuietActive DEF Free
<1> QED BY <1>1, <1>2, <1>3, <1>4 DEF Free, check_state, g, h

-----------------------------------------------------------------------------
(***************************************************************************)
(* Cores, wires and counts.                                                *)
(***************************************************************************)

\* A core without interrupts stays one, and only its reads park it.
LEMMA PlainSteps ==
  ASSUME NEW p, Plain(p)
  PROVE  /\ Plain(issued(p)) /\ issued(p).parked = p.parked
         /\ Plain(elw_done(p)) /\ elw_done(p).parked = p.parked
         /\ Plain(step_cycle(p))
         /\ \A insn \in Elw : LET q == elw_parked(p, insn)
               IN  Plain(q) /\ q.parked = TRUE /\ q.elw_insn = insn
         /\ \A e : Plain(retired(p, e))
<1>1. /\ p \in ElwCoreState /\ p.replay = FALSE /\ p.handler = FALSE
      /\ p.stall \in 0 .. ResumeCycles
  BY DEF Plain, ElwCoreState
<1>2. /\ 1 \in 0 .. ResumeCycles /\ ResumeCycles \in 0 .. ResumeCycles
      /\ (IF p.stall > 0 THEN p.stall - 1 ELSE 0) \in 0 .. ResumeCycles
  BY <1>1, ResumeAssumption
<1>3. Plain(issued(p)) /\ issued(p).parked = p.parked
  BY <1>1, <1>2 DEF Plain, ElwCoreState, issued
<1>4. Plain(elw_done(p)) /\ elw_done(p).parked = p.parked
  BY <1>1, <1>2 DEF Plain, ElwCoreState, elw_done
<1>5. Plain(step_cycle(p))
  BY <1>1, <1>2 DEF Plain, ElwCoreState, step_cycle
<1>6. \A insn \in Elw : LET q == elw_parked(p, insn)
         IN  Plain(q) /\ q.parked = TRUE /\ q.elw_insn = insn
  BY <1>1 DEF Plain, ElwCoreState, elw_parked
<1>7. Plain(elw_wake(p))
  BY <1>1, <1>2 DEF Plain, ElwCoreState, elw_wake
<1>8. \A e : Plain(retired(p, e))
  BY <1>7 DEF retired
<1> QED BY <1>3, <1>4, <1>5, <1>6, <1>8

\* No hook runs when no irq wire is raised.
LEMMA Settled ==
  ASSUME NEW E, NEW P, E \in [Core -> Unit], P \in [Core -> ElwCoreState],
         \A c \in Core : E[c].irq_req = NoIrq
  PROVE  SettledUnits(E, P) = E /\ SettledCores(E, P) = P
<1>1. \A c \in Core : ~irq_req_hook(P, E, c)
  BY DEF irq_req_hook
<1>2. SettledUnits(E, P) = [c \in Core |-> E[c]]
  BY <1>1 DEF SettledUnits
<1>3. SettledCores(E, P) = [c \in Core |-> P[c]]
  BY <1>1 DEF SettledCores
<1> QED BY <1>2, <1>3

\* A tally is a number, and counts the next element.
LEMMA TallyNext ==
  ASSUME NEW s, NEW b, NEW n \in Nat
  PROVE  /\ Tally(s, b, n) \in Nat
         /\ Tally(s, b, n + 1) = Tally(s, b, n) + (IF s[n + 1] = b THEN 1 ELSE 0)
<1> DEFINE A == {i \in 1 .. n : s[i] = b}
           B == {i \in 1 .. n + 1 : s[i] = b}
           m == n + 1
<1>1. IsFiniteSet(A)
  <2>1. IsFiniteSet(1 .. n)
    BY FS_Interval
  <2>2. A \in SUBSET (1 .. n)
    OBVIOUS
  <2> QED BY <2>1, <2>2, FS_Subset
<1>2. Cardinality(A) \in Nat
  BY <1>1, FS_CardinalityType
<1>3. m \notin A
  OBVIOUS
<1>4. 1 .. n + 1 = (1 .. n) \cup {m}
  OBVIOUS
<1>5. B = IF s[m] = b THEN A \cup {m} ELSE A
  BY <1>4
<1> HIDE DEF A, B, m
<1>6. Cardinality(A \cup {m}) = Cardinality(A) + 1
  BY <1>1, <1>3, FS_AddElement
<1>7. Cardinality(B) = Cardinality(A) + (IF s[m] = b THEN 1 ELSE 0)
  BY <1>2, <1>5, <1>6
<1> QED BY <1>2, <1>7 DEF Tally, A, B, m

\* The visits of a core are a tally of its program.
LEMMA VisitsTally ==
  ASSUME NEW c, NEW b, NEW n
  PROVE  visits(c, b, n) = Tally(Program[c], b, n)
BY DEF visits, Tally, Quantify

\* What the assumption says of the plan that is followed.
LEMMA PlanFacts ==
  ASSUME plan \in Plans
  PROVE  /\ Team \in [Barrier -> SUBSET Core]
         /\ \A c \in Core : /\ Program[c] \in Seq(Barrier)
                            /\ Len(Program[c]) \in Nat
                            /\ \A i \in 1 .. Len(Program[c]) :
                                  Program[c][i] \in Barrier /\ c \in Team[Program[c][i]]
<1>1. Team \in [Barrier -> SUBSET Core]
  BY BarrierAssumption DEF Team
<1>2. \A c \in Core : Program[c] \in Seq({b \in Barrier : c \in Team[b]})
  BY BarrierAssumption DEF Team, Program
<1>3. ASSUME NEW c \in Core
      PROVE  /\ Program[c] \in Seq(Barrier) /\ Len(Program[c]) \in Nat
             /\ \A i \in 1 .. Len(Program[c]) :
                   Program[c][i] \in Barrier /\ c \in Team[Program[c][i]]
  <2> DEFINE S == {b \in Barrier : c \in Team[b]}
  <2>1. Program[c] \in Seq(S)
    BY <1>2
  <2>2. S \subseteq Barrier /\ \A b \in S : c \in Team[b]
    OBVIOUS
  <2> HIDE DEF S
  <2> QED BY <2>1, <2>2
<1> QED BY <1>1, <1>3

-----------------------------------------------------------------------------
(***************************************************************************)
(* Steps that leave the arrivals alone.                                    *)
(***************************************************************************)

\* The barrier ahead of a core that is not done is one of its team.
LEMMA AheadFacts ==
  ASSUME plan \in Plans, NEW c \in Core, passed[c] \in Nat,
         passed[c] <= Len(Program[c]), ~Done(c)
  PROVE  /\ Ahead(c) \in Used /\ Ahead(c) \in Barrier /\ c \in Team[Ahead(c)]
         /\ passed[c] + 1 <= Len(Program[c])
<1>1. Len(Program[c]) \in Nat
  BY PlanFacts
<1>2. passed[c] + 1 \in 1 .. Len(Program[c])
  BY <1>1 DEF Done
<1>3. Ahead(c) \in Barrier /\ c \in Team[Ahead(c)]
  BY <1>2, PlanFacts DEF Ahead
<1> QED BY <1>2, <1>3 DEF Used

\* Every unit is quiet, and a core that is not parked runs.
LEMMA ShapeFacts ==
  ASSUME NoIrqInv, NEW c \in Core
  PROVE  /\ Quiet(eu[c]) /\ Plain(cpu[c]) /\ eu[c] \in Unit /\ cpu[c] \in ElwCoreState
         /\ Free(eu[c], cpu[c]) \/ Sleeping(eu[c], cpu[c]) \/ Coming(eu[c], cpu[c])
         /\ ~cpu[c].parked => Free(eu[c], cpu[c]) /\ ~skips(eu[c])
<1>1. Plain(cpu[c]) /\ eu[c] \in Unit /\ cpu[c] \in ElwCoreState
  BY DEF NoIrqInv, Types
<1>2. Free(eu[c], cpu[c]) \/ Waits(eu[c], cpu[c]) \/ Goes(eu[c], cpu[c])
  BY DEF NoIrqInv, CoreInv
<1>3. Free(eu[c], cpu[c]) \/ Sleeping(eu[c], cpu[c]) \/ Coming(eu[c], cpu[c])
  BY <1>2 DEF Waits, Goes
<1>4. Quiet(eu[c])
  BY <1>3 DEF Free, Sleeping, Coming
<1>5. ASSUME ~cpu[c].parked PROVE Free(eu[c], cpu[c]) /\ ~skips(eu[c])
  BY <1>3, <1>5 DEF Free, Sleeping, Coming, skips
<1> QED BY <1>1, <1>3, <1>4, <1>5

\* A unit and its core change and keep their shape.
Keeps(e, p, f, q) ==
    /\ Free(e, p) => Free(f, q) /\ f.status = e.status
    /\ Waits(e, p) => Waits(f, q)
    /\ Goes(e, p) => Goes(f, q)

\* Nothing changes.
LEMMA KeepsSame == \A e, p : Keeps(e, p, e, p)
BY DEF Keeps

\* The state of the units and of the cores has its type.
Typed(E, P) ==
    /\ E \in [Core -> Unit] /\ P \in [Core -> ElwCoreState]
    /\ \A k \in Core : Plain(P[k])

\* A core issues an access through its demux port.
LEMMA Issues ==
  ASSUME NoIrqInv, NEW c \in Core, ~cpu[c].parked
  PROVE  LET E == [eu EXCEPT ![c] = demux_enter(@)]
             P == [cpu EXCEPT ![c] = issued(@)]
         IN  /\ Typed(E, P)
             /\ \A k \in Core : /\ E[k].irq_req = NoIrq
                               /\ Keeps(eu[k], cpu[k], E[k], P[k])
<1> DEFINE E == [eu EXCEPT ![c] = demux_enter(@)]
           P == [cpu EXCEPT ![c] = issued(@)]
<1>1. /\ Free(eu[c], cpu[c]) /\ Plain(cpu[c]) /\ cpu[c].parked = FALSE
  BY ShapeFacts DEF Free
<1>2. Plain(issued(cpu[c])) /\ issued(cpu[c]).parked = FALSE
  BY <1>1, PlainSteps
<1>3. /\ Free(demux_enter(eu[c]), issued(cpu[c]))
      /\ demux_enter(eu[c]).status = eu[c].status
  BY <1>1, <1>2, Entered
<1>4. Keeps(eu[c], cpu[c], demux_enter(eu[c]), issued(cpu[c]))
  <2>1. ~Sleeping(eu[c], cpu[c]) /\ ~Coming(eu[c], cpu[c])
    BY <1>1 DEF Sleeping, Coming
  <2> QED BY <1>3, <2>1 DEF Keeps, Waits, Goes
<1>5. demux_enter(eu[c]) \in Unit /\ demux_enter(eu[c]).irq_req = NoIrq
  BY <1>3 DEF Free, Quiet
<1>6. issued(cpu[c]) \in ElwCoreState
  BY <1>2 DEF Plain
<1>7. eu \in [Core -> Unit] /\ cpu \in [Core -> ElwCoreState]
  BY DEF NoIrqInv, Types
<1>8. \A k \in Core : /\ E[k] = IF k = c THEN demux_enter(eu[c]) ELSE eu[k]
                      /\ P[k] = IF k = c THEN issued(cpu[c]) ELSE cpu[k]
  BY <1>7
<1>9. E \in [Core -> Unit] /\ P \in [Core -> ElwCoreState]
  BY <1>5, <1>6, <1>7
<1>10. \A k \in Core : Quiet(eu[k]) /\ Plain(cpu[k])
  BY ShapeFacts
<1> HIDE DEF E, P
<1>11. ASSUME NEW k \in Core
       PROVE  /\ E[k].irq_req = NoIrq /\ Plain(P[k])
              /\ Keeps(eu[k], cpu[k], E[k], P[k])
  <2>1. CASE k = c
    BY <1>2, <1>4, <1>5, <1>8, <2>1
  <2>2. CASE k # c
    BY <1>8, <1>10, <2>2, KeepsSame DEF Quiet
  <2> QED BY <2>1, <2>2
<1> QED BY <1>9, <1>11 DEF Typed, E, P

\* A core keeps what its arrival needs.
Stays(c) ==
    /\ arrived[c] = passed[c] /\ Free(eu[c], cpu[c]) =>
          Free(eu'[c], cpu'[c]) /\ eu'[c].status = eu[c].status
    /\ arrived[c] # passed[c] /\ Waits(eu[c], cpu[c]) => Waits(eu'[c], cpu'[c])
    /\ arrived[c] # passed[c] /\ Goes(eu[c], cpu[c]) => Goes(eu'[c], cpu'[c])

\* The counts of a barrier depend on the arrivals and on the status only.
LEMMA SameCount ==
  ASSUME NEW b \in Barrier, Counted(b), plan' = plan,
         barriers'[b].status = barriers[b].status,
         \A d \in Team[b] : arrived'[d] = arrived[d]
  PROVE  Counted(b)'
<1>1. PICK r \in Nat : \A d \in Team[b] :
         Tally(Program[d], b, arrived[d])
             = IF d \in barriers[b].status THEN r + 1 ELSE r
  BY DEF Counted
<1>2. Team' = Team /\ Program' = Program
  BY DEF Team, Program
<1>3. \A d \in Team'[b] : Tally(Program'[d], b, arrived'[d])
             = IF d \in barriers'[b].status THEN r + 1 ELSE r
  BY <1>1, <1>2
<1> QED BY <1>3 DEF Counted, Tally

\* A step in which no status and no count changes.
LEMMA QuietStep ==
  ASSUME NoIrqInv, Typed(eu', cpu'), UNCHANGED <<plan, arrived, passed, toclear>>,
         barriers' \in [Barrier -> BarrierState],
         \A b \in Barrier : barriers'[b].status = barriers[b].status,
         \A b \in Used : Masks(b)',
         \A c \in Core : Stays(c)
  PROVE  NoIrqInv'
<1>1. Types'
  BY DEF NoIrqInv, Types, Typed
<1>2. ASSUME NEW c \in Core PROVE CoreInv(c)'
  <2>1. CoreInv(c) /\ plan \in Plans /\ passed[c] \in Nat
    BY DEF NoIrqInv, Types
  <2>2. Ahead(c)' = Ahead(c) /\ Done(c)' = Done(c) /\ Program' = Program
    BY DEF Ahead, Done, Program
  <2>3. CASE arrived[c] = passed[c]
    BY <2>1, <2>2, <2>3, <1>2 DEF CoreInv, Stays
  <2>4. CASE arrived[c] # passed[c]
    <3>1. Ahead(c) \in Barrier
      BY <2>1, <2>4, AheadFacts DEF CoreInv
    <3>2. barriers'[Ahead(c)].status = barriers[Ahead(c)].status
      BY <3>1
    <3> QED BY <2>1, <2>2, <2>4, <3>2 DEF CoreInv, Stays
  <2> QED BY <2>3, <2>4
<1>3. ASSUME NEW b \in Used PROVE Masks(b)' /\ Bits(b)' /\ Counted(b)'
  <2>1. b \in Barrier /\ Bits(b) /\ Counted(b)
    BY DEF NoIrqInv, Used
  <2>2. Counted(b)'
    BY <2>1, SameCount
  <2>3. Bits(b)'
    BY <2>1 DEF Bits, Team, Ahead, Program
  <2> QED BY <2>2, <2>3
<1>4. Used' = Used
  BY DEF Used, Team
<1> QED BY <1>1, <1>2, <1>3, <1>4 DEF NoIrqInv

\* A write that leaves a barrier as x runs, the core not being in SKIP_ELW.
LEMMA Writes ==
  ASSUME NoIrqInv, NEW c \in Core, NEW b \in Barrier, NEW x, BarrierWrite(c, b, x)
  PROVE  /\ ~cpu[c].parked /\ plan' = plan
         /\ barriers' = [barriers EXCEPT ![b] = CheckedBarrier(x)]
         /\ LET E == CheckedUnits([eu EXCEPT ![c] = demux_enter(@)], x)
                P == [cpu EXCEPT ![c] = issued(@)]
            IN  eu' = SettledUnits(E, P) /\ cpu' = SettledCores(E, P)
<1>1. ~cpu[c].parked
  BY DEF BarrierWrite, CanIssueOther, CanIssue
<1>2. ~skips(eu[c])
  BY <1>1, ShapeFacts
<1> QED BY <1>1, <1>2 DEF BarrierWrite, Becomes

\* A register write that does not release the barrier nor change its status.
LEMMA MaskStep ==
  ASSUME NoIrqInv, NEW c \in Core, NEW b \in Used, NEW x, BarrierWrite(c, b, x),
         x \in BarrierState, ~reached(x), x.status = barriers[b].status,
         x.core_mask = Team[b], x.target_mask \in {{}, Team[b]},
         x.status # {} => x.target_mask = Team[b],
         UNCHANGED <<arrived, passed, toclear>>
  PROVE  NoIrqInv'
<1> DEFINE E == [eu EXCEPT ![c] = demux_enter(@)]
           P == [cpu EXCEPT ![c] = issued(@)]
<1>1. b \in Barrier
  BY DEF Used
<1>2. /\ ~cpu[c].parked /\ plan' = plan
      /\ barriers' = [barriers EXCEPT ![b] = x]
      /\ eu' = SettledUnits(E, P) /\ cpu' = SettledCores(E, P)
  BY <1>1, Writes DEF CheckedBarrier, CheckedUnits
<1>3. /\ Typed(E, P)
      /\ \A k \in Core : E[k].irq_req = NoIrq /\ Keeps(eu[k], cpu[k], E[k], P[k])
  BY <1>2, Issues
<1> HIDE DEF E, P
<1>4. eu' = E /\ cpu' = P
  BY <1>2, <1>3, Settled DEF Typed
<1>5. barriers \in [Barrier -> BarrierState]
  BY DEF NoIrqInv, Types
<1>6. /\ barriers' \in [Barrier -> BarrierState]
      /\ \A a \in Barrier : barriers'[a] = IF a = b THEN x ELSE barriers[a]
  BY <1>2, <1>5
<1>7. \A a \in Barrier : barriers'[a].status = barriers[a].status
  BY <1>6
<1>8. Team' = Team
  BY <1>2 DEF Team
<1>9. ASSUME NEW a \in Used PROVE Masks(a)'
  <2>1. a \in Barrier /\ Masks(a) /\ Masks(b) /\ Team[b] # {}
    BY DEF NoIrqInv, Used
  <2>2. CASE a # b
    <3>1. barriers'[a] = barriers[a]
      BY <1>6, <2>1, <2>2
    <3> QED BY <1>8, <2>1, <3>1 DEF Masks, SetUp
  <2>3. CASE a = b
    <3>1. barriers'[b] = x
      BY <1>1, <1>6
    <3> QED BY <1>8, <2>1, <2>3, <3>1 DEF Masks, SetUp
  <2> QED BY <2>2, <2>3
<1>10. \A k \in Core : Stays(k)
  BY <1>3, <1>4 DEF Stays, Keeps
<1> QED BY <1>2, <1>3, <1>4, <1>6, <1>7, <1>9, <1>10, QuietStep

\* The masks of a barrier are set up, and its status is cleared, before
\* anybody arrives.
LEMMA SetUpSteps ==
  ASSUME NoIrqInv, NEW c \in Core, NEW b \in Used,
         SetTriggerMask(c, b) \/ SetTargetMask(c, b) \/ SetStatus(c, b)
  PROVE  NoIrqInv'
<1>1. /\ b \in Barrier /\ Team[b] # {} /\ Team[b] \in SUBSET Core
      /\ Masks(b) /\ Bits(b) /\ barriers[b] \in BarrierState
      /\ plan \in Plans
  BY PlanFacts DEF NoIrqInv, Types, Used
<1>2. CASE SetTriggerMask(c, b)
  <2>1. PICK x : x = [barriers[b] EXCEPT !.core_mask = Team[b]]
    OBVIOUS
  <2>2. /\ x \in BarrierState /\ x.core_mask = Team[b]
        /\ x.target_mask = barriers[b].target_mask
        /\ x.status = barriers[b].status
    BY <1>1, <2>1 DEF BarrierState
  <2>3. x.status = {} /\ x.target_mask = {}
    BY <1>1, <1>2, <2>2 DEF SetTriggerMask, Masks, SetUp
  <2>4. ~reached(x)
    BY <1>1, <2>2, <2>3 DEF reached
  <2>5. BarrierWrite(c, b, x) /\ UNCHANGED <<arrived, passed, toclear>>
    BY <1>2, <2>1 DEF SetTriggerMask
  <2> QED BY <2>2, <2>3, <2>4, <2>5, MaskStep
<1>3. CASE SetTargetMask(c, b)
  <2>1. PICK x : x = [barriers[b] EXCEPT !.target_mask = Team[b]]
    OBVIOUS
  <2>2. /\ x \in BarrierState /\ x.core_mask = Team[b]
        /\ x.target_mask = Team[b]
        /\ x.status = barriers[b].status
    BY <1>1, <1>3, <2>1 DEF BarrierState, SetTargetMask
  <2>4. ~reached(x)
    BY <1>1, <2>2 DEF reached, Bits
  <2>5. BarrierWrite(c, b, x) /\ UNCHANGED <<arrived, passed, toclear>>
    BY <1>3, <2>1 DEF SetTargetMask
  <2> QED BY <2>2, <2>4, <2>5, MaskStep
<1>4. CASE SetStatus(c, b)
  <2>1. PICK x : x = [barriers[b] EXCEPT !.status = {}]
    OBVIOUS
  <2>2. /\ x \in BarrierState /\ x.core_mask = Team[b]
        /\ x.target_mask = Team[b] /\ x.status = {}
    BY <1>1, <1>4, <2>1 DEF BarrierState, SetStatus, SetUp
  <2>3. barriers[b].status = {}
    <3> SUFFICES ASSUME NEW d \in barriers[b].status PROVE FALSE
      OBVIOUS
    <3>1. d \in Core /\ arrived[d] # passed[d]
      BY <1>1 DEF Bits
    <3>2. arrived[d] = 0
      BY <1>4, <3>1 DEF SetStatus, Fresh
    <3>3. arrived[d] = passed[d] + 1 /\ passed[d] \in Nat
      BY <3>1 DEF NoIrqInv, CoreInv, Types
    <3> QED BY <3>2, <3>3
  <2>4. ~reached(x)
    BY <1>1, <2>2 DEF reached
  <2>5. BarrierWrite(c, b, x) /\ UNCHANGED <<arrived, passed, toclear>>
    BY <1>4, <2>1 DEF SetStatus
  <2> QED BY <2>2, <2>3, <2>4, <2>5, MaskStep
<1> QED BY <1>2, <1>3, <1>4

\* A cycle passes.
LEMMA TickStep ==
  ASSUME NoIrqInv, Tick
  PROVE  NoIrqInv'
<1>1. ASSUME NEW k \in Core
      PROVE  /\ tick(eu[k]) \in Unit /\ Plain(step_cycle(cpu[k]))
             /\ Keeps(eu[k], cpu[k], tick(eu[k]), step_cycle(cpu[k]))
  <2>1. /\ eu[k] \in Unit /\ cpu[k] \in ElwCoreState /\ Plain(cpu[k])
        /\ nothing_due(eu[k])
    BY ShapeFacts DEF Tick
  <2> QED BY <2>1, Ticked, PlainSteps DEF Keeps
<1>2. /\ eu' = [c \in Core |-> tick(eu[c])]
      /\ cpu' = [c \in Core |-> step_cycle(cpu[c])]
      /\ UNCHANGED <<plan, barriers, arrived, passed, toclear>>
  BY DEF Tick
<1>3. \A k \in Core : eu'[k] = tick(eu[k]) /\ cpu'[k] = step_cycle(cpu[k])
  BY <1>2
<1>4. Typed(eu', cpu')
  BY <1>1, <1>2 DEF Typed, Plain
<1>5. \A k \in Core : Stays(k)
  BY <1>1, <1>3 DEF Keeps, Stays
<1>6. barriers' \in [Barrier -> BarrierState] /\ \A b \in Used : Masks(b)'
  BY <1>2 DEF NoIrqInv, Types, Masks, SetUp, Team
<1> QED BY <1>2, <1>4, <1>5, <1>6, QuietStep

\* Nothing happens.
LEMMA StutterStep ==
  ASSUME NoIrqInv, UNCHANGED vars
  PROVE  NoIrqInv'
<1>1. Typed(eu', cpu') /\ \A k \in Core : Stays(k)
  BY DEF vars, NoIrqInv, Types, Typed, Stays
<1>2. barriers' \in [Barrier -> BarrierState] /\ \A b \in Used : Masks(b)'
  BY DEF vars, NoIrqInv, Types, Masks, SetUp, Team
<1> QED BY <1>1, <1>2, QuietStep DEF vars

-----------------------------------------------------------------------------
(***************************************************************************)
(* Steps of one core.                                                      *)
(***************************************************************************)

\* A call that leaves the unit of c as f and the core as q.
LEMMA OneCore ==
  ASSUME NoIrqInv, NEW c \in Core, NEW f, NEW q, Quiet(f), Plain(q),
         Becomes([eu EXCEPT ![c] = f], [cpu EXCEPT ![c] = q])
  PROVE  /\ Typed(eu', cpu') /\ plan' = plan /\ eu'[c] = f /\ cpu'[c] = q
         /\ \A k \in Core : k # c => eu'[k] = eu[k] /\ cpu'[k] = cpu[k]
<1> DEFINE E == [eu EXCEPT ![c] = f]
           P == [cpu EXCEPT ![c] = q]
<1>1. eu \in [Core -> Unit] /\ cpu \in [Core -> ElwCoreState]
  BY DEF NoIrqInv, Types
<1>2. f \in Unit /\ q \in ElwCoreState
  BY DEF Quiet, Plain
<1>3. E \in [Core -> Unit] /\ P \in [Core -> ElwCoreState]
  BY <1>1, <1>2
<1>4. /\ E[c] = f /\ P[c] = q
      /\ \A k \in Core : k # c => E[k] = eu[k] /\ P[k] = cpu[k]
  BY <1>1
<1>5. plan' = plan /\ eu' = SettledUnits(E, P) /\ cpu' = SettledCores(E, P)
  BY DEF Becomes
<1> HIDE DEF E, P
<1>6. \A k \in Core : Quiet(eu[k]) /\ Plain(cpu[k])
  BY ShapeFacts
<1>7. \A k \in Core : E[k].irq_req = NoIrq /\ Plain(P[k])
  BY <1>4, <1>6 DEF Quiet
<1>8. eu' = E /\ cpu' = P
  BY <1>3, <1>5, <1>7, Settled
<1> QED BY <1>3, <1>4, <1>5, <1>7, <1>8 DEF Typed

\* A step of one core that is in no status.
LEMMA CoreStep ==
  ASSUME NoIrqInv, NEW c \in Core, Typed(eu', cpu'),
         UNCHANGED <<plan, barriers, arrived>>,
         passed' \in [Core -> Nat], toclear' \in [Core -> BOOLEAN],
         \A k \in Core : k # c => /\ eu'[k] = eu[k] /\ cpu'[k] = cpu[k]
                                  /\ passed'[k] = passed[k]
                                  /\ toclear'[k] = toclear[k],
         CoreInv(c)', \A b \in Used : c \notin barriers[b].status
  PROVE  NoIrqInv'
<1>1. Types'
  BY DEF NoIrqInv, Types, Typed
<1>2. ASSUME NEW k \in Core PROVE CoreInv(k)'
  <2>1. CASE k = c
    BY <2>1
  <2>2. CASE k # c
    <3>1. CoreInv(k)
      BY DEF NoIrqInv
    <3>2. Ahead(k)' = Ahead(k) /\ Done(k)' = Done(k) /\ Program' = Program
      BY <2>2 DEF Ahead, Done, Program
    <3> QED BY <2>2, <3>1, <3>2 DEF CoreInv
  <2> QED BY <2>1, <2>2
<1>3. ASSUME NEW b \in Used PROVE Masks(b)' /\ Bits(b)' /\ Counted(b)'
  <2>1. b \in Barrier /\ Masks(b) /\ Bits(b) /\ Counted(b) /\ Team[b] \subseteq Core
    BY PlanFacts DEF NoIrqInv, Types, Used
  <2>2. Masks(b)'
    BY <2>1 DEF Masks, SetUp, Team
  <2>3. \A d \in barriers[b].status : d # c /\ d \in Core
    BY <2>1 DEF Bits
  <2>4. Bits(b)'
    BY <2>1, <2>3 DEF Bits, Team, Ahead, Program
  <2>5. Counted(b)'
    BY <2>1, SameCount
  <2> QED BY <2>2, <2>4, <2>5
<1>4. Used' = Used
  BY DEF Used, Team
<1> QED BY <1>1, <1>2, <1>3, <1>4 DEF NoIrqInv

\* A core that goes on is through with its barrier.
LEMMA PassStep ==
  ASSUME NoIrqInv, NEW c \in Core, arrived[c] # passed[c],
         Goes(eu[c], cpu[c]), NEW insn, Passes(c, insn),
         Typed(eu', cpu'), UNCHANGED <<plan, barriers, arrived>>,
         Free(eu'[c], cpu'[c]), eu'[c].status = Release \ Clears(insn),
         \A k \in Core : k # c => eu'[k] = eu[k] /\ cpu'[k] = cpu[k]
  PROVE  NoIrqInv'
<1>1. /\ arrived[c] = passed[c] + 1 /\ ~Done(c) /\ passed[c] \in Nat
      /\ passed[c] <= Len(Program[c]) /\ plan \in Plans
      /\ passed \in [Core -> Nat] /\ toclear \in [Core -> BOOLEAN]
  BY DEF NoIrqInv, CoreInv, Types
<1>2. ~Waits(eu[c], cpu[c])
  BY ReleaseFacts DEF Goes, Waits, Free, Sleeping, Coming
<1>3. c \notin barriers[Ahead(c)].status
  BY <1>2 DEF NoIrqInv, CoreInv
<1>4. \A b \in Used : c \notin barriers[b].status
  BY <1>3 DEF NoIrqInv, Bits
<1>5. /\ passed'[c] = passed[c] + 1 /\ toclear'[c] = (insn = "trigger_wait")
      /\ passed' \in [Core -> Nat] /\ toclear' \in [Core -> BOOLEAN]
      /\ \A k \in Core : k # c => passed'[k] = passed[k] /\ toclear'[k] = toclear[k]
  BY <1>1 DEF Passes
<1>6. passed[c] + 1 <= Len(Program[c])
  BY <1>1, AheadFacts
<1>7. eu'[c].status = IF toclear'[c] THEN Release ELSE {}
  BY <1>5 DEF Clears
<1>8. CoreInv(c)'
  BY <1>1, <1>5, <1>6, <1>7 DEF CoreInv, Program
<1> QED BY <1>4, <1>5, <1>8, CoreStep

\* The answer of the parked read.
LEMMA WakeupStep ==
  ASSUME NoIrqInv, NEW c \in Core, Wakeup(c)
  PROVE  NoIrqInv'
<1>1. Coming(eu[c], cpu[c])
  <2>1. eu[c].wakeup # Idle
    BY DEF Wakeup, Idle
  <2> QED BY <2>1, ShapeFacts DEF Free, Sleeping
<1>2. Plain(cpu[c]) /\ cpu[c] \in ElwCoreState
  BY ShapeFacts
<1>3. PICK f : f = answered(eu[c])
  OBVIOUS
<1>4. PICK q : q = retired(cpu[c], eu[c])
  OBVIOUS
<1>5. /\ Free(f, q) /\ f.status = Release \ Clears(cpu[c].elw_insn)
  BY <1>1, <1>2, <1>3, <1>4, Answered
<1>6. Quiet(f) /\ Plain(q)
  BY <1>2, <1>4, <1>5, PlainSteps DEF Free
<1>7. Becomes([eu EXCEPT ![c] = f], [cpu EXCEPT ![c] = q])
  BY <1>3, <1>4 DEF Wakeup
<1>8. /\ Typed(eu', cpu') /\ plan' = plan /\ eu'[c] = f /\ cpu'[c] = q
      /\ \A k \in Core : k # c => eu'[k] = eu[k] /\ cpu'[k] = cpu[k]
  BY <1>6, <1>7, OneCore
<1>9. arrived[c] # passed[c]
  BY <1>1 DEF NoIrqInv, CoreInv, Free, Coming
<1>10. PICK insn : insn = cpu[c].elw_insn
  OBVIOUS
<1>11. Passes(c, insn) /\ UNCHANGED <<barriers, arrived>>
  BY <1>1, <1>10 DEF Wakeup, Coming
<1>12. Goes(eu[c], cpu[c])
  BY <1>1 DEF Goes
<1> QED BY <1>5, <1>8, <1>9, <1>10, <1>11, <1>12, PassStep

\* The event-wait read that ends an arrival in two steps.
LEMMA WaitClearStep ==
  ASSUME NoIrqInv, NEW c \in Core, "wait_clear" \in Elw, WaitClear(c)
  PROVE  NoIrqInv'
<1>1. ~cpu[c].parked
  BY DEF WaitClear, CanIssueElw, CanIssue
<1>2. Free(eu[c], cpu[c]) /\ Plain(cpu[c]) /\ cpu[c].parked = FALSE
  BY <1>1, ShapeFacts DEF Free
<1>3. arrived[c] # passed[c] /\ arrived[c] = passed[c] + 1
  BY DEF WaitClear, NoIrqInv, Types
<1>4. PICK e : e = WaitUnit(eu[c])
  OBVIOUS
<1>5. /\ evt_masked(e) = eu[c].status
      /\ eu[c].status = Release => \A q : q.parked = FALSE =>
            Free(wait_event_sync(e), q) /\ wait_event_sync(e).status = {}
      /\ eu[c].status = {} => \A q :
            q.parked = TRUE /\ q.elw_insn = "wait_clear" =>
                Sleeping(put_to_sleep(e, "WAITING_EVENT"), q)
  BY <1>2, <1>4, WaitReads
<1>6. /\ \/ /\ evt_masked(e) # {}
            /\ Becomes([eu EXCEPT ![c] = wait_event_sync(e)],
                       [cpu EXCEPT ![c] = elw_done(@)])
            /\ Passes(c, "wait_clear")
         \/ /\ evt_masked(e) = {}
            /\ Becomes([eu EXCEPT ![c] = put_to_sleep(e, "WAITING_EVENT")],
                       [cpu EXCEPT ![c] = elw_parked(@, "wait_clear")])
            /\ UNCHANGED <<passed, toclear>>
      /\ UNCHANGED <<barriers, arrived>>
  BY <1>4 DEF WaitClear, WaitUnit
<1>7. CASE evt_masked(e) # {}
  <2>1. eu[c].status = Release
    BY <1>2, <1>5, <1>7, QuietFacts DEF Free
  <2>2. PICK f : f = wait_event_sync(e)
    OBVIOUS
  <2>3. PICK q : q = elw_done(cpu[c])
    OBVIOUS
  <2>4. Plain(q) /\ q.parked = FALSE
    BY <1>2, <2>3, PlainSteps
  <2>5. Free(f, q) /\ f.status = {}
    BY <1>5, <2>1, <2>2, <2>4
  <2>6. Becomes([eu EXCEPT ![c] = f], [cpu EXCEPT ![c] = q])
    BY <1>6, <1>7, <2>2, <2>3
  <2>7. /\ Typed(eu', cpu') /\ plan' = plan /\ eu'[c] = f /\ cpu'[c] = q
        /\ \A k \in Core : k # c => eu'[k] = eu[k] /\ cpu'[k] = cpu[k]
    BY <2>4, <2>5, <2>6, OneCore DEF Free
  <2>8. Goes(eu[c], cpu[c])
    BY <1>2, <2>1 DEF Goes
  <2>9. {} = Release \ Clears("wait_clear")
    BY DEF Clears
  <2> QED BY <1>3, <1>6, <1>7, <2>5, <2>7, <2>8, <2>9, PassStep
<1>8. CASE evt_masked(e) = {}
  <2>1. eu[c].status = {}
    BY <1>5, <1>8
  <2>2. PICK f : f = put_to_sleep(e, "WAITING_EVENT")
    OBVIOUS
  <2>3. PICK q : q = elw_parked(cpu[c], "wait_clear")
    OBVIOUS
  <2>4. Plain(q) /\ q.parked = TRUE /\ q.elw_insn = "wait_clear"
    BY <1>2, <2>3, PlainSteps, ZenonT(60)
  <2>5. Sleeping(f, q)
    BY <1>5, <2>1, <2>2, <2>4
  <2>6. Becomes([eu EXCEPT ![c] = f], [cpu EXCEPT ![c] = q])
    BY <1>6, <1>8, <2>2, <2>3
  <2>7. /\ Typed(eu', cpu') /\ plan' = plan /\ eu'[c] = f /\ cpu'[c] = q
        /\ \A k \in Core : k # c => eu'[k] = eu[k] /\ cpu'[k] = cpu[k]
    BY <2>4, <2>5, <2>6, OneCore DEF Sleeping
  <2>8. ~Goes(eu[c], cpu[c])
    BY <1>2, <2>1, ReleaseFacts DEF Goes, Coming
  <2>9. \A k \in Core : Stays(k)
    BY <1>3, <2>5, <2>7, <2>8 DEF Stays, Waits
  <2>10. UNCHANGED <<barriers, arrived, passed, toclear>>
    BY <1>6, <1>8
  <2>11. barriers' \in [Barrier -> BarrierState] /\ \A b \in Used : Masks(b)'
    BY <2>7, <2>10 DEF NoIrqInv, Types, Masks, SetUp, Team
  <2> QED BY <2>7, <2>9, <2>10, <2>11, QuietStep
<1> QED BY <1>7, <1>8

\* The software clears the event of its barrier.
LEMMA ClearStep ==
  ASSUME NoIrqInv, NEW c \in Core, ClearEvent(c)
  PROVE  NoIrqInv'
<1>1. ~cpu[c].parked /\ toclear[c]
  BY DEF ClearEvent, CanIssueOther, CanIssue
<1>2. Free(eu[c], cpu[c]) /\ Plain(cpu[c]) /\ cpu[c].parked = FALSE
  BY <1>1, ShapeFacts DEF Free
<1>3. arrived[c] = passed[c] /\ CoreInv(c)
  BY <1>1 DEF NoIrqInv, CoreInv
<1>4. PICK f : f = check_state(clear_status(demux_enter(eu[c]), Release))
  OBVIOUS
<1>5. PICK q : q = issued(cpu[c])
  OBVIOUS
<1>6. Plain(q) /\ q.parked = FALSE
  BY <1>2, <1>5, PlainSteps
<1>7. Free(f, q) /\ f.status = {}
  BY <1>2, <1>4, <1>6, Cleared
<1>8. /\ Becomes([eu EXCEPT ![c] = f], [cpu EXCEPT ![c] = q])
      /\ toclear' = [toclear EXCEPT ![c] = FALSE]
      /\ UNCHANGED <<barriers, arrived, passed>>
  BY <1>4, <1>5 DEF ClearEvent, Release
<1>9. /\ Typed(eu', cpu') /\ plan' = plan /\ eu'[c] = f /\ cpu'[c] = q
      /\ \A k \in Core : k # c => eu'[k] = eu[k] /\ cpu'[k] = cpu[k]
  BY <1>6, <1>7, <1>8, OneCore DEF Free
<1>10. /\ passed' \in [Core -> Nat] /\ toclear' \in [Core -> BOOLEAN]
       /\ toclear'[c] = FALSE
       /\ \A k \in Core : k # c => toclear'[k] = toclear[k]
  BY <1>8 DEF NoIrqInv, Types
<1>11. CoreInv(c)'
  BY <1>3, <1>7, <1>8, <1>9, <1>10 DEF CoreInv, Program
<1>12. \A b \in Used : c \notin barriers[b].status
  BY <1>3 DEF NoIrqInv, Bits
<1> QED BY <1>8, <1>9, <1>10, <1>11, <1>12, CoreStep

-----------------------------------------------------------------------------
(***************************************************************************)
(* Arrivals.                                                               *)
(***************************************************************************)

\* Core d arrives at barrier b, which is x then.  The last arrival sends the
\* whole team on, any other leaves d waiting.
Arrives(d, b, x) ==
    /\ Between(d) /\ b = Ahead(d) /\ SetUp(b) /\ x = with_core(barriers[b], d)
    /\ barriers' = [barriers EXCEPT ![b] = CheckedBarrier(x)]
    /\ arrived' = [arrived EXCEPT ![d] = passed[d] + 1]
    /\ UNCHANGED <<plan, passed, toclear>>
    /\ Typed(eu', cpu')
    /\ reached(x) => /\ \A k \in Team[b] : Goes(eu'[k], cpu'[k])
                     /\ \A k \in Core \ Team[b] : Stays(k)
    /\ ~reached(x) => /\ Waits(eu'[d], cpu'[d])
                      /\ \A k \in Core \ {d} : Stays(k)

\* What core d finds at barrier b.
Found(d, b, x) ==
    /\ plan \in Plans /\ Team \in [Barrier -> SUBSET Core]
    /\ b \in Used /\ b \in Barrier /\ d \in Team[b] /\ b = Ahead(d)
    /\ passed[d] \in Nat /\ arrived[d] = passed[d] /\ ~Done(d)
    /\ toclear[d] = FALSE
    /\ Free(eu[d], cpu[d]) /\ eu[d].status = {}
    /\ \A a \in Used : d \notin barriers[a].status
    /\ barriers \in [Barrier -> BarrierState]
    /\ x.core_mask = Team[b] /\ x.target_mask = Team[b]
    /\ x.status = barriers[b].status \cup {d}
    /\ x \in BarrierState

\* A core that comes to a barrier is in no status and has no event left.
LEMMA ArrivalFacts ==
  ASSUME NoIrqInv, NEW d \in Core, NEW b, NEW x,
         Between(d), b = Ahead(d), SetUp(b), x = with_core(barriers[b], d)
  PROVE  Found(d, b, x)
<1>1. /\ arrived[d] = passed[d] /\ ~Done(d) /\ ~toclear[d] /\ b = Ahead(d)
      /\ SetUp(b) /\ x = with_core(barriers[b], d)
  BY DEF Between
<1>2. /\ plan \in Plans /\ passed[d] \in Nat /\ passed[d] <= Len(Program[d])
      /\ toclear[d] = FALSE /\ barriers \in [Barrier -> BarrierState] /\ CoreInv(d)
  BY <1>1 DEF NoIrqInv, Types, CoreInv
<1>3. b \in Used /\ b \in Barrier /\ d \in Team[b]
  BY <1>1, <1>2, AheadFacts
<1>4. Free(eu[d], cpu[d]) /\ eu[d].status = {}
  BY <1>1, <1>2 DEF CoreInv
<1>5. \A a \in Used : d \notin barriers[a].status
  BY <1>1 DEF NoIrqInv, Bits
<1>6. /\ x.core_mask = Team[b] /\ x.target_mask = Team[b]
      /\ x.status = barriers[b].status \cup {d} /\ x \in BarrierState
  BY <1>1, <1>2, <1>3 DEF with_core, SetUp, BarrierState
<1> QED BY <1>1, <1>2, <1>3, <1>4, <1>5, <1>6, PlanFacts DEF Found

\* The cores that are in the status of a barrier wait there.
LEMMA BitsWait ==
  ASSUME NoIrqInv, NEW b \in Used, NEW k \in barriers[b].status
  PROVE  /\ k \in Core /\ arrived[k] # passed[k] /\ Ahead(k) = b
         /\ Waits(eu[k], cpu[k])
<1>1. k \in Core
  BY PlanFacts DEF NoIrqInv, Types, Bits, Used
<1>2. arrived[k] # passed[k] /\ Ahead(k) = b
  BY DEF NoIrqInv, Bits
<1> QED BY <1>1, <1>2 DEF NoIrqInv, CoreInv

\* The status and the arrivals after core d has come to barrier b.
Left(d, b, x) ==
    /\ barriers' \in [Barrier -> BarrierState]
    /\ SetUp(b)'
    /\ barriers'[b].status = IF reached(x) THEN {} ELSE barriers[b].status \cup {d}
    /\ \A a \in Barrier : a # b => barriers'[a] = barriers[a]
    /\ arrived' \in [Core -> Nat] /\ arrived'[d] = passed[d] + 1
    /\ \A k \in Core : k # d => arrived'[k] = arrived[k]

\* An arrival sets the bit of its core, the last one takes them all away.
LEMMA ArrivalEffect ==
  ASSUME NoIrqInv, NEW d \in Core, NEW b, NEW x, Arrives(d, b, x)
  PROVE  Found(d, b, x) /\ Left(d, b, x)
<1>0. Found(d, b, x)
  BY ArrivalFacts DEF Arrives
<1>1. /\ b \in Barrier /\ x \in BarrierState
      /\ barriers \in [Barrier -> BarrierState]
      /\ x.core_mask = Team[b] /\ x.target_mask = Team[b]
      /\ x.status = barriers[b].status \cup {d}
      /\ passed[d] \in Nat
  BY <1>0 DEF Found
<1>2. PICK y : y = CheckedBarrier(x)
  OBVIOUS
<1>3. /\ y \in BarrierState /\ y.core_mask = Team[b] /\ y.target_mask = Team[b]
      /\ y.status = IF reached(x) THEN {} ELSE x.status
  BY <1>1, <1>2 DEF CheckedBarrier, BarrierState
<1>4. barriers' = [barriers EXCEPT ![b] = y]
  BY <1>2 DEF Arrives
<1>5. /\ barriers' \in [Barrier -> BarrierState] /\ barriers'[b] = y
      /\ \A a \in Barrier : a # b => barriers'[a] = barriers[a]
  BY <1>1, <1>3, <1>4
<1>6. SetUp(b)'
  BY <1>3, <1>5 DEF SetUp, Arrives, Team
<1>7. arrived \in [Core -> Nat] /\ arrived' = [arrived EXCEPT ![d] = passed[d] + 1]
  BY DEF NoIrqInv, Types, Arrives
<1>8. /\ arrived' \in [Core -> Nat] /\ arrived'[d] = passed[d] + 1
      /\ \A k \in Core : k # d => arrived'[k] = arrived[k]
  BY <1>1, <1>7
<1> QED BY <1>0, <1>1, <1>3, <1>5, <1>6, <1>8 DEF Left

\* Every core waits or goes on as the status says.
LEMMA ArrivalCores ==
  ASSUME NoIrqInv, NEW d \in Core, NEW b, NEW x, Arrives(d, b, x),
         NEW k \in Core
  PROVE  CoreInv(k)'
<1>0. Found(d, b, x) /\ Left(d, b, x)
  BY ArrivalEffect
<1>1. /\ plan \in Plans /\ b \in Used /\ b \in Barrier /\ d \in Team[b]
      /\ passed[d] \in Nat /\ ~Done(d) /\ toclear[d] = FALSE
      /\ x.status = barriers[b].status \cup {d} /\ x.core_mask = Team[b]
      /\ b = Ahead(d)
  BY <1>0 DEF Found
<1>2. /\ barriers'[b].status = IF reached(x) THEN {} ELSE barriers[b].status \cup {d}
      /\ \A a \in Barrier : a # b => barriers'[a] = barriers[a]
      /\ arrived'[d] = passed[d] + 1
      /\ k # d => arrived'[k] = arrived[k]
  BY <1>0 DEF Left
<1>3. /\ Ahead(k)' = Ahead(k) /\ Done(k)' = Done(k) /\ Program' = Program
      /\ passed' = passed /\ toclear' = toclear
  BY DEF Arrives, Ahead, Done, Program
<1>4. CoreInv(k) /\ passed[k] \in Nat
  BY DEF NoIrqInv, Types
<1>5. CASE k = d
  <2>1. /\ reached(x) => Goes(eu'[d], cpu'[d])
        /\ ~reached(x) => Waits(eu'[d], cpu'[d])
    BY <1>1 DEF Arrives
  <2>2. d \in barriers'[b].status <=> ~reached(x)
    BY <1>2
  <2>3. arrived'[d] # passed[d]
    BY <1>1, <1>2
  <2>4. Ahead(d)' = b /\ Done(d)' = Done(d)
    BY <1>1, <1>3, <1>5
  <2> QED BY <1>1, <1>2, <1>3, <1>4, <1>5, <2>1, <2>2, <2>3, <2>4 DEF CoreInv
<1>6. CASE k # d /\ k \in Team[b] /\ reached(x)
  <2>1. k \in barriers[b].status
    BY <1>1, <1>6 DEF reached
  <2>2. arrived[k] # passed[k] /\ Ahead(k) = b
    BY <1>1, <2>1, BitsWait
  <2>3. Goes(eu'[k], cpu'[k]) /\ barriers'[b].status = {}
    BY <1>2, <1>6 DEF Arrives
  <2> QED BY <1>2, <1>3, <1>4, <1>6, <2>2, <2>3 DEF CoreInv
<1>7. CASE k # d /\ ~(k \in Team[b] /\ reached(x))
  <2>1. Stays(k)
    BY <1>7 DEF Arrives
  <2>2. CASE arrived[k] = passed[k]
    BY <1>2, <1>3, <1>4, <1>7, <2>1, <2>2 DEF CoreInv, Stays
  <2>3. CASE arrived[k] # passed[k]
    <3>1. Ahead(k) \in Barrier /\ k \in Team[Ahead(k)]
      BY <1>1, <1>4, <2>3, AheadFacts DEF CoreInv
    <3>2. k \in barriers'[Ahead(k)].status <=> k \in barriers[Ahead(k)].status
      BY <1>2, <1>7, <3>1
    <3> QED BY <1>2, <1>3, <1>4, <1>7, <2>1, <2>3, <3>2 DEF CoreInv, Stays
  <2> QED BY <2>2, <2>3
<1> QED BY <1>5, <1>6, <1>7

\* An arrival is counted where it is made and nowhere else, and a release
\* ends the round.
LEMMA ArrivalCounts ==
  ASSUME NoIrqInv, NEW d \in Core, NEW b, NEW x, Arrives(d, b, x),
         NEW a \in Used
  PROVE  Counted(a)'
<1>0. Found(d, b, x) /\ Left(d, b, x)
  BY ArrivalEffect
<1>1. /\ plan \in Plans /\ b \in Used /\ b \in Barrier /\ d \in Team[b]
      /\ Team \in [Barrier -> SUBSET Core]
      /\ passed[d] \in Nat /\ arrived[d] = passed[d]
      /\ x.status = barriers[b].status \cup {d} /\ x.core_mask = Team[b]
      /\ b = Ahead(d) /\ \A c \in Used : d \notin barriers[c].status
  BY <1>0 DEF Found
<1>2. /\ barriers'[b].status = IF reached(x) THEN {} ELSE barriers[b].status \cup {d}
      /\ \A c \in Barrier : c # b => barriers'[c] = barriers[c]
      /\ arrived'[d] = passed[d] + 1
      /\ \A k \in Core : k # d => arrived'[k] = arrived[k]
  BY <1>0 DEF Left
<1>3. Team' = Team /\ Program' = Program
  BY DEF Arrives, Team, Program
<1>4. a \in Barrier /\ Counted(a)
  BY DEF NoIrqInv, Used
<1>5. PICK r \in Nat : \A k \in Team[a] :
         Tally(Program[k], a, arrived[k])
             = IF k \in barriers[a].status THEN r + 1 ELSE r
  BY <1>4 DEF Counted
<1>6. PICK n \in Nat : n = passed[d]
  BY <1>1
<1>7. PICK s : s = Program[d]
  OBVIOUS
<1>8. Tally(s, a, n + 1) = Tally(s, a, n) + (IF b = a THEN 1 ELSE 0)
  <2>1. s[n + 1] = b
    BY <1>1, <1>6, <1>7 DEF Ahead
  <2> QED BY <2>1, TallyNext
<1>9. d \in Team[a] => Tally(s, a, n) = r
  BY <1>1, <1>5, <1>6, <1>7
<1>10. d \in Team[a] => Tally(Program[d], a, arrived'[d]) = IF b = a THEN r + 1 ELSE r
  <2>1. arrived'[d] = n + 1
    BY <1>2, <1>6
  <2>2. d \in Team[a] => Tally(s, a, n + 1) = IF b = a THEN r + 1 ELSE r
    BY <1>8, <1>9
  <2> QED BY <1>7, <2>1, <2>2
<1>11. \A k \in Team[a] : k # d =>
          Tally(Program[k], a, arrived'[k])
              = IF k \in barriers[a].status THEN r + 1 ELSE r
  BY <1>1, <1>2, <1>4, <1>5
<1>12. CASE a # b
  <2>1. \A k \in Team[a] : Tally(Program[k], a, arrived'[k])
             = IF k \in barriers'[a].status THEN r + 1 ELSE r
    BY <1>1, <1>2, <1>4, <1>10, <1>11, <1>12
  <2> QED BY <1>3, <2>1 DEF Counted, Tally
<1>13. CASE a = b /\ reached(x)
  <2>1. barriers'[a].status = {} /\ \A k \in Team[a] : k # d => k \in barriers[a].status
    BY <1>1, <1>2, <1>13 DEF reached
  <2>2. PICK t \in Nat : t = r + 1
    OBVIOUS
  <2>3. \A k \in Team[a] : Tally(Program[k], a, arrived'[k])
             = IF k \in barriers'[a].status THEN t + 1 ELSE t
    BY <1>10, <1>11, <1>13, <2>1, <2>2
  <2> QED BY <1>3, <2>3 DEF Counted, Tally
<1>14. CASE a = b /\ ~reached(x)
  <2>1. barriers'[a].status = barriers[a].status \cup {d}
    BY <1>2, <1>14
  <2>2. \A k \in Team[a] : Tally(Program[k], a, arrived'[k])
             = IF k \in barriers'[a].status THEN r + 1 ELSE r
    BY <1>10, <1>11, <1>14, <2>1
  <2> QED BY <1>3, <2>2 DEF Counted, Tally
<1> QED BY <1>12, <1>13, <1>14

\* An arrival keeps the invariant.
LEMMA ArrivalStep ==
  ASSUME NoIrqInv, NEW d \in Core, NEW b, NEW x, Arrives(d, b, x)
  PROVE  NoIrqInv'
<1>0. Found(d, b, x) /\ Left(d, b, x)
  BY ArrivalEffect
<1>1. /\ plan \in Plans /\ b \in Used /\ b \in Barrier /\ d \in Team[b]
      /\ Team \in [Barrier -> SUBSET Core]
      /\ passed[d] \in Nat
      /\ x.status = barriers[b].status \cup {d} /\ x.core_mask = Team[b]
      /\ b = Ahead(d) /\ \A a \in Used : d \notin barriers[a].status
  BY <1>0 DEF Found
<1>2. /\ barriers' \in [Barrier -> BarrierState] /\ SetUp(b)'
      /\ barriers'[b].status = IF reached(x) THEN {} ELSE barriers[b].status \cup {d}
      /\ \A a \in Barrier : a # b => barriers'[a] = barriers[a]
      /\ arrived' \in [Core -> Nat] /\ arrived'[d] = passed[d] + 1
      /\ \A k \in Core : k # d => arrived'[k] = arrived[k]
  BY <1>0 DEF Left
<1>3. UNCHANGED <<plan, passed, toclear>> /\ Typed(eu', cpu')
  BY DEF Arrives
<1>4. Types'
  BY <1>2, <1>3 DEF NoIrqInv, Types, Typed
<1>5. \A k \in Core : CoreInv(k)'
  BY ArrivalCores
<1>6. ASSUME NEW a \in Used PROVE Masks(a)' /\ Bits(a)'
  <2>1. a \in Barrier /\ Masks(a) /\ Bits(a) /\ Team[a] \subseteq Core /\ Team[a] # {}
    BY <1>1 DEF NoIrqInv, Used
  <2>2. Team' = Team /\ \A k : Ahead(k)' = Ahead(k)
    BY <1>3 DEF Team, Ahead, Program
  <2>3. CASE a # b
    <3>1. barriers'[a] = barriers[a]
      BY <1>2, <2>1, <2>3
    <3>2. Masks(a)'
      BY <2>1, <2>2, <3>1 DEF Masks, SetUp
    <3>3. \A k \in barriers[a].status : k \in Core /\ k # d
      BY <1>1, <2>1 DEF Bits
    <3>4. Bits(a)'
      BY <1>2, <1>3, <2>1, <2>2, <3>1, <3>3 DEF Bits
    <3> QED BY <3>2, <3>4
  <2>4. CASE a = b
    <3>1. Masks(a)'
      BY <1>2, <2>4 DEF Masks, SetUp
    <3>2. barriers'[a].status # Team[a] /\ barriers'[a].status \subseteq Team[a]
      BY <1>1, <1>2, <2>1, <2>4 DEF reached, Bits
    <3>3. ASSUME NEW k \in barriers'[a].status
          PROVE  arrived'[k] # passed'[k] /\ Ahead(k)' = a
      <4>1. k = d \/ (k # d /\ k \in barriers[b].status)
        BY <1>2, <2>4
      <4>2. CASE k = d
        BY <1>1, <1>2, <1>3, <2>2, <2>4, <4>2
      <4>3. CASE k # d /\ k \in barriers[b].status
        <5>1. k \in Core /\ arrived[k] # passed[k] /\ Ahead(k) = b
          BY <1>1, <4>3, BitsWait
        <5> QED BY <1>2, <1>3, <2>2, <2>4, <4>3, <5>1
      <4> QED BY <4>1, <4>2, <4>3
    <3>4. Bits(a)'
      BY <2>2, <3>2, <3>3 DEF Bits
    <3> QED BY <3>1, <3>4
  <2> QED BY <2>3, <2>4
<1>7. \A a \in Used : Counted(a)'
  BY ArrivalCounts
<1>8. Used' = Used
  BY <1>3 DEF Used, Team
<1> QED BY <1>4, <1>5, <1>6, <1>7, <1>8 DEF NoIrqInv

\* Before the last arrival the rest of the team waits.
LEMMA TeamWaits ==
  ASSUME NoIrqInv, NEW d \in Core, NEW b, NEW x, Found(d, b, x), reached(x),
         NEW k \in Team[b], k # d
  PROVE  k \in Core /\ Waits(eu[k], cpu[k])
<1>1. b \in Used /\ k \in barriers[b].status
  BY DEF Found, reached
<1> QED BY <1>1, BitsWait

\* The release reaches the team and nobody else.
LEMMA ReleaseTeam ==
  ASSUME NEW E, NEW x, x.target_mask # {}, NEW k \in Core
  PROVE  /\ reached(x) /\ k \in x.target_mask =>
                CheckedUnits(E, x)[k] = send_event(E[k], Release, 1)
         /\ ~reached(x) \/ k \notin x.target_mask => (E \in [Core -> Unit] =>
                CheckedUnits(E, x)[k] = E[k])
BY DEF CheckedUnits, trigger_event, Release

\* CheckedUnits is a function on the cores.
LEMMA CheckedFunction ==
  ASSUME NEW E, E \in [Core -> Unit], NEW x,
         \A k \in Core : CheckedUnits(E, x)[k] \in Unit
  PROVE  CheckedUnits(E, x) \in [Core -> Unit]
<1>1. CASE reached(x)
  <2> DEFINE F == CheckedUnits(E, x)
  <2>1. F = [k \in Core |-> F[k]]
    BY <1>1 DEF CheckedUnits, trigger_event
  <2> HIDE DEF F
  <2> QED BY <2>1 DEF F
<1>2. CASE ~reached(x)
  BY <1>2 DEF CheckedUnits
<1> QED BY <1>1, <1>2

\* A trigger write, by the core that arrives or by another.
LEMMA TriggerStep ==
  ASSUME NoIrqInv, NEW c \in Core, NEW d \in Core, Trigger(c, d)
  PROVE  NoIrqInv'
<1>1. PICK b : b = Ahead(d)
  OBVIOUS
<1>2. PICK x : x = with_core(barriers[b], d)
  OBVIOUS
<1>3. Between(d) /\ SetUp(b) /\ BarrierWrite(c, b, x)
  BY <1>1, <1>2 DEF Trigger
<1>4. Found(d, b, x)
  BY <1>1, <1>2, <1>3, ArrivalFacts
<1>5. /\ b \in Barrier /\ d \in Team[b] /\ x.target_mask = Team[b]
      /\ arrived[d] = passed[d] /\ Team[b] \subseteq Core
      /\ Free(eu[d], cpu[d]) /\ eu[d].status = {}
  BY <1>4 DEF Found
<1>6. PICK E : E = [eu EXCEPT ![c] = demux_enter(@)]
  OBVIOUS
<1>7. PICK P : P = [cpu EXCEPT ![c] = issued(@)]
  OBVIOUS
<1>8. PICK F : F = CheckedUnits(E, x)
  OBVIOUS
<1>9. /\ ~cpu[c].parked /\ plan' = plan
      /\ barriers' = [barriers EXCEPT ![b] = CheckedBarrier(x)]
      /\ eu' = SettledUnits(F, P) /\ cpu' = SettledCores(F, P)
  BY <1>3, <1>5, <1>6, <1>7, <1>8, Writes
<1>10. /\ Typed(E, P)
       /\ \A k \in Core : E[k].irq_req = NoIrq /\ Keeps(eu[k], cpu[k], E[k], P[k])
  BY <1>6, <1>7, <1>9, Issues
<1>11. ASSUME NEW k \in Core, reached(x) /\ k \in Team[b]
       PROVE  F[k] = send_event(E[k], Release, 1) /\ Goes(F[k], P[k])
  <2>1. Waits(eu[k], cpu[k])
    <3>1. CASE k = d
      BY <1>5, <3>1 DEF Waits
    <3>2. CASE k # d
      BY <1>4, <1>11, <3>2, TeamWaits
    <3> QED BY <3>1, <3>2
  <2>2. Waits(E[k], P[k])
    BY <1>10, <2>1 DEF Keeps
  <2>3. F[k] = send_event(E[k], Release, 1)
    BY <1>5, <1>8, <1>11, ReleaseTeam
  <2> QED BY <2>2, <2>3, Released
<1>12. ASSUME NEW k \in Core, ~(reached(x) /\ k \in Team[b])
       PROVE  F[k] = E[k]
  BY <1>5, <1>8, <1>10, <1>12, ReleaseTeam DEF Typed
<1>13. ASSUME NEW k \in Core PROVE F[k] \in Unit /\ F[k].irq_req = NoIrq
  <2>1. CASE reached(x) /\ k \in Team[b]
    BY <1>11, <2>1 DEF Goes, Free, Coming, Quiet
  <2>2. CASE ~(reached(x) /\ k \in Team[b])
    BY <1>10, <1>12, <2>2 DEF Typed
  <2> QED BY <2>1, <2>2
<1>14. F \in [Core -> Unit]
  BY <1>8, <1>10, <1>13, CheckedFunction DEF Typed
<1>15. eu' = F /\ cpu' = P
  BY <1>9, <1>10, <1>13, <1>14, Settled DEF Typed
<1>16. Typed(eu', cpu')
  BY <1>10, <1>14, <1>15 DEF Typed
<1>17. \A k \in Core : ~(reached(x) /\ k \in Team[b]) => Stays(k)
  BY <1>10, <1>12, <1>15 DEF Keeps, Stays
<1>18. ~reached(x) => Waits(eu'[d], cpu'[d])
  <2>1. Waits(eu[d], cpu[d])
    BY <1>5 DEF Waits
  <2>2. Waits(E[d], P[d])
    BY <1>10, <2>1 DEF Keeps
  <2> QED BY <1>12, <1>15, <2>2
<1>19. /\ arrived' = [arrived EXCEPT ![d] = passed[d] + 1]
       /\ UNCHANGED <<passed, toclear>>
  BY <1>5 DEF Trigger
<1>20. reached(x) => /\ \A k \in Team[b] : Goes(eu'[k], cpu'[k])
                     /\ \A k \in Core \ Team[b] : Stays(k)
  BY <1>5, <1>11, <1>15, <1>17
<1>21. ~reached(x) => \A k \in Core \ {d} : Stays(k)
  BY <1>17
<1>22. Arrives(d, b, x)
  BY <1>1, <1>2, <1>3, <1>9, <1>16, <1>18, <1>19, <1>20, <1>21 DEF Arrives
<1> QED BY <1>22, ArrivalStep

\* A trigger-and-wait read: the last to come releases the barrier before its
\* own wait looks at the buffer.
LEMMA TriggerWaitStep ==
  ASSUME NoIrqInv, NEW c \in Core, NEW insn \in Elw \ {"wait_clear"},
         TriggerWait(c, insn)
  PROVE  NoIrqInv'
<1>1. PICK b : b = Ahead(c)
  OBVIOUS
<1>2. PICK x : x = with_core(barriers[b], c)
  OBVIOUS
<1>3. ~cpu[c].parked /\ (cpu[c].replay \/ Between(c))
  BY DEF TriggerWait, CanIssueElw, CanIssue
<1>4. /\ Free(eu[c], cpu[c]) /\ Plain(cpu[c]) /\ eu[c].state = "NONE"
      /\ cpu[c].parked = FALSE
  BY <1>3, ShapeFacts DEF Free
<1>5. Between(c)
  BY <1>3, <1>4 DEF Plain
<1>6. PICK e : e = demux_enter(eu[c])
  OBVIOUS
<1>7. joined(barriers[b], e, c) = x
  <2>1. e.state = "NONE"
    BY <1>4, <1>6, Entered DEF Free
  <2> QED BY <1>2, <2>1 DEF joined, resumes
<1>8. PICK a : a = armed(e, insn)
  OBVIOUS
<1>9. PICK E : E = [eu EXCEPT ![c] = a]
  OBVIOUS
<1>10. PICK F : F = CheckedUnits(E, x)
  OBVIOUS
<1>11. PICK G : G = [F EXCEPT ![c] = wait_event(@, "WAITING_BARRIER")]
  OBVIOUS
<1>12. PICK P : P = [cpu EXCEPT ![c] = elw_parked(@, insn)]
  OBVIOUS
<1>13. /\ SetUp(b) /\ barriers' = [barriers EXCEPT ![b] = CheckedBarrier(x)]
       /\ plan' = plan /\ eu' = SettledUnits(G, P) /\ cpu' = SettledCores(G, P)
       /\ arrived' = [arrived EXCEPT ![c] = passed[c] + 1]
       /\ UNCHANGED <<passed, toclear>>
  BY <1>1, <1>6, <1>7, <1>8, <1>9, <1>10, <1>11, <1>12 DEF TriggerWait, Becomes
<1>14. Found(c, b, x)
  BY <1>1, <1>2, <1>5, <1>13, ArrivalFacts
<1>15. /\ b \in Barrier /\ c \in Team[b] /\ x.target_mask = Team[b]
       /\ arrived[c] = passed[c] /\ Team[b] \subseteq Core
       /\ eu[c].status = {}
  BY <1>14 DEF Found
<1>16. Armed(a, insn) /\ a.status = {}
  BY <1>4, <1>6, <1>8, <1>15, ReadArms
<1>17. /\ eu \in [Core -> Unit] /\ cpu \in [Core -> ElwCoreState]
       /\ \A k \in Core : Quiet(eu[k]) /\ Plain(cpu[k])
  BY ShapeFacts DEF NoIrqInv, Types
<1>18. a \in Unit
  BY <1>16 DEF Armed, Quiet
<1>19. /\ E \in [Core -> Unit] /\ E[c] = a
       /\ \A k \in Core : k # c => E[k] = eu[k]
  BY <1>9, <1>17, <1>18
<1>20. PICK q : q = elw_parked(cpu[c], insn)
  OBVIOUS
<1>21. Plain(q) /\ q.parked = TRUE /\ q.elw_insn = insn /\ q \in ElwCoreState
  <2>1. insn \in Elw
    OBVIOUS
  <2>2. \A i \in Elw : LET r == elw_parked(cpu[c], i)
            IN  Plain(r) /\ r.parked = TRUE /\ r.elw_insn = i
    BY <1>4, PlainSteps
  <2>3. Plain(q) /\ q.parked = TRUE /\ q.elw_insn = insn
    BY <1>20, <2>1, <2>2
  <2> QED BY <2>3 DEF Plain
<1>22. /\ P \in [Core -> ElwCoreState] /\ P[c] = q
       /\ \A k \in Core : k # c => P[k] = cpu[k]
  BY <1>12, <1>17, <1>20, <1>21
<1>23. ASSUME NEW k \in Core, k # c, reached(x) /\ k \in Team[b]
       PROVE  Goes(F[k], cpu[k])
  <2>1. Waits(eu[k], cpu[k])
    BY <1>14, <1>23, TeamWaits
  <2>2. F[k] = send_event(eu[k], Release, 1)
    BY <1>10, <1>15, <1>19, <1>23, ReleaseTeam
  <2> QED BY <2>1, <2>2, Released
<1>24. ASSUME NEW k \in Core, k # c, ~(reached(x) /\ k \in Team[b])
       PROVE  F[k] = eu[k]
  BY <1>10, <1>15, <1>19, <1>24, ReleaseTeam
<1>25. /\ Armed(F[c], insn)
       /\ F[c].status = IF reached(x) THEN Release ELSE {}
  <2>1. CASE reached(x)
    <3>1. F[c] = send_event(a, Release, 1)
      BY <1>10, <1>15, <1>19, <2>1, ReleaseTeam
    <3> QED BY <1>16, <2>1, <3>1, ArmedReleased
  <2>2. CASE ~reached(x)
    <3>1. F[c] = a
      BY <1>10, <1>15, <1>19, <2>2, ReleaseTeam
    <3> QED BY <1>16, <2>2, <3>1
  <2> QED BY <2>1, <2>2
<1>26. PICK g : g = wait_event(F[c], "WAITING_BARRIER")
  OBVIOUS
<1>27. /\ ~reached(x) => Sleeping(g, q)
       /\ reached(x) => Coming(g, q)
  BY <1>21, <1>25, <1>26, ArmedReads
<1>28. \A k \in Core : F[k] \in Unit /\ (k # c => F[k].irq_req = NoIrq)
  <2> SUFFICES ASSUME NEW k \in Core
               PROVE  F[k] \in Unit /\ (k # c => F[k].irq_req = NoIrq)
    OBVIOUS
  <2>1. CASE k = c
    BY <1>25, <2>1 DEF Armed, Quiet
  <2>2. CASE k # c /\ reached(x) /\ k \in Team[b]
    BY <1>23, <2>2 DEF Goes, Free, Coming, Quiet
  <2>3. CASE k # c /\ ~(reached(x) /\ k \in Team[b])
    BY <1>17, <1>24, <2>3 DEF Quiet
  <2> QED BY <2>1, <2>2, <2>3
<1>29. F \in [Core -> Unit]
  BY <1>10, <1>19, <1>28, CheckedFunction
<1>30. g \in Unit /\ g.irq_req = NoIrq
  BY <1>27 DEF Sleeping, Coming, Quiet
<1>31. /\ G \in [Core -> Unit] /\ G[c] = g
       /\ \A k \in Core : k # c => G[k] = F[k]
  BY <1>11, <1>26, <1>29, <1>30
<1>32. \A k \in Core : G[k].irq_req = NoIrq
  BY <1>28, <1>30, <1>31
<1>33. eu' = G /\ cpu' = P
  BY <1>13, <1>22, <1>31, <1>32, Settled
<1>34. Typed(eu', cpu')
  BY <1>17, <1>21, <1>22, <1>31, <1>33 DEF Typed
<1>35. reached(x) => \A k \in Team[b] : Goes(eu'[k], cpu'[k])
  <2> SUFFICES ASSUME reached(x), NEW k \in Team[b] PROVE Goes(eu'[k], cpu'[k])
    OBVIOUS
  <2>1. CASE k = c
    BY <1>22, <1>27, <1>31, <1>33, <2>1 DEF Goes
  <2>2. CASE k # c
    BY <1>15, <1>22, <1>23, <1>31, <1>33, <2>2
  <2> QED BY <2>1, <2>2
<1>36. \A k \in Core : k # c /\ ~(reached(x) /\ k \in Team[b]) => Stays(k)
  BY <1>22, <1>24, <1>31, <1>33 DEF Stays
<1>37. ~reached(x) => Waits(eu'[c], cpu'[c])
  BY <1>22, <1>27, <1>31, <1>33 DEF Waits
<1>38. /\ reached(x) => \A k \in Core \ Team[b] : Stays(k)
       /\ ~reached(x) => \A k \in Core \ {c} : Stays(k)
  BY <1>15, <1>36
<1>39. Arrives(c, b, x)
  BY <1>1, <1>2, <1>5, <1>13, <1>34, <1>35, <1>37, <1>38 DEF Arrives
<1> QED BY <1>39, ArrivalStep

-----------------------------------------------------------------------------
(***************************************************************************)
(* The invariant and what it says.                                         *)
(***************************************************************************)

\* Nobody has arrived, and every count is 0.
LEMMA InitHolds ==
  ASSUME Init, plan.irq = FALSE
  PROVE  NoIrqInv
<1>1. plan \in Plans
  BY DEF Init
<1> DEFINE e == [Core_event_unit_reset EXCEPT !.evt_mask = Release, !.irq_mask = {}]
<1>2. /\ Idle \in Idle .. 2 /\ Idle \in Idle .. EU_WAKEUP_LATENCY
      /\ 0 \in 0 .. ResumeCycles
  BY ResumeAssumption DEF Idle, EU_WAKEUP_LATENCY
<1>3. /\ e \in Unit /\ e.evt_mask = Release /\ e.irq_mask = {} /\ e.status = {}
      /\ e.sync_irq = NoIrq /\ e.irq_req = NoIrq /\ e.irq_wakeup = Idle
      /\ e.pending_elw = FALSE /\ e.is_active = TRUE /\ e.wakeup = Idle
      /\ e.state = "NONE" /\ e.clear_evt_mask = {}
  BY <1>2, ReleaseFacts
  DEF Unit, Core_event_unit, Core_event_unit_reset, Core_state, PendingReq
<1>4. /\ eu = [c \in Core |-> e] /\ cpu = [c \in Core |-> ElwCoreReset]
      /\ barriers = [b \in Barrier |-> Barrier_reset]
      /\ arrived = [c \in Core |-> 0] /\ passed = [c \in Core |-> 0]
      /\ toclear = [c \in Core |-> FALSE]
  BY DEF Init, WithIrq, Release
<1> HIDE DEF e
<1>5. Plain(ElwCoreReset) /\ ElwCoreReset.parked = FALSE
  BY <1>2 DEF Plain, ElwCoreReset, ElwCoreState
<1>6. Free(e, ElwCoreReset)
  BY <1>3, <1>5 DEF Free, Quiet
<1>7. /\ Barrier_reset \in BarrierState /\ Barrier_reset.core_mask = {}
      /\ Barrier_reset.target_mask = {} /\ Barrier_reset.status = {}
  BY DEF Barrier_reset, BarrierState
<1>8. Types
  BY <1>1, <1>3, <1>4, <1>5, <1>7 DEF Types, Plain
<1>9. ASSUME NEW c \in Core PROVE CoreInv(c)
  <2>1. /\ arrived[c] = 0 /\ passed[c] = 0 /\ toclear[c] = FALSE
        /\ eu[c] = e /\ cpu[c] = ElwCoreReset
    BY <1>4
  <2>2. 0 <= Len(Program[c])
    BY <1>1, PlanFacts
  <2> QED BY <1>3, <1>6, <2>1, <2>2 DEF CoreInv
<1>10. ASSUME NEW b \in Used PROVE Masks(b) /\ Bits(b) /\ Counted(b)
  <2>1. b \in Barrier /\ Team[b] # {} /\ Team[b] \subseteq Core
    BY <1>1, PlanFacts DEF Used
  <2>2. barriers[b] = Barrier_reset
    BY <1>4, <2>1
  <2>3. Masks(b) /\ Bits(b)
    BY <1>7, <2>1, <2>2 DEF Masks, Bits
  <2>4. \A s : Tally(s, b, 0) = 0
    <3>1. \A s : {i \in 1 .. 0 : s[i] = b} = {}
      OBVIOUS
    <3> QED BY <3>1, FS_EmptySet DEF Tally
  <2>5. \A d \in Team[b] : Tally(Program[d], b, arrived[d])
            = IF d \in barriers[b].status THEN 0 + 1 ELSE 0
    BY <1>4, <1>7, <2>1, <2>2, <2>4
  <2>6. Counted(b)
    BY <2>5 DEF Counted
  <2> QED BY <2>3, <2>6
<1> QED BY <1>8, <1>9, <1>10 DEF NoIrqInv

\* The plan is not changed.
LEMMA PlanKept ==
  ASSUME [Next]_vars
  PROVE  plan' = plan
<1>1. \A E, P : Becomes(E, P) => plan' = plan
  BY DEF Becomes
<1>2. \A c, b, x : BarrierWrite(c, b, x) => plan' = plan
  BY <1>1 DEF BarrierWrite
<1>3. ASSUME NEW c, Step(c) PROVE plan' = plan
  <2>1. \A b : SetTriggerMask(c, b) \/ SetTargetMask(c, b) => plan' = plan
    BY <1>2 DEF SetTriggerMask, SetTargetMask
  <2>2. \A insn : TriggerWait(c, insn) => plan' = plan
    BY <1>1 DEF TriggerWait
  <2>3. \A insn : Skip(c, insn) => plan' = plan
    BY <1>1 DEF Skip
  <2>4. WaitClear(c) => plan' = plan
    BY <1>1 DEF WaitClear
  <2>5. \A d : Trigger(c, d) => plan' = plan
    BY <1>2 DEF Trigger
  <2>6. ClearEvent(c) \/ Mret(c) => plan' = plan
    BY <1>1 DEF ClearEvent, Mret
  <2> QED BY <1>3, <2>1, <2>2, <2>3, <2>4, <2>5, <2>6 DEF Step
<1>4. \A c, b : SetStatus(c, b) => plan' = plan
  BY <1>2 DEF SetStatus
<1>5. \A c : InEvent(c) \/ TakeIrq(c) \/ Wakeup(c) \/ IrqWakeup(c) => plan' = plan
  BY <1>1 DEF InEvent, TakeIrq, Wakeup, IrqWakeup
<1>6. Tick \/ UNCHANGED vars => plan' = plan
  BY DEF Tick, vars
<1> QED BY <1>3, <1>4, <1>5, <1>6 DEF Next

\* Every step keeps the invariant of a plan without interrupts.
LEMMA NextHolds ==
  ASSUME NoIrqInv, [Next]_vars
  PROVE  NoIrqInv'
<1>1. CASE UNCHANGED vars
  BY <1>1, StutterStep
<1>2. CASE Tick
  BY <1>2, TickStep
<1>3. ASSUME NEW c \in Busy,
             \/ Step(c) \/ \E b \in Used : SetStatus(c, b)
             \/ InEvent(c) \/ TakeIrq(c) \/ Wakeup(c) \/ IrqWakeup(c)
      PROVE  NoIrqInv'
  <2>1. c \in Core
    BY DEF Busy
  <2>2. Quiet(eu[c]) /\ Plain(cpu[c]) /\ (~cpu[c].parked => ~skips(eu[c]))
    BY <2>1, ShapeFacts
  <2>3. ASSUME NEW b \in Used,
               SetTriggerMask(c, b) \/ SetTargetMask(c, b) \/ SetStatus(c, b)
        PROVE  NoIrqInv'
    BY <2>1, <2>3, SetUpSteps
  <2>4. ASSUME NEW insn \in Elw \ {"wait_clear"}, TriggerWait(c, insn)
        PROVE  NoIrqInv'
    BY <2>1, <2>4, TriggerWaitStep
  <2>5. ASSUME NEW insn \in Elw, Skip(c, insn) PROVE NoIrqInv'
    BY <2>2, <2>5 DEF Skip, CanIssueElw, CanIssue
  <2>6. ASSUME "wait_clear" \in Elw, WaitClear(c) PROVE NoIrqInv'
    BY <2>1, <2>6, WaitClearStep
  <2>7. ASSUME NEW d \in Core, Trigger(c, d) PROVE NoIrqInv'
    BY <2>1, <2>7, TriggerStep
  <2>8. CASE ClearEvent(c)
    BY <2>1, <2>8, ClearStep
  <2>9. CASE Mret(c)
    BY <2>2, <2>9 DEF Mret, Plain
  <2>10. CASE Step(c)
    BY <2>3, <2>4, <2>5, <2>6, <2>7, <2>8, <2>9, <2>10 DEF Step
  <2>11. CASE InEvent(c)
    BY <2>11 DEF InEvent, WithIrq, NoIrqInv, Types
  <2>12. CASE TakeIrq(c)
    BY <2>2, <2>12 DEF TakeIrq, TakesIrq, Quiet
  <2>13. CASE Wakeup(c)
    BY <2>1, <2>13, WakeupStep
  <2>14. CASE IrqWakeup(c)
    BY <2>2, <2>14 DEF IrqWakeup, Quiet, Idle
  <2> QED BY <1>3, <2>3, <2>10, <2>11, <2>12, <2>13, <2>14
<1> QED BY <1>1, <1>2, <1>3 DEF Next

\* With no interrupt every core waits exactly as long as its barrier says and
\* every team is counted in rounds, in every reachable state.
THEOREM Invariance == Spec => []IInv
<1>1. Init => IInv
  <2> SUFFICES ASSUME Init PROVE IInv
    OBVIOUS
  <2>1. plan \in Plans
    BY DEF Init
  <2>2. ~WithIrq => plan.irq = FALSE
    BY <2>1, BarrierAssumption DEF WithIrq
  <2> QED BY <2>1, <2>2, InitHolds DEF IInv
<1>2. IInv /\ [Next]_vars => IInv'
  <2> SUFFICES ASSUME IInv, [Next]_vars PROVE IInv'
    OBVIOUS
  <2>1. plan' = plan
    BY PlanKept
  <2>2. ASSUME ~WithIrq' PROVE NoIrqInv'
    BY <2>1, <2>2, NextHolds DEF IInv, WithIrq
  <2> QED BY <2>1, <2>2 DEF IInv
<1> QED BY <1>1, <1>2, PTL DEF Spec

\* The visits of a team: every core has arrived r times, the ones in the
\* status once more, and nobody has passed more than r times.
LEMMA TeamVisits ==
  ASSUME NoIrqInv, NEW b \in Used
  PROVE  \E r \in Nat :
            /\ \A d \in Team[b] : visits(d, b, arrived[d])
                   = IF d \in barriers[b].status THEN r + 1 ELSE r
            /\ \A c \in Team[b] : /\ visits(c, b, passed[c]) \in Nat
                                  /\ visits(c, b, passed[c]) <= r
<1>1. /\ b \in Barrier /\ Bits(b) /\ Counted(b) /\ Team[b] \subseteq Core
  BY PlanFacts DEF NoIrqInv, Types, Used
<1>2. PICK r \in Nat : \A d \in Team[b] :
         Tally(Program[d], b, arrived[d])
             = IF d \in barriers[b].status THEN r + 1 ELSE r
  BY <1>1 DEF Counted
<1>3. ASSUME NEW c \in Team[b]
      PROVE  /\ Tally(Program[c], b, passed[c]) \in Nat
             /\ Tally(Program[c], b, passed[c]) <= r
  <2>1. c \in Core /\ CoreInv(c) /\ passed[c] \in Nat
    BY <1>1 DEF NoIrqInv, Types
  <2>2. PICK n \in Nat : n = passed[c]
    BY <2>1
  <2>3. PICK s : s = Program[c]
    OBVIOUS
  <2>4. /\ Tally(s, b, n) \in Nat
        /\ Tally(s, b, n + 1) = Tally(s, b, n) + (IF s[n + 1] = b THEN 1 ELSE 0)
    BY TallyNext
  <2>5. Tally(s, b, arrived[c]) = IF c \in barriers[b].status THEN r + 1 ELSE r
    BY <1>2, <2>3
  <2>6. CASE arrived[c] = passed[c]
    <3>1. c \notin barriers[b].status
      BY <1>1, <2>6 DEF Bits
    <3> QED BY <2>2, <2>3, <2>4, <2>5, <2>6, <3>1
  <2>7. CASE arrived[c] # passed[c]
    <3>1. arrived[c] = n + 1
      BY <2>1, <2>2, <2>7 DEF CoreInv
    <3>2. c \in barriers[b].status => s[n + 1] = b
      BY <1>1, <2>2, <2>3 DEF Bits, Ahead
    <3>3. Tally(s, b, n) <= r
      BY <2>4, <2>5, <3>1, <3>2
    <3> QED BY <2>2, <2>3, <2>4, <3>3
  <2> QED BY <2>6, <2>7
<1>4. \A c, n : visits(c, b, n) = Tally(Program[c], b, n)
  BY VisitsTally
<1> QED BY <1>2, <1>3, <1>4

\* The state of every core and barrier has its type when no interrupt arrives.
THEOREM TypeCorrect == Spec => [](~WithIrq => TypeOK)
<1>1. IInv => (~WithIrq => TypeOK)
  <2> SUFFICES ASSUME NoIrqInv PROVE TypeOK
    BY DEF IInv
  <2>1. /\ plan \in Plans /\ eu \in [Core -> Unit] /\ cpu \in [Core -> ElwCoreState]
        /\ barriers \in [Barrier -> BarrierState]
        /\ toclear \in [Core -> BOOLEAN]
    BY DEF NoIrqInv, Types
  <2>2. ASSUME NEW c \in Core
        PROVE  passed[c] \in 0 .. Len(Program[c]) /\ arrived[c] - passed[c] \in {0, 1}
    <3>1. /\ passed[c] \in Nat /\ Len(Program[c]) \in Nat
          /\ passed[c] <= Len(Program[c])
          /\ arrived[c] = passed[c] \/ arrived[c] = passed[c] + 1
      BY <2>1, PlanFacts DEF NoIrqInv, Types, CoreInv
    <3> QED BY <3>1
  <2> QED BY <2>1, <2>2 DEF TypeOK, Unit
<1> QED BY <1>1, Invariance, PTL

\* check_barrier() is never early: with no interrupt, nobody is through a
\* barrier for the n-th time before the whole team has arrived n times,
\* whatever the teams, the programs and the reads of the cores.
THEOREM LastArrivalReleases == Spec => [](~WithIrq => NoEarlyRelease)
<1>1. IInv => (~WithIrq => NoEarlyRelease)
  <2> SUFFICES ASSUME NoIrqInv, NEW b \in Used, NEW c \in Team[b], NEW d \in Team[b]
               PROVE  visits(c, b, passed[c]) <= visits(d, b, arrived[d])
    BY DEF IInv, NoEarlyRelease
  <2>1. PICK r \in Nat :
            /\ visits(d, b, arrived[d]) = IF d \in barriers[b].status THEN r + 1 ELSE r
            /\ visits(c, b, passed[c]) \in Nat
            /\ visits(c, b, passed[c]) <= r
    BY TeamVisits
  <2> QED BY <2>1
<1> QED BY <1>1, Invariance, PTL

\* The status of a barrier is exactly the set of cores that have arrived once
\* more than the last core to come.
THEOREM StatusCounts == Spec => [](~WithIrq => StatusIsArrivals)
<1>1. IInv => (~WithIrq => StatusIsArrivals)
  <2> SUFFICES ASSUME NoIrqInv, NEW b \in Used PROVE barriers[b].status = comers(b)
    BY DEF IInv, StatusIsArrivals
  <2>1. PICK r \in Nat : \A d \in Team[b] : visits(d, b, arrived[d])
            = IF d \in barriers[b].status THEN r + 1 ELSE r
    BY TeamVisits
  <2>2. barriers[b].status \subseteq Team[b] /\ barriers[b].status # Team[b]
    BY DEF NoIrqInv, Bits
  <2>3. PICK A : A = {visits(d, b, arrived[d]) : d \in Team[b]}
    OBVIOUS
  <2>4. r \in A /\ \A n \in A : n \in Nat /\ r <= n
    <3>1. PICK d \in Team[b] : d \notin barriers[b].status
      BY <2>2
    <3>2. visits(d, b, arrived[d]) = r
      BY <2>1, <3>1
    <3>3. r \in A
      BY <2>3, <3>2
    <3>4. ASSUME NEW n \in A PROVE n \in Nat /\ r <= n
      <4>1. PICK k \in Team[b] : n = visits(k, b, arrived[k])
        BY <2>3, <3>4
      <4> QED BY <2>1, <4>1
    <3> QED BY <3>3, <3>4
  <2>5. Min(A) = r
    <3>1. PICK m : m = Min(A)
      OBVIOUS
    <3>2. m \in A /\ \A n \in A : m <= n
      BY <2>4, <3>1 DEF Min
    <3>3. m \in Nat /\ r <= m /\ m <= r
      BY <2>4, <3>2
    <3>4. m = r
      BY <3>3
    <3> QED BY <3>1, <3>4
  <2>6. rounds(b) = r
    BY <2>3, <2>5 DEF rounds
  <2>7. \A c \in Team[b] : visits(c, b, arrived[c]) > r <=> c \in barriers[b].status
    BY <2>1
  <2> QED BY <2>2, <2>6, <2>7 DEF comers
<1> QED BY <1>1, Invariance, PTL

\* A release lets a core through once: between two barriers no barrier event
\* is left in its buffer, once its software has cleared what it must.
THEOREM ReleaseUsedOnce == Spec => []ReleaseConsumed
<1>1. IInv => ReleaseConsumed
  <2> SUFFICES ASSUME IInv, NEW c \in Core, arrived[c] = passed[c], ~toclear[c], ~WithIrq
               PROVE  barrier_event \notin eu[c].status
    BY DEF ReleaseConsumed
  <2>1. eu[c].status = {}
    BY DEF IInv, NoIrqInv, CoreInv
  <2> QED BY <2>1
<1> QED BY <1>1, Invariance, PTL

\* With no interrupt, a core that is parked with its release in the buffer
\* will be answered.
THEOREM ReleaseWakes == Spec => [](~WithIrq => NoLostWakeup)
<1>1. IInv => (~WithIrq => NoLostWakeup)
  <2> SUFFICES ASSUME NoIrqInv, NEW c \in Core, cpu[c].parked, eu[c].status # {}
               PROVE  eu[c].wakeup # Idle
    BY DEF IInv, NoLostWakeup
  <2>1. Free(eu[c], cpu[c]) \/ Sleeping(eu[c], cpu[c]) \/ Coming(eu[c], cpu[c])
    BY ShapeFacts
  <2> QED BY <2>1 DEF Free, Sleeping, Coming
<1> QED BY <1>1, Invariance, PTL

=============================================================================
