-------------------------- MODULE MutexUnitProofs --------------------------
(***************************************************************************)
(* Proofs about the hardware mutexes, for every number of cores and of     *)
(* mutexes.                                                                *)
(*                                                                         *)
(* A core unit is in one of three shapes: awake, asleep on a lock read, or *)
(* elected and about to be answered.  The first lemmas say how each method *)
(* of the core unit moves a unit from one shape to another; the inductive  *)
(* invariant ties the shapes to the state of the mutexes.                  *)
(***************************************************************************)
EXTENDS MutexUnit, WellFoundedInduction, TLAPS

Unit == Core_event_unit(Data)

\* What the mutexes never change in a unit: no event but theirs is raised.
Quiet(e) ==
    /\ e \in Unit
    /\ e.status = {} /\ e.evt_mask = EvtMask /\ e.irq_mask = {}
    /\ e.sync_irq = NoIrq /\ e.irq_req = NoIrq
    /\ e.pending_elw = FALSE /\ e.irq_wakeup = Idle

Awake(e) ==
    /\ Quiet(e)
    /\ e.is_active = TRUE /\ e.state = "NONE"
    /\ e.clear_evt_mask = {} /\ e.wakeup = Idle

Asleep(e) ==
    /\ Quiet(e)
    /\ e.is_active = FALSE /\ e.state = "WAITING_EVENT"
    /\ e.pending_req = "live" /\ e.pending_req_is_wait = FALSE
    /\ e.clear_evt_mask = {mutex_event} /\ e.wakeup = Idle

Elected(e) ==
    /\ Quiet(e)
    /\ e.is_active = FALSE /\ e.state = "NONE"
    /\ e.pending_req = "live" /\ e.pending_req_is_wait = FALSE
    /\ e.clear_evt_mask = {} /\ e.wakeup \in {0, 1}

-----------------------------------------------------------------------------
\* Reset leaves a unit awake.
LEMMA ResetIsAwake ==
  Awake([Core_event_unit_reset EXCEPT !.evt_mask = EvtMask])
<1> DEFINE r == Core_event_unit_reset
           e == [r EXCEPT !.evt_mask = EvtMask]
<1>1. {} \in Data /\ NoIrq \in Event \cup {NoIrq} /\ EvtMask \in SUBSET Event
  BY MutexAssumption DEF Data
<1>2. Idle \in Idle .. 2 /\ Idle \in Idle .. EU_WAKEUP_LATENCY
  BY DEF Idle, EU_WAKEUP_LATENCY
<1>3. "NONE" \in Core_state /\ "null" \in PendingReq
  BY DEF Core_state, PendingReq
<1>4. r \in Unit
  BY <1>1, <1>2, <1>3 DEF Unit, Core_event_unit, Core_event_unit_reset
<1>5. e \in Unit
  BY <1>1, <1>4 DEF Unit, Core_event_unit
<1>6. /\ e.status = {} /\ e.evt_mask = EvtMask /\ e.irq_mask = {}
      /\ e.sync_irq = NoIrq /\ e.irq_req = NoIrq
      /\ e.pending_elw = FALSE /\ e.irq_wakeup = Idle
      /\ e.is_active = TRUE /\ e.state = "NONE"
      /\ e.clear_evt_mask = {} /\ e.wakeup = Idle
  BY DEF Core_event_unit_reset
<1> QED BY <1>5, <1>6 DEF Awake, Quiet

\* Entering the demux port does not disturb an awake unit.
LEMMA EnterAwake ==
  ASSUME NEW e, Awake(e)
  PROVE  /\ Awake(demux_enter(e))
         /\ demux_enter(e).pending_req_is_wait = FALSE
         /\ demux_enter(e).data = e.data
BY DEF Awake, Quiet, Unit, Core_event_unit, demux_enter, Core_state

\* Asking for a mutex that is held puts the core to sleep.
LEMMA WaitSleeps ==
  ASSUME NEW e, Awake(e), e.pending_req_is_wait = FALSE
  PROVE  Asleep(wait_event([e EXCEPT !.clear_evt_mask = {mutex_event}],
                           "WAITING_EVENT"))
<1> DEFINE f == [e EXCEPT !.clear_evt_mask = {mutex_event}]
<1>1. f.status = {} /\ evt_masked(f) = {}
  BY DEF Awake, Quiet, Unit, Core_event_unit, evt_masked
<1>2. wait_event(f, "WAITING_EVENT") = put_to_sleep(f, "WAITING_EVENT")
  BY <1>1 DEF wait_event
<1>3. Asleep(put_to_sleep(f, "WAITING_EVENT"))
  BY MutexAssumption DEF Asleep, Awake, Quiet, Unit, Core_event_unit,
     put_to_sleep, Core_state, Waiting, PendingReq
<1> QED BY <1>2, <1>3

\* The mutex event elects a sleeping core: its answer comes in one cycle and
\* carries the word its request was given.
LEMMA EventElects ==
  ASSUME NEW e, Asleep(e)
  PROVE  /\ Elected(send_event(e, {mutex_event}, 0))
         /\ send_event(e, {mutex_event}, 0).wakeup = 1
         /\ send_event(e, {mutex_event}, 0).data = e.data
<1> DEFINE f == [e EXCEPT !.status = @ \cup {mutex_event}]
           g == [f EXCEPT !.data = IF returns_status(f) THEN evt_masked(f) ELSE @,
                          !.state = "NONE",
                          !.wakeup = IF @ = Idle
                             THEN EU_EVENT_WAKEUP_LATENCY + 0 ELSE @]
<1>1. /\ f.status = {mutex_event} /\ f.evt_mask = EvtMask /\ f.irq_mask = {}
      /\ f.is_active = FALSE /\ f.state = "WAITING_EVENT"
      /\ f.pending_elw = FALSE /\ f.pending_req_is_wait = FALSE
      /\ f.clear_evt_mask = {mutex_event} /\ f.wakeup = Idle
      /\ f.data = e.data /\ f.pending_req = "live" /\ f \in Unit
  BY MutexAssumption DEF Asleep, Quiet, Unit, Core_event_unit
<1>2. evt_masked(f) # {} /\ irq_masked(f) = {}
  BY <1>1, MutexAssumption DEF evt_masked, irq_masked
<1>3. ~ returns_status(f)
  BY <1>1 DEF returns_status
<1>4. send_event(e, {mutex_event}, 0) = wake_for_event(f, 0)
  BY <1>1, <1>2 DEF send_event, check_state_delayed, Waiting
<1>5. wake_for_event(f, 0) = check_wait_mask(g)
  BY DEF wake_for_event
<1>6. /\ g \in Unit /\ g.state = "NONE" /\ g.wakeup = 1 /\ g.data = e.data
      /\ g.clear_evt_mask = {mutex_event} /\ g.status = {mutex_event}
      /\ g.is_active = FALSE /\ g.pending_req = "live"
      /\ g.pending_req_is_wait = FALSE
  <2>1. g = [f EXCEPT !.state = "NONE", !.wakeup = 1]
    <3>1. g = [f EXCEPT !.data = f.data, !.state = "NONE", !.wakeup = 1]
      <4> HIDE DEF f
      <4>1. (IF returns_status(f) THEN evt_masked(f) ELSE f.data) = f.data
        BY <1>3
      <4>2. (IF f.wakeup = Idle THEN EU_EVENT_WAKEUP_LATENCY + 0 ELSE f.wakeup) = 1
        BY <1>1 DEF EU_EVENT_WAKEUP_LATENCY
      <4> QED BY <4>1, <4>2
    <3> HIDE DEF f
    <3> QED BY <3>1, <1>1 DEF Unit, Core_event_unit
  <2>2. "NONE" \in Core_state /\ 1 \in Idle .. 2
    BY DEF Core_state, Idle
  <2> HIDE DEF f, g
  <2>3. g \in Unit
    BY <2>1, <2>2, <1>1 DEF Unit, Core_event_unit
  <2>4. /\ g.state = "NONE" /\ g.wakeup = 1 /\ g.data = f.data
        /\ g.clear_evt_mask = f.clear_evt_mask /\ g.status = f.status
        /\ g.is_active = f.is_active /\ g.pending_req = f.pending_req
        /\ g.pending_req_is_wait = f.pending_req_is_wait
    BY <2>1, <1>1 DEF Unit, Core_event_unit
  <2> QED BY <2>3, <2>4, <1>1
<1>7. /\ g.evt_mask = EvtMask /\ g.irq_mask = {} /\ g.sync_irq = NoIrq
      /\ g.irq_req = NoIrq /\ g.pending_elw = FALSE /\ g.irq_wakeup = Idle
  BY DEF Asleep, Quiet, Unit, Core_event_unit
<1>8. /\ Elected(check_wait_mask(g)) /\ check_wait_mask(g).wakeup = 1
      /\ check_wait_mask(g).data = e.data
  <2> HIDE DEF f, g
  <2>1. check_wait_mask(g) = [g EXCEPT !.status = {}, !.clear_evt_mask = {}]
    BY <1>6 DEF check_wait_mask, clear_status, Unit, Core_event_unit
  <2> DEFINE h == [g EXCEPT !.status = {}, !.clear_evt_mask = {}]
  <2>2. h \in Unit
    BY <1>6 DEF Unit, Core_event_unit
  <2>3. Elected(h) /\ h.wakeup = 1 /\ h.data = e.data
    BY <2>2, <1>6, <1>7 DEF Elected, Quiet, Unit, Core_event_unit
  <2> QED BY <2>1, <2>3
<1> QED BY <1>4, <1>5, <1>8

\* Cancelling the wake-up of an elected core puts it back to sleep.
LEMMA UnwakeSleeps ==
  ASSUME NEW e, Elected(e)
  PROVE  Asleep(unwake(e, mutex_event)) /\ can_unwake(e)
<1>1. e \in Unit /\ can_unwake(e)
  BY DEF Elected, Quiet, can_unwake, Idle
<1>2. /\ {mutex_event} \in SUBSET Event /\ {} \in SUBSET Event
      /\ "WAITING_EVENT" \in Core_state /\ Idle \in Idle .. 2
  BY MutexAssumption DEF Core_state, Waiting, Idle
<1>3. unwake(e, mutex_event) =
        [e EXCEPT !.wakeup = Idle, !.state = "WAITING_EVENT",
                  !.clear_evt_mask = {mutex_event}, !.status = {}]
  BY DEF unwake, Elected, Quiet, Unit, Core_event_unit
<1> DEFINE f == [e EXCEPT !.wakeup = Idle, !.state = "WAITING_EVENT",
                  !.clear_evt_mask = {mutex_event}, !.status = {}]
<1>4. f \in Unit
  BY <1>1, <1>2 DEF Unit, Core_event_unit
<1>5. Asleep(f)
  BY <1>4 DEF Elected, Asleep, Quiet, Unit, Core_event_unit
<1> QED BY <1>1, <1>3, <1>5

\* The answer of an elected core leaves its unit awake.
LEMMA AnswerWakes ==
  ASSUME NEW e, Elected(e)
  PROVE  /\ Awake([wakeup_handler(e) EXCEPT !.pending_req = "freed"])
         /\ [wakeup_handler(e) EXCEPT !.pending_req = "freed"].data = e.data
<1> DEFINE f == [e EXCEPT !.wakeup = Idle, !.is_active = TRUE]
<1>1. /\ f \in Unit /\ f.status = {} /\ f.is_active = TRUE
      /\ f.sync_irq = NoIrq /\ f.data = e.data
  BY DEF Elected, Quiet, Unit, Core_event_unit, Idle, EU_WAKEUP_LATENCY
<1>2. irq_of(f) = NoIrq
  BY <1>1 DEF irq_of, irq_masked
<1>3. wakeup_handler(e) = f
  BY <1>1, <1>2 DEF wakeup_handler, check_state, check_state_delayed, update_irq
<1>4. /\ Awake([f EXCEPT !.pending_req = "freed"])
      /\ [f EXCEPT !.pending_req = "freed"].data = e.data
  BY <1>1, ZenonT(60) DEF Awake, Elected, Quiet, Unit, Core_event_unit, PendingReq
<1> QED BY <1>3, <1>4

\* A cycle keeps the shape of a unit.
LEMMA TickKeeps ==
  ASSUME NEW e
  PROVE  /\ Awake(e) => Awake(tick(e)) /\ tick(e).data = e.data
         /\ Asleep(e) => Asleep(tick(e)) /\ tick(e).data = e.data
         /\ Elected(e) /\ e.wakeup # 0 =>
               Elected(tick(e)) /\ tick(e).data = e.data
<1>1. ASSUME Quiet(e), e.wakeup \in {Idle, 1}
      PROVE  /\ Quiet(tick(e)) /\ tick(e).data = e.data
             /\ tick(e).is_active = e.is_active /\ tick(e).state = e.state
             /\ tick(e).pending_req = e.pending_req
             /\ tick(e).pending_req_is_wait = e.pending_req_is_wait
             /\ tick(e).clear_evt_mask = e.clear_evt_mask
             /\ tick(e).wakeup = IF e.wakeup = 1 THEN 0 ELSE Idle
  <2>1. tick(e) = [e EXCEPT !.wakeup = IF e.wakeup = 1 THEN 0 ELSE Idle,
                            !.irq_wakeup = Idle]
    <3>1. (IF e.wakeup > 0 THEN e.wakeup - 1 ELSE e.wakeup)
             = (IF e.wakeup = 1 THEN 0 ELSE Idle)
      BY <1>1 DEF Idle
    <3>2. (IF e.irq_wakeup > 0 THEN e.irq_wakeup - 1 ELSE e.irq_wakeup) = Idle
      BY <1>1 DEF Quiet, Idle
    <3> QED BY <3>1, <3>2 DEF tick
  <2> DEFINE w == IF e.wakeup = 1 THEN 0 ELSE Idle
             f == [e EXCEPT !.wakeup = w, !.irq_wakeup = Idle]
  <2>2. w \in Idle .. 2 /\ Idle \in Idle .. EU_WAKEUP_LATENCY
    BY DEF Idle, EU_WAKEUP_LATENCY
  <2>3. f \in Unit
    <3> HIDE DEF w
    <3> QED BY <2>2, <1>1 DEF Quiet, Unit, Core_event_unit
  <2>4. Quiet(f) /\ f.data = e.data /\ f.wakeup = w
        /\ f.is_active = e.is_active /\ f.state = e.state
        /\ f.pending_req = e.pending_req
        /\ f.pending_req_is_wait = e.pending_req_is_wait
        /\ f.clear_evt_mask = e.clear_evt_mask
    <3> HIDE DEF w
    <3> QED BY <2>3, <1>1 DEF Quiet, Unit, Core_event_unit
  <2> QED BY <2>1, <2>4
<1>2. Awake(e) => Awake(tick(e)) /\ tick(e).data = e.data
  BY <1>1 DEF Awake, Idle
<1>3. Asleep(e) => Asleep(tick(e)) /\ tick(e).data = e.data
  BY <1>1 DEF Asleep, Idle
<1>4. Elected(e) /\ e.wakeup # 0 =>
         Elected(tick(e)) /\ tick(e).data = e.data
  BY <1>1 DEF Elected, Idle
<1> QED BY <1>2, <1>3, <1>4

\* The three shapes exclude each other.
LEMMA ShapesDiffer ==
  ASSUME NEW e
  PROVE  /\ ~(Awake(e) /\ Asleep(e)) /\ ~(Awake(e) /\ Elected(e))
         /\ ~(Asleep(e) /\ Elected(e))
         /\ Asleep(e) \/ Awake(e) => e.wakeup = Idle
         /\ Elected(e) => e.wakeup \in {0, 1} /\ e.wakeup # Idle
         /\ Awake(e) \/ Asleep(e) \/ Elected(e) => e \in Unit
BY DEF Awake, Asleep, Elected, Quiet, Idle

\* A non-empty set of cores has a lowest one.
LEMMA LowestIsLeast ==
  ASSUME NEW S, S \subseteq Core, S # {}
  PROVE  lowest(S) \in S /\ \A j \in S : lowest(S) <= j
<1>1. \E i \in S : \A j \in S : i <= j
  <2> DEFINE R == {ss \in Nat \X Nat : ss[1] < ss[2]}
  <2>1. S \subseteq Nat
    BY CoreAssumption
  <2>2. PICK i \in S : \A j \in S : ~(<<j, i>> \in R)
    <3>1. IsWellFoundedOn(R, Nat)
      BY NatLessThanWellFounded, Zenon DEF OpToRel
    <3> HIDE DEF R
    <3> QED BY <2>1, <3>1, WFMin
  <2>3. ASSUME NEW j \in S PROVE i <= j
    <3>1. i \in Nat /\ j \in Nat /\ <<j, i>> \notin R
      BY <2>1, <2>2
    <3>2. <<j, i>> \in Nat \X Nat => ~(<<j, i>>[1] < <<j, i>>[2])
      BY <3>1, Zenon
    <3>3. ~(j < i)
      BY <3>1, <3>2
    <3> QED BY <3>1, <3>3
  <2> QED BY <2>3
<1> QED BY <1>1 DEF lowest

-----------------------------------------------------------------------------
(***************************************************************************)
(* What the operations of the mutexes do to all the units.                 *)
(***************************************************************************)

\* A core that is given the mutex is elected, with the word in its request.
LEMMA GivenUnits ==
  ASSUME NEW E \in [Core -> Unit], NEW c \in Core, NEW x, x.value \in Value,
         Awake(E[c]), E[c].pending_req_is_wait = FALSE
  PROVE  /\ given(E, x, c) \in [Core -> Unit]
         /\ \A d \in Core \ {c} : given(E, x, c)[d] = E[d]
         /\ Elected(given(E, x, c)[c])
         /\ given(E, x, c)[c].wakeup = 1
         /\ given(E, x, c)[c].data = x.value
<1> DEFINE f == [E[c] EXCEPT !.data = x.value, !.clear_evt_mask = {mutex_event}]
           g == put_to_sleep(f, "WAITING_EVENT")
           h == send_event(g, {mutex_event}, 0)
<1>1. f \in Unit
  <2>1. x.value \in Data /\ {mutex_event} \in SUBSET Event
    BY MutexAssumption DEF Data
  <2> QED BY <2>1, ZenonT(60) DEF Unit, Core_event_unit
<1>2. /\ f.status = {} /\ f.evt_mask = EvtMask /\ f.irq_mask = {}
      /\ f.sync_irq = NoIrq /\ f.irq_req = NoIrq /\ f.pending_elw = FALSE
      /\ f.irq_wakeup = Idle /\ f.clear_evt_mask = {mutex_event}
      /\ f.pending_req_is_wait = FALSE /\ f.wakeup = Idle
      /\ f.data = x.value
  BY DEF Awake, Quiet, Unit, Core_event_unit
<1>3. Asleep(g) /\ g.data = x.value
  <2> HIDE DEF f
  <2> QED BY <1>1, <1>2 DEF Asleep, Quiet, Unit, Core_event_unit, put_to_sleep,
             Core_state, Waiting, PendingReq
<1> HIDE DEF g
<1>4. Elected(h) /\ h.wakeup = 1 /\ h.data = x.value
  BY <1>3, EventElects
<1>5. given(E, x, c) = [d \in Core |-> IF d = c THEN h ELSE E[d]]
  BY DEF given, trigger_event, g, f
<1> HIDE DEF h
<1> QED BY <1>4, <1>5, ShapesDiffer

\* A core that must wait is asleep.
LEMMA EnqueuedUnits ==
  ASSUME NEW E \in [Core -> Unit], NEW c \in Core,
         Awake(E[c]), E[c].pending_req_is_wait = FALSE
  PROVE  /\ enqueued(E, c) \in [Core -> Unit]
         /\ \A d \in Core \ {c} : enqueued(E, c)[d] = E[d]
         /\ Asleep(enqueued(E, c)[c])
<1> DEFINE h == wait_event([E[c] EXCEPT !.clear_evt_mask = {mutex_event}],
                           "WAITING_EVENT")
<1>1. Asleep(h)
  BY WaitSleeps
<1>2. enqueued(E, c) = [E EXCEPT ![c] = h]
  BY DEF enqueued
<1> HIDE DEF h
<1> QED BY <1>1, <1>2, ShapesDiffer

\* The core a mutex is transferred to is elected, with the word written.
LEMMA TransferUnits ==
  ASSUME NEW E \in [Core -> Unit], NEW i \in Core, NEW v \in Value,
         Asleep(E[i])
  PROVE  LET F == trigger_event([E EXCEPT ![i].data = v], {mutex_event}, {i}, 0)
         IN  /\ F \in [Core -> Unit]
             /\ \A d \in Core \ {i} : F[d] = E[d]
             /\ Elected(F[i]) /\ F[i].wakeup = 1 /\ F[i].data = v
<1> DEFINE f == [E[i] EXCEPT !.data = v]
           h == send_event(f, {mutex_event}, 0)
           F == trigger_event([E EXCEPT ![i].data = v], {mutex_event}, {i}, 0)
<1>1. Asleep(f) /\ f.data = v
  BY DEF Asleep, Quiet, Unit, Core_event_unit, Data
<1>2. Elected(h) /\ h.wakeup = 1 /\ h.data = v
  BY <1>1, EventElects
<1>3. F = [d \in Core |-> IF d = i THEN h ELSE E[d]]
  BY DEF trigger_event
<1> HIDE DEF h, F
<1>4. /\ F \in [Core -> Unit] /\ \A d \in Core \ {i} : F[d] = E[d]
      /\ Elected(F[i]) /\ F[i].wakeup = 1 /\ F[i].data = v
  BY <1>2, <1>3, ShapesDiffer
<1> QED BY <1>4 DEF F

-----------------------------------------------------------------------------
(***************************************************************************)
(* The inductive invariant.                                                *)
(***************************************************************************)
VarTypes ==
    /\ eu \in [Core -> Unit]
    /\ mutexes \in [Mutex -> MutexState]
    /\ asks \in [Core -> Mutex \cup {None}]
    /\ holds \in [Core -> Mutex \cup {None}]

\* A core that asks for nothing is awake; one that asks is asleep or elected.
CoreInv(c) ==
    /\ asks[c] = None => Awake(eu[c])
    /\ asks[c] # None => holds[c] = None /\ (Asleep(eu[c]) \/ Elected(eu[c]))

\* Core c has mutex m, or is about to be told so.
Owns(c, m) == holds[c] = m \/ (asks[c] = m /\ Elected(eu[c]))

WaitInv(m) ==
    \A c \in Core : c \in mutexes[m].waiting_mask <=>
                     asks[c] = m /\ Asleep(eu[c])

OwnerInv(m) ==
    /\ \A c \in Core : Owns(c, m) =>
          mutexes[m].locked /\ mutexes[m].elected = c
          /\ eu[c].data = mutexes[m].value
    /\ mutexes[m].locked =>
          mutexes[m].elected \in Core /\ Owns(mutexes[m].elected, m)
    /\ ~mutexes[m].locked => mutexes[m].waiting_mask = {}

\* In its cycle an election has not been answered yet.
CycleInv(m) ==
    mutexes[m].this_cycle =>
        /\ mutexes[m].elected \in Core
        /\ asks[mutexes[m].elected] = m
        /\ Elected(eu[mutexes[m].elected])
        /\ eu[mutexes[m].elected].wakeup = 1
        /\ \A c \in mutexes[m].waiting_mask : mutexes[m].elected < c

IInv ==
    /\ VarTypes
    /\ \A c \in Core : CoreInv(c)
    /\ \A m \in Mutex : WaitInv(m) /\ OwnerInv(m) /\ CycleInv(m)

\* The state after reset satisfies the inductive invariant.
LEMMA InitIInv == Init => IInv
<1> SUFFICES ASSUME Init PROVE IInv
  OBVIOUS
<1> DEFINE r == [Core_event_unit_reset EXCEPT !.evt_mask = EvtMask]
<1>1. Awake(r)
  BY ResetIsAwake
<1>2. PICK word \in [Mutex -> Value] :
        mutexes = [m \in Mutex |-> Mutex_reset(word[m])]
  BY DEF Init
<1>3. eu = [c \in Core |-> r] /\ asks = [c \in Core |-> None]
      /\ holds = [c \in Core |-> None]
  BY DEF Init
<1> HIDE DEF r
<1>4. VarTypes
  <2>1. \A m \in Mutex : Mutex_reset(word[m]) \in MutexState
    BY DEF Mutex_reset, MutexState
  <2> QED BY <1>1, <1>2, <1>3, <2>1, ShapesDiffer DEF VarTypes
<1>5. \A c \in Core : CoreInv(c)
  BY <1>1, <1>3 DEF CoreInv
<1>6. ASSUME NEW m \in Mutex PROVE WaitInv(m) /\ OwnerInv(m) /\ CycleInv(m)
  <2>1. mutexes[m].locked = FALSE /\ mutexes[m].waiting_mask = {}
        /\ mutexes[m].this_cycle = FALSE
    BY <1>2 DEF Mutex_reset
  <2> QED BY <2>1, <1>3, MutexAssumption DEF WaitInv, OwnerInv, CycleInv, Owns
<1> QED BY <1>4, <1>5, <1>6 DEF IInv

-----------------------------------------------------------------------------
(***************************************************************************)
(* Preservation, one lemma per action.                                     *)
(***************************************************************************)

\* A step that leaves alone a mutex and the cores that use it.
LEMMA OtherMutex ==
  ASSUME NEW k \in Mutex, WaitInv(k), OwnerInv(k), CycleInv(k),
         mutexes'[k] = mutexes[k],
         \A d \in Core : /\ asks[d] = k <=> asks'[d] = k
                         /\ holds[d] = k <=> holds'[d] = k
                         /\ asks[d] = k \/ holds[d] = k => eu'[d] = eu[d]
  PROVE  WaitInv(k)' /\ OwnerInv(k)' /\ CycleInv(k)'
<1>1. WaitInv(k)'
  BY DEF WaitInv
<1>2. \A d \in Core : Owns(d, k)' <=> Owns(d, k)
  BY DEF Owns
<1>3. OwnerInv(k)'
  BY <1>2 DEF OwnerInv, Owns
<1>4. CycleInv(k)'
  BY DEF CycleInv
<1> QED BY <1>1, <1>3, <1>4

\* The units a lock read starts from.
LEMMA EnteredUnits ==
  ASSUME IInv, NEW c \in Core, asks[c] = None
  PROVE  LET E == [eu EXCEPT ![c] = demux_enter(@)]
         IN  /\ E \in [Core -> Unit] /\ Awake(E[c])
             /\ E[c].pending_req_is_wait = FALSE /\ E[c].data = eu[c].data
             /\ \A d \in Core \ {c} : E[d] = eu[d]
<1> DEFINE h == demux_enter(eu[c])
           E == [eu EXCEPT ![c] = h]
<1>1. eu \in [Core -> Unit] /\ Awake(eu[c])
  BY DEF IInv, VarTypes, CoreInv
<1>2. Awake(h) /\ h.pending_req_is_wait = FALSE /\ h.data = eu[c].data
  BY <1>1, EnterAwake
<1> HIDE DEF h
<1>3. /\ E \in [Core -> Unit] /\ Awake(E[c])
      /\ E[c].pending_req_is_wait = FALSE /\ E[c].data = eu[c].data
      /\ \A d \in Core \ {c} : E[d] = eu[d]
  BY <1>1, <1>2, ShapesDiffer
<1> QED BY <1>3 DEF h

\* A step that writes no word and does not touch the units of the holders.
WordsKept ==
    /\ \A k \in Mutex : mutexes'[k].value = mutexes[k].value
    /\ \A d \in Core : holds[d] # None => eu'[d] = eu[d]

\* A step of core c that writes v in mutex m and nothing else.
WordWritten(c, m, v) ==
    /\ mutexes'[m].value = v
    /\ \A k \in Mutex \ {m} : mutexes'[k].value = mutexes[k].value
    /\ \A d \in Core \ {c} : holds[d] # None => eu'[d] = eu[d]

\* A lock read of a free mutex keeps the invariant and leaves its word.
LEMMA LockFreeStep ==
  ASSUME IInv, NEW c \in Core, NEW m \in Mutex,
         asks[c] = None, holds[c] = None,
         LockFree([eu EXCEPT ![c] = demux_enter(@)], c, m),
         asks' = [asks EXCEPT ![c] = m], holds' = holds
  PROVE  IInv' /\ WordsKept
<1> DEFINE E == [eu EXCEPT ![c] = demux_enter(@)]
           x == mutexes[m]
<1>1. /\ E \in [Core -> Unit] /\ Awake(E[c])
      /\ E[c].pending_req_is_wait = FALSE
      /\ \A d \in Core \ {c} : E[d] = eu[d]
  BY EnteredUnits
<1>2. x \in MutexState /\ x.value \in Value
  BY DEF IInv, VarTypes, MutexState
<1>3. ~x.locked /\ eu' = given(E, x, c)
      /\ mutexes' = [mutexes EXCEPT ![m] = locks(x, c)]
  BY DEF LockFree
<1> HIDE DEF E
<1>4. /\ eu' \in [Core -> Unit] /\ \A d \in Core \ {c} : eu'[d] = eu[d]
      /\ Elected(eu'[c]) /\ eu'[c].wakeup = 1 /\ eu'[c].data = x.value
  <2> HIDE DEF x
  <2>1. /\ given(E, x, c) \in [Core -> Unit]
        /\ \A d \in Core \ {c} : given(E, x, c)[d] = E[d]
        /\ Elected(given(E, x, c)[c])
        /\ given(E, x, c)[c].wakeup = 1
        /\ given(E, x, c)[c].data = x.value
    BY <1>1, <1>2, GivenUnits
  <2> QED BY <2>1, <1>1, <1>3
<1>5. /\ mutexes' \in [Mutex -> MutexState]
      /\ \A k \in Mutex \ {m} : mutexes'[k] = mutexes[k]
      /\ mutexes'[m].locked = TRUE /\ mutexes'[m].elected = c
      /\ mutexes'[m].value = x.value
      /\ mutexes'[m].waiting_mask = x.waiting_mask
  BY <1>2, <1>3 DEF IInv, VarTypes, MutexState, locks, elects
<1>6. VarTypes'
  BY <1>4, <1>5 DEF IInv, VarTypes
<1>7. ASSUME NEW d \in Core PROVE CoreInv(d)'
  <2>1. CASE d = c
    BY <2>1, <1>4, MutexAssumption DEF IInv, VarTypes, CoreInv
  <2>2. CASE d # c
    <3>1. CoreInv(d) /\ eu'[d] = eu[d] /\ asks'[d] = asks[d]
      BY <2>2, <1>4 DEF IInv, VarTypes
    <3> QED BY <3>1 DEF CoreInv
  <2> QED BY <2>1, <2>2
<1>8. ASSUME NEW k \in Mutex PROVE WaitInv(k)' /\ OwnerInv(k)' /\ CycleInv(k)'
  <2>1. CASE k # m
    BY <2>1, <1>4, <1>5, OtherMutex, MutexAssumption DEF IInv, VarTypes
  <2>2. CASE k = m
    <3> OwnerInv(m) /\ WaitInv(m)
      BY DEF IInv
    <3>1. x.waiting_mask = {} /\ \A d \in Core : ~Owns(d, m)
      BY <1>3 DEF OwnerInv
    <3>2. \A d \in Core : ~(asks[d] = m /\ Asleep(eu[d]))
      BY <3>1 DEF IInv, WaitInv
    <3>3. WaitInv(m)'
      BY <3>1, <3>2, <1>4, <1>5, ShapesDiffer DEF WaitInv, IInv, VarTypes
    <3>4. \A d \in Core : Owns(d, m)' <=> d = c
      BY <3>1, <1>4, MutexAssumption DEF Owns, IInv, VarTypes
    <3>5. OwnerInv(m)'
      BY <3>1, <3>4, <1>4, <1>5 DEF OwnerInv
    <3>6. CycleInv(m)'
      BY <3>1, <1>4, <1>5 DEF CycleInv, IInv, VarTypes
    <3> QED BY <2>2, <3>3, <3>5, <3>6
  <2> QED BY <2>1, <2>2
<1>9. WordsKept
  BY <1>4, <1>5 DEF WordsKept
<1> QED BY <1>9, <1>6, <1>7, <1>8 DEF IInv

\* A lock read that takes the mutex over from the core elected in the same
\* cycle keeps the invariant: that core waits again.
LEMMA LockTakeOverStep ==
  ASSUME IInv, NEW c \in Core, NEW m \in Mutex,
         asks[c] = None, holds[c] = None,
         LockTakeOver([eu EXCEPT ![c] = demux_enter(@)], c, m),
         asks' = [asks EXCEPT ![c] = m], holds' = holds
  PROVE  IInv' /\ WordsKept
<1> DEFINE E == [eu EXCEPT ![c] = demux_enter(@)]
           x == mutexes[m]
           i == x.elected
           F == [E EXCEPT ![i] = unwake(@, mutex_event)]
<1>1. /\ E \in [Core -> Unit] /\ Awake(E[c])
      /\ E[c].pending_req_is_wait = FALSE
      /\ \A d \in Core \ {c} : E[d] = eu[d]
  BY EnteredUnits
<1>2. x \in MutexState /\ x.value \in Value
  BY DEF IInv, VarTypes, MutexState
<1>3. /\ x.locked /\ x.this_cycle /\ c < i
      /\ eu' = given(F, x, c)
      /\ mutexes' = [mutexes EXCEPT ![m] =
            locks([x EXCEPT !.waiting_mask = x.waiting_mask \cup {i}], c)]
  BY DEF LockTakeOver, takes_over
<1> HIDE DEF E
<1> OwnerInv(m) /\ WaitInv(m) /\ CycleInv(m)
  BY DEF IInv
<1>4. /\ i \in Core /\ asks[i] = m /\ Elected(eu[i]) /\ holds[i] = None
      /\ i # c /\ \A d \in x.waiting_mask : i < d
  BY <1>3, MutexAssumption DEF CycleInv, IInv, CoreInv
<1>5. /\ F \in [Core -> Unit] /\ Asleep(F[i]) /\ F[c] = E[c]
      /\ \A d \in Core \ {c, i} : F[d] = eu[d]
  <2> HIDE DEF x, i
  <2>1. E[i] = eu[i]
    BY <1>1, <1>4
  <2>2. Asleep(unwake(E[i], mutex_event))
    BY <2>1, <1>4, UnwakeSleeps
  <2>3. unwake(E[i], mutex_event) \in Unit
    BY <2>2, ShapesDiffer
  <2> QED BY <1>1, <1>4, <2>2, <2>3
<1>6. /\ eu' \in [Core -> Unit] /\ \A d \in Core \ {c, i} : eu'[d] = eu[d]
      /\ Elected(eu'[c]) /\ eu'[c].wakeup = 1 /\ eu'[c].data = x.value
      /\ Asleep(eu'[i])
  <2> HIDE DEF x, i, F
  <2>1. /\ given(F, x, c) \in [Core -> Unit]
        /\ \A d \in Core \ {c} : given(F, x, c)[d] = F[d]
        /\ Elected(given(F, x, c)[c])
        /\ given(F, x, c)[c].wakeup = 1
        /\ given(F, x, c)[c].data = x.value
    <3>1. F \in [Core -> Unit] /\ Awake(F[c])
          /\ F[c].pending_req_is_wait = FALSE /\ x.value \in Value
      BY <1>1, <1>2, <1>5
    <3> QED BY <3>1, GivenUnits
  <2> QED BY <2>1, <1>3, <1>4, <1>5
<1>7. /\ mutexes' \in [Mutex -> MutexState]
      /\ \A k \in Mutex \ {m} : mutexes'[k] = mutexes[k]
      /\ mutexes'[m].locked = TRUE /\ mutexes'[m].elected = c
      /\ mutexes'[m].value = x.value
      /\ mutexes'[m].waiting_mask = x.waiting_mask \cup {i}
  <2> DEFINE y == locks([x EXCEPT !.waiting_mask = x.waiting_mask \cup {i}], c)
  <2>1. /\ y \in MutexState /\ y.locked = TRUE /\ y.elected = c
        /\ y.value = x.value /\ y.waiting_mask = x.waiting_mask \cup {i}
    <3> HIDE DEF x, i
    <3> QED BY <1>2, <1>4 DEF MutexState, locks, elects
  <2>2. mutexes' = [mutexes EXCEPT ![m] = y] /\ mutexes \in [Mutex -> MutexState]
    BY <1>3 DEF IInv, VarTypes
  <2> HIDE DEF y
  <2> QED BY <2>1, <2>2
<1>8. VarTypes'
  BY <1>6, <1>7 DEF IInv, VarTypes
<1>9. /\ asks'[c] = m /\ \A d \in Core \ {c} : asks'[d] = asks[d]
  BY DEF IInv, VarTypes
<1> HIDE DEF i, x
<1>10. ASSUME NEW d \in Core PROVE CoreInv(d)'
  <2>1. CASE d = c
    BY <2>1, <1>6, <1>9, MutexAssumption DEF CoreInv
  <2>2. CASE d = i
    BY <2>2, <1>4, <1>6, <1>9, MutexAssumption DEF CoreInv
  <2>3. CASE d # c /\ d # i
    <3>1. CoreInv(d) /\ eu'[d] = eu[d] /\ asks'[d] = asks[d]
      BY <2>3, <1>6, <1>9 DEF IInv
    <3> QED BY <3>1 DEF CoreInv
  <2> QED BY <2>1, <2>2, <2>3
<1>11. ASSUME NEW k \in Mutex PROVE WaitInv(k)' /\ OwnerInv(k)' /\ CycleInv(k)'
  <2>1. CASE k # m
    <3>1. WaitInv(k) /\ OwnerInv(k) /\ CycleInv(k) /\ mutexes'[k] = mutexes[k]
      BY <2>1, <1>7 DEF IInv
    <3>2. ASSUME NEW d \in Core
          PROVE  /\ asks[d] = k <=> asks'[d] = k
                 /\ asks[d] = k \/ holds[d] = k => eu'[d] = eu[d]
      BY <2>1, <1>4, <1>6, <1>9, MutexAssumption
    <3> QED BY <3>1, <3>2, OtherMutex
  <2>2. CASE k = m
    <3>1. \A d \in Core : Owns(d, m) => d = i
      BY DEF OwnerInv, i, x
    <3>2. WaitInv(m)'
      <4>1. \A d \in Core : d \in x.waiting_mask <=>
                               asks[d] = m /\ Asleep(eu[d])
        BY DEF WaitInv, x
      <4> SUFFICES ASSUME NEW d \in Core
                   PROVE  d \in x.waiting_mask \cup {i} <=>
                             asks'[d] = m /\ Asleep(eu'[d])
        BY <1>7 DEF WaitInv
      <4> QED BY <4>1, <1>4, <1>6, <1>9, ShapesDiffer, MutexAssumption
    <3>3. ASSUME NEW d \in Core PROVE Owns(d, m)' <=> d = c
      <4>1. ~(asks'[i] = m /\ Elected(eu'[i])) /\ holds[i] # m
        BY <1>4, <1>6, ShapesDiffer, MutexAssumption
      <4> QED BY <4>1, <3>1, <1>6, <1>9 DEF Owns
    <3>4. OwnerInv(m)'
      BY <3>3, <1>6, <1>7 DEF OwnerInv
    <3>5. \A d \in x.waiting_mask \cup {i} : c < d
      <4>1. x.waiting_mask \subseteq Core
        BY <1>2 DEF MutexState
      <4>2. c < i
        BY <1>3 DEF i, x
      <4>3. c \in Nat /\ i \in Nat /\ x.waiting_mask \subseteq Nat
        BY <4>1, <1>4, CoreAssumption
      <4>4. \A d \in x.waiting_mask : i < d
        BY <1>4
      <4> QED BY <4>2, <4>3, <4>4
    <3>6. CycleInv(m)'
      BY <3>5, <1>6, <1>7, <1>9 DEF CycleInv
    <3> QED BY <2>2, <3>2, <3>4, <3>6
  <2> QED BY <2>1, <2>2
<1>12. WordsKept
  BY <1>4, <1>6, <1>7 DEF WordsKept, x
<1> QED BY <1>12, <1>8, <1>10, <1>11 DEF IInv

\* A lock read that has to wait keeps the invariant.
LEMMA LockWaitStep ==
  ASSUME IInv, NEW c \in Core, NEW m \in Mutex,
         asks[c] = None, holds[c] = None,
         LockWait([eu EXCEPT ![c] = demux_enter(@)], c, m),
         asks' = [asks EXCEPT ![c] = m], holds' = holds
  PROVE  IInv' /\ WordsKept
<1> DEFINE E == [eu EXCEPT ![c] = demux_enter(@)]
           x == mutexes[m]
<1>1. /\ E \in [Core -> Unit] /\ Awake(E[c])
      /\ E[c].pending_req_is_wait = FALSE
      /\ \A d \in Core \ {c} : E[d] = eu[d]
  BY EnteredUnits
<1>2. x \in MutexState
  BY DEF IInv, VarTypes
<1>3. /\ x.locked /\ ~takes_over(E, x, c) /\ eu' = enqueued(E, c)
      /\ mutexes' = [mutexes EXCEPT ![m].waiting_mask = @ \cup {c}]
  BY DEF LockWait
<1> HIDE DEF E
<1>4. /\ eu' \in [Core -> Unit] /\ \A d \in Core \ {c} : eu'[d] = eu[d]
      /\ Asleep(eu'[c])
  BY <1>1, <1>3, EnqueuedUnits
<1>5. /\ mutexes' \in [Mutex -> MutexState]
      /\ \A k \in Mutex \ {m} : mutexes'[k] = mutexes[k]
      /\ mutexes'[m].locked = x.locked /\ mutexes'[m].elected = x.elected
      /\ mutexes'[m].value = x.value
      /\ mutexes'[m].this_cycle = x.this_cycle
      /\ mutexes'[m].waiting_mask = x.waiting_mask \cup {c}
  BY <1>2, <1>3 DEF IInv, VarTypes, MutexState
<1>6. VarTypes'
  BY <1>4, <1>5 DEF IInv, VarTypes
<1>7. /\ asks'[c] = m /\ \A d \in Core \ {c} : asks'[d] = asks[d]
  BY DEF IInv, VarTypes
<1> OwnerInv(m) /\ WaitInv(m) /\ CycleInv(m)
  BY DEF IInv
<1>8. ASSUME NEW d \in Core PROVE CoreInv(d)'
  <2>1. CASE d = c
    BY <2>1, <1>4, <1>7, MutexAssumption DEF CoreInv
  <2>2. CASE d # c
    <3>1. CoreInv(d) /\ eu'[d] = eu[d] /\ asks'[d] = asks[d]
      BY <2>2, <1>4, <1>7 DEF IInv
    <3> QED BY <3>1 DEF CoreInv
  <2> QED BY <2>1, <2>2
<1>9. ASSUME NEW k \in Mutex PROVE WaitInv(k)' /\ OwnerInv(k)' /\ CycleInv(k)'
  <2>1. CASE k # m
    BY <2>1, <1>4, <1>5, <1>7, OtherMutex, MutexAssumption DEF IInv
  <2>2. CASE k = m
    <3>1. WaitInv(m)'
      BY <1>4, <1>5, <1>7 DEF WaitInv
    <3>2. ASSUME NEW d \in Core
          PROVE  /\ Owns(d, m)' <=> Owns(d, m)
                 /\ Owns(d, m) => d # c /\ eu'[d] = eu[d]
      BY <1>4, <1>7, ShapesDiffer, MutexAssumption DEF Owns
    <3>3. OwnerInv(m)'
      BY <3>2, <1>3, <1>5 DEF OwnerInv
    <3>4. CycleInv(m)'
      <4> SUFFICES ASSUME x.this_cycle PROVE CycleInv(m)'
        BY <1>5 DEF CycleInv
      <4> DEFINE i == x.elected
      <4>1. /\ i \in Core /\ asks[i] = m /\ Elected(eu[i]) /\ eu[i].wakeup = 1
            /\ \A d \in x.waiting_mask : i < d
        BY DEF CycleInv
      <4> HIDE DEF i
      <4>2. i # c /\ eu'[i] = eu[i] /\ E[i] = eu[i] /\ asks'[i] = m
        BY <4>1, <1>1, <1>4, <1>7, MutexAssumption
      <4>3. i < c
        <5>1. can_unwake(E[i])
          BY <4>1, <4>2, UnwakeSleeps
        <5>2. ~(c < i)
          BY <5>1, <1>3 DEF takes_over, i
        <5> QED BY <5>2, <4>1, <4>2, CoreAssumption
      <4> QED BY <4>1, <4>2, <4>3, <1>5 DEF CycleInv, i
    <3> QED BY <2>2, <3>1, <3>3, <3>4
  <2> QED BY <2>1, <2>2
<1>10. WordsKept
  BY <1>4, <1>5 DEF WordsKept
<1> QED BY <1>10, <1>6, <1>8, <1>9 DEF IInv

\* An unlock write that elects a waiting core keeps the invariant.
LEMMA TransferStep ==
  ASSUME IInv, NEW c \in Core, NEW m \in Mutex, NEW v \in Value,
         holds[c] = m, Transfer([eu EXCEPT ![c] = demux_enter(@)], m, v),
         holds' = [holds EXCEPT ![c] = None], asks' = asks
  PROVE  IInv' /\ WordWritten(c, m, v)
<1> DEFINE E == [eu EXCEPT ![c] = demux_enter(@)]
           x == mutexes[m]
           i == lowest(x.waiting_mask)
<1> OwnerInv(m) /\ WaitInv(m)
  BY DEF IInv
<1>1. asks[c] = None /\ Owns(c, m) /\ x.locked /\ x.elected = c
  BY MutexAssumption DEF IInv, CoreInv, OwnerInv, Owns
<1>2. /\ E \in [Core -> Unit] /\ Awake(E[c]) /\ E[c].data = eu[c].data
      /\ \A d \in Core \ {c} : E[d] = eu[d]
  BY <1>1, EnteredUnits
<1>3. x \in MutexState /\ x.waiting_mask \subseteq Core
  BY DEF IInv, VarTypes, MutexState
<1>4. /\ x.waiting_mask # {}
      /\ eu' = trigger_event([E EXCEPT ![i].data = v], {mutex_event}, {i}, 0)
      /\ mutexes' = [mutexes EXCEPT ![m] =
            [elects(x, i) EXCEPT !.waiting_mask = @ \ {i}, !.value = v]]
  BY DEF Transfer
<1> HIDE DEF E
<1>5. /\ i \in x.waiting_mask /\ i \in Core
      /\ \A j \in x.waiting_mask : i <= j
  BY <1>3, <1>4, LowestIsLeast
<1>6. asks[i] = m /\ Asleep(eu[i]) /\ i # c /\ holds[i] = None
  BY <1>1, <1>5, MutexAssumption DEF WaitInv, IInv, CoreInv
<1>7. /\ mutexes' \in [Mutex -> MutexState]
      /\ \A k \in Mutex \ {m} : mutexes'[k] = mutexes[k]
      /\ mutexes'[m].locked = TRUE /\ mutexes'[m].elected = i
      /\ mutexes'[m].value = v
      /\ mutexes'[m].waiting_mask = x.waiting_mask \ {i}
  <2> DEFINE y == [elects(x, i) EXCEPT !.waiting_mask = x.waiting_mask \ {i},
                                       !.value = v]
  <2>1. /\ y \in MutexState /\ y.locked = TRUE /\ y.elected = i
        /\ y.value = v /\ y.waiting_mask = x.waiting_mask \ {i}
    <3> HIDE DEF x, i
    <3> QED BY <1>1, <1>3, <1>5 DEF MutexState, elects
  <2>2. mutexes' = [mutexes EXCEPT ![m] = y] /\ mutexes \in [Mutex -> MutexState]
    BY <1>4 DEF IInv, VarTypes, elects
  <2> HIDE DEF y
  <2> QED BY <2>1, <2>2
<1> HIDE DEF i, x
<1>8. /\ eu' \in [Core -> Unit]
      /\ \A d \in Core \ {c, i} : eu'[d] = eu[d]
      /\ Elected(eu'[i]) /\ eu'[i].wakeup = 1 /\ eu'[i].data = v
      /\ Awake(eu'[c])
  <2>1. Asleep(E[i])
    BY <1>2, <1>5, <1>6
  <2> DEFINE F == trigger_event([E EXCEPT ![i].data = v], {mutex_event}, {i}, 0)
  <2>2. /\ F \in [Core -> Unit]
        /\ \A d \in Core \ {i} : F[d] = E[d]
        /\ Elected(F[i]) /\ F[i].wakeup = 1 /\ F[i].data = v
    BY <2>1, <1>2, <1>5, TransferUnits
  <2> HIDE DEF F
  <2>3. eu' = F
    BY <1>4 DEF F
  <2> QED BY <2>2, <2>3, <1>2, <1>6
<1>9. VarTypes'
  BY <1>7, <1>8 DEF IInv, VarTypes
<1>10. holds'[c] = None /\ \A d \in Core \ {c} : holds'[d] = holds[d]
  BY DEF IInv, VarTypes
<1>11. ASSUME NEW d \in Core PROVE CoreInv(d)'
  <2>1. CASE d = c
    BY <2>1, <1>1, <1>8 DEF CoreInv
  <2>2. CASE d = i
    BY <2>2, <1>6, <1>8, <1>10, MutexAssumption DEF CoreInv
  <2>3. CASE d # c /\ d # i
    <3>1. CoreInv(d) /\ eu'[d] = eu[d] /\ holds'[d] = holds[d]
      BY <2>3, <1>8, <1>10 DEF IInv
    <3> QED BY <3>1 DEF CoreInv
  <2> QED BY <2>1, <2>2, <2>3
<1>12. ASSUME NEW k \in Mutex PROVE WaitInv(k)' /\ OwnerInv(k)' /\ CycleInv(k)'
  <2>1. CASE k # m
    <3>1. WaitInv(k) /\ OwnerInv(k) /\ CycleInv(k) /\ mutexes'[k] = mutexes[k]
      BY <2>1, <1>7 DEF IInv
    <3>2. ASSUME NEW d \in Core
          PROVE  /\ holds[d] = k <=> holds'[d] = k
                 /\ asks[d] = k \/ holds[d] = k => eu'[d] = eu[d]
      BY <2>1, <1>1, <1>6, <1>8, <1>10, MutexAssumption
    <3> QED BY <3>1, <3>2, OtherMutex
  <2>2. CASE k = m
    <3>1. \A d \in Core : Owns(d, m) => d = c
      BY <1>1 DEF OwnerInv, x
    <3>2. WaitInv(m)'
      <4>1. \A d \in Core : d \in x.waiting_mask <=>
                               asks[d] = m /\ Asleep(eu[d])
        BY DEF WaitInv, x
      <4> SUFFICES ASSUME NEW d \in Core
                   PROVE  d \in x.waiting_mask \ {i} <=>
                             asks[d] = m /\ Asleep(eu'[d])
        BY <1>7 DEF WaitInv
      <4> QED BY <4>1, <1>1, <1>6, <1>8, ShapesDiffer, MutexAssumption
    <3>3. ASSUME NEW d \in Core PROVE Owns(d, m)' <=> d = i
      BY <3>1, <1>1, <1>6, <1>8, <1>10, ShapesDiffer, MutexAssumption DEF Owns
    <3>4. OwnerInv(m)'
      BY <3>3, <1>5, <1>7, <1>8 DEF OwnerInv
    <3>5. \A d \in x.waiting_mask \ {i} : i < d
      <4>1. i \in Nat /\ x.waiting_mask \subseteq Nat
        BY <1>3, <1>5, CoreAssumption
      <4>2. \A d \in x.waiting_mask : i <= d
        BY <1>5
      <4> QED BY <4>1, <4>2
    <3>6. CycleInv(m)'
      BY <3>5, <1>5, <1>6, <1>7, <1>8 DEF CycleInv
    <3> QED BY <2>2, <3>2, <3>4, <3>6
  <2> QED BY <2>1, <2>2
<1>13. WordWritten(c, m, v)
  BY <1>6, <1>7, <1>8 DEF WordWritten
<1> QED BY <1>13, <1>9, <1>11, <1>12 DEF IInv

\* An unlock write with no core waiting keeps the invariant.
LEMMA FreeStep ==
  ASSUME IInv, NEW c \in Core, NEW m \in Mutex, NEW v \in Value,
         holds[c] = m, Free([eu EXCEPT ![c] = demux_enter(@)], m, v),
         holds' = [holds EXCEPT ![c] = None], asks' = asks
  PROVE  IInv' /\ WordWritten(c, m, v)
<1> DEFINE E == [eu EXCEPT ![c] = demux_enter(@)]
           x == mutexes[m]
<1> OwnerInv(m) /\ WaitInv(m) /\ CycleInv(m)
  BY DEF IInv
<1>1. asks[c] = None /\ Owns(c, m) /\ x.locked /\ x.elected = c
  BY MutexAssumption DEF IInv, CoreInv, OwnerInv, Owns
<1>2. x.waiting_mask = {} /\ eu' = E
      /\ mutexes' = [mutexes EXCEPT ![m].locked = FALSE, ![m].value = v]
  BY DEF Free
<1>3. /\ eu' \in [Core -> Unit] /\ Awake(eu'[c])
      /\ \A d \in Core \ {c} : eu'[d] = eu[d]
  BY <1>1, <1>2, EnteredUnits
<1>4. x \in MutexState
  BY DEF IInv, VarTypes
<1>5. /\ mutexes' \in [Mutex -> MutexState]
      /\ \A k \in Mutex \ {m} : mutexes'[k] = mutexes[k]
      /\ mutexes'[m].locked = FALSE /\ mutexes'[m].waiting_mask = {}
      /\ mutexes'[m].this_cycle = x.this_cycle /\ mutexes'[m].value = v
  BY <1>2, <1>4 DEF IInv, VarTypes, MutexState
<1>6. VarTypes'
  BY <1>3, <1>5 DEF IInv, VarTypes
<1>7. holds'[c] = None /\ \A d \in Core \ {c} : holds'[d] = holds[d]
  BY DEF IInv, VarTypes
<1>8. ASSUME NEW d \in Core PROVE CoreInv(d)'
  <2>1. CASE d = c
    BY <2>1, <1>1, <1>3 DEF CoreInv
  <2>2. CASE d # c
    <3>1. CoreInv(d) /\ eu'[d] = eu[d] /\ holds'[d] = holds[d]
      BY <2>2, <1>3, <1>7 DEF IInv
    <3> QED BY <3>1 DEF CoreInv
  <2> QED BY <2>1, <2>2
<1>9. ASSUME NEW k \in Mutex PROVE WaitInv(k)' /\ OwnerInv(k)' /\ CycleInv(k)'
  <2>1. CASE k # m
    BY <2>1, <1>1, <1>3, <1>5, <1>7, OtherMutex, MutexAssumption DEF IInv
  <2>2. CASE k = m
    <3>1. WaitInv(m)'
      BY <1>1, <1>2, <1>3, <1>5, MutexAssumption DEF WaitInv
    <3>2. ASSUME NEW d \in Core PROVE ~Owns(d, m)'
      <4>1. Owns(d, m) => d = c
        BY <1>1 DEF OwnerInv
      <4> QED BY <4>1, <1>1, <1>3, <1>7, MutexAssumption DEF Owns
    <3>3. OwnerInv(m)'
      BY <3>2, <1>5 DEF OwnerInv
    <3>4. ~x.this_cycle
      BY <1>1, MutexAssumption DEF CycleInv
    <3>5. CycleInv(m)'
      BY <3>4, <1>5 DEF CycleInv
    <3> QED BY <2>2, <3>1, <3>3, <3>5
  <2> QED BY <2>1, <2>2
<1>10. WordWritten(c, m, v)
  BY <1>3, <1>5 DEF WordWritten
<1> QED BY <1>10, <1>6, <1>8, <1>9 DEF IInv

\* What the answer of an elected core changes.
LEMMA WakeupFacts ==
  ASSUME IInv, NEW c \in Core, Wakeup(c)
  PROVE  /\ asks[c] \in Mutex /\ holds[c] = None
         /\ Elected(eu[c]) /\ eu[c].wakeup = 0
         /\ Awake(eu'[c]) /\ eu'[c].data = eu[c].data
         /\ eu' \in [Core -> Unit]
         /\ \A d \in Core \ {c} : eu'[d] = eu[d]
         /\ mutexes' = mutexes
         /\ asks' \in [Core -> Mutex \cup {None}]
         /\ holds' \in [Core -> Mutex \cup {None}]
         /\ asks'[c] = None /\ holds'[c] = asks[c]
         /\ \A d \in Core \ {c} : asks'[d] = asks[d] /\ holds'[d] = holds[d]
<1> DEFINE h == [wakeup_handler(eu[c]) EXCEPT !.pending_req = "freed"]
<1>1. /\ eu[c].wakeup = 0 /\ eu' = [eu EXCEPT ![c] = h] /\ mutexes' = mutexes
      /\ asks' = [asks EXCEPT ![c] = None]
      /\ holds' = [holds EXCEPT ![c] = asks[c]]
  BY DEF Wakeup
<1>2. CoreInv(c) /\ eu[c].wakeup # Idle
  BY <1>1 DEF IInv, Idle
<1>3. asks[c] # None /\ Elected(eu[c]) /\ holds[c] = None
  BY <1>2, ShapesDiffer DEF CoreInv
<1>4. Awake(h) /\ h.data = eu[c].data /\ h \in Unit
  BY <1>3, AnswerWakes, ShapesDiffer
<1> HIDE DEF h
<1> QED BY <1>1, <1>3, <1>4 DEF IInv, VarTypes

\* The answer of the elected core makes it the holder and keeps the invariant.
LEMMA WakeupStep ==
  ASSUME IInv, NEW c \in Core, Wakeup(c)
  PROVE  IInv'
<1>1. PICK m \in Mutex : asks[c] = m
  BY WakeupFacts
<1>2. /\ m \in Mutex /\ holds[c] = None
      /\ Elected(eu[c]) /\ eu[c].wakeup = 0
      /\ Awake(eu'[c]) /\ eu'[c].data = eu[c].data
      /\ eu' \in [Core -> Unit]
      /\ \A d \in Core \ {c} : eu'[d] = eu[d]
      /\ mutexes' = mutexes
      /\ asks' \in [Core -> Mutex \cup {None}]
      /\ holds' \in [Core -> Mutex \cup {None}]
      /\ asks'[c] = None /\ holds'[c] = m
      /\ \A d \in Core \ {c} : asks'[d] = asks[d] /\ holds'[d] = holds[d]
  BY <1>1, WakeupFacts
<1>3. VarTypes'
  BY <1>2 DEF IInv, VarTypes
<1>4. ASSUME NEW d \in Core PROVE CoreInv(d)'
  <2>1. CASE d = c
    BY <2>1, <1>2 DEF CoreInv
  <2>2. CASE d # c
    <3>1. CoreInv(d) /\ eu'[d] = eu[d] /\ holds'[d] = holds[d]
          /\ asks'[d] = asks[d]
      BY <2>2, <1>2 DEF IInv
    <3> QED BY <3>1 DEF CoreInv
  <2> QED BY <2>1, <2>2
<1>5. ASSUME NEW k \in Mutex PROVE WaitInv(k)' /\ OwnerInv(k)' /\ CycleInv(k)'
  <2> WaitInv(k) /\ OwnerInv(k) /\ CycleInv(k)
    BY DEF IInv
  <2>1. CASE k # m
    BY <2>1, <1>2, <1>1, OtherMutex, MutexAssumption
  <2>2. CASE k = m
    <3>1. WaitInv(m)'
      BY <2>2, <1>2, ShapesDiffer, MutexAssumption DEF WaitInv
    <3>2. Owns(c, m)
      BY <1>2, <1>1 DEF Owns
    <3>3. ASSUME NEW d \in Core
          PROVE  (Owns(d, m)' <=> Owns(d, m)) /\ eu'[d].data = eu[d].data
      BY <3>2, <1>2 DEF Owns
    <3>4. OwnerInv(m)'
      BY <2>2, <3>3, <1>2 DEF OwnerInv
    <3>5. mutexes[m].elected = c
      BY <3>2, <2>2 DEF OwnerInv
    <3>6. CycleInv(m)'
      BY <2>2, <3>5, <1>2 DEF CycleInv
    <3> QED BY <2>2, <3>1, <3>4, <3>6
  <2> QED BY <2>1, <2>2
<1> QED BY <1>3, <1>4, <1>5 DEF IInv

\* A cycle keeps the shape and the word of every unit.
LEMMA TickFacts ==
  ASSUME IInv, Tick
  PROVE  /\ asks' = asks /\ holds' = holds
         /\ eu' \in [Core -> Unit]
         /\ \A c \in Core : /\ Awake(eu'[c]) <=> Awake(eu[c])
                            /\ Asleep(eu'[c]) <=> Asleep(eu[c])
                            /\ Elected(eu'[c]) <=> Elected(eu[c])
                            /\ eu'[c].data = eu[c].data
         /\ mutexes' \in [Mutex -> MutexState]
         /\ \A m \in Mutex : /\ mutexes'[m].this_cycle = FALSE
                             /\ mutexes'[m].locked = mutexes[m].locked
                             /\ mutexes'[m].elected = mutexes[m].elected
                             /\ mutexes'[m].value = mutexes[m].value
                             /\ mutexes'[m].waiting_mask = mutexes[m].waiting_mask
<1>1. /\ eu' = [c \in Core |-> tick(eu[c])] /\ asks' = asks /\ holds' = holds
      /\ mutexes' = [m \in Mutex |-> [mutexes[m] EXCEPT !.this_cycle = FALSE]]
      /\ \A c \in Core : nothing_due(eu[c])
  BY DEF Tick
<1>2. ASSUME NEW c \in Core
      PROVE  /\ tick(eu[c]) \in Unit
             /\ Awake(tick(eu[c])) <=> Awake(eu[c])
             /\ Asleep(tick(eu[c])) <=> Asleep(eu[c])
             /\ Elected(tick(eu[c])) <=> Elected(eu[c])
             /\ tick(eu[c]).data = eu[c].data
  <2>1. Awake(eu[c]) \/ Asleep(eu[c]) \/ Elected(eu[c])
    BY DEF IInv, CoreInv
  <2>2. eu[c].wakeup # 0
    BY <1>1 DEF nothing_due
  <2> QED BY <2>1, <2>2, TickKeeps, ShapesDiffer
<1>3. ASSUME NEW m \in Mutex
      PROVE  LET y == [mutexes[m] EXCEPT !.this_cycle = FALSE]
             IN  /\ y \in MutexState
                 /\ y.this_cycle = FALSE /\ y.locked = mutexes[m].locked
                 /\ y.elected = mutexes[m].elected
                 /\ y.value = mutexes[m].value
                 /\ y.waiting_mask = mutexes[m].waiting_mask
  BY DEF IInv, VarTypes, MutexState
<1>4. eu' \in [Core -> Unit] /\ mutexes' \in [Mutex -> MutexState]
  BY <1>1, <1>2, <1>3
<1> QED BY <1>1, <1>2, <1>3, <1>4

\* A cycle closes the elections of the last one and keeps the invariant.
LEMMA TickStep ==
  ASSUME IInv, Tick
  PROVE  IInv'
<1>1. VarTypes'
  BY TickFacts DEF IInv, VarTypes
<1>2. ASSUME NEW c \in Core PROVE CoreInv(c)'
  BY TickFacts DEF IInv, CoreInv
<1>3. ASSUME NEW m \in Mutex PROVE WaitInv(m)' /\ OwnerInv(m)' /\ CycleInv(m)'
  <2>1. WaitInv(m) /\ OwnerInv(m)
    BY DEF IInv
  <2>2. WaitInv(m)'
    BY <2>1, TickFacts DEF WaitInv
  <2>3. \A c \in Core : Owns(c, m)' <=> Owns(c, m)
    BY TickFacts DEF Owns
  <2>4. OwnerInv(m)'
    BY <2>1, <2>3, TickFacts DEF OwnerInv
  <2>5. CycleInv(m)'
    BY TickFacts DEF CycleInv
  <2> QED BY <2>2, <2>4, <2>5
<1> QED BY <1>1, <1>2, <1>3 DEF IInv

\* Every step, of any core on any mutex, keeps the invariant.
LEMMA NextIInv == IInv /\ [Next]_vars => IInv'
<1> SUFFICES ASSUME IInv, [Next]_vars PROVE IInv'
  OBVIOUS
<1>1. ASSUME NEW c \in Core, NEW m \in Mutex, Lock(c, m) PROVE IInv'
  BY <1>1, LockFreeStep, LockTakeOverStep, LockWaitStep DEF Lock
<1>2. ASSUME NEW c \in Core, NEW m \in Mutex, NEW v \in Value, Unlock(c, m, v)
      PROVE  IInv'
  BY <1>2, TransferStep, FreeStep DEF Unlock
<1>3. CASE UNCHANGED vars
  BY <1>3 DEF vars, IInv, VarTypes, CoreInv, WaitInv, OwnerInv, CycleInv, Owns
<1> QED BY <1>1, <1>2, <1>3, WakeupStep, TickStep DEF Next

\* The inductive invariant holds in every behaviour of the mutexes.
THEOREM Invariance == Spec => []IInv
BY InitIInv, NextIInv, PTL DEF Spec

-----------------------------------------------------------------------------
(***************************************************************************)
(* The theorems.                                                           *)
(***************************************************************************)

\* Every variable keeps its type: in particular no mutex elects a core that
\* does not exist and no parked read is answered with anything but a word.
THEOREM TypeCorrect == Spec => []TypeOK
<1>1. IInv => TypeOK
  BY DEF IInv, VarTypes, TypeOK, Unit
<1> QED BY <1>1, Invariance, PTL

\* Two cores never hold the same mutex.
THEOREM MutexSafe == Spec => []MutualExclusion
<1>1. IInv => MutualExclusion
  <2> SUFFICES ASSUME IInv, NEW c \in Core, NEW d \in Core,
                      holds[c] # None, holds[c] = holds[d]
               PROVE  c = d
    BY DEF MutualExclusion
  <2>1. holds[c] \in Mutex
    BY DEF IInv, VarTypes
  <2>2. OwnerInv(holds[c]) /\ Owns(c, holds[c]) /\ Owns(d, holds[c])
    BY <2>1 DEF IInv, Owns
  <2> QED BY <2>2 DEF OwnerInv
<1> QED BY <1>1, Invariance, PTL

\* An election is of the lowest of the cores waiting and asking that cycle.
THEOREM ElectionOrder == Spec => []ElectsFirst
<1>1. IInv => ElectsFirst
  BY DEF IInv, CycleInv, ElectsFirst
<1> QED BY <1>1, Invariance, PTL

\* A locked mutex has an owner, and exactly the other cores parked on it wait.
THEOREM LocksKept == Spec => []NoLostLock
<1>1. IInv => NoLostLock
  <2> SUFFICES ASSUME IInv, NEW m \in Mutex
               PROVE  LET x == mutexes[m] IN
                      /\ x.locked =>
                           /\ Owner(m) \in Core
                           /\ \/ holds[Owner(m)] = m
                              \/ asks[Owner(m)] = m /\ eu[Owner(m)].wakeup # Idle
                      /\ ~x.locked => x.waiting_mask = {}
                      /\ x.waiting_mask =
                           {c \in Core : asks[c] = m /\ eu[c].wakeup = Idle}
    BY DEF NoLostLock
  <2>1. OwnerInv(m) /\ WaitInv(m) /\ mutexes[m].waiting_mask \subseteq Core
    BY DEF IInv, VarTypes, MutexState
  <2>2. mutexes[m].locked =>
           /\ Owner(m) \in Core
           /\ \/ holds[Owner(m)] = m
              \/ asks[Owner(m)] = m /\ eu[Owner(m)].wakeup # Idle
    BY <2>1, ShapesDiffer DEF OwnerInv, Owns, Owner
  <2>3. ~mutexes[m].locked => mutexes[m].waiting_mask = {}
    BY <2>1 DEF OwnerInv
  <2>4. ASSUME NEW c \in Core
        PROVE  c \in mutexes[m].waiting_mask <=>
                  asks[c] = m /\ eu[c].wakeup = Idle
    <3>1. CoreInv(c)
      BY DEF IInv
    <3> QED BY <2>1, <3>1, ShapesDiffer, MutexAssumption DEF CoreInv, WaitInv
  <2> QED BY <2>1, <2>2, <2>3, <2>4
<1> QED BY <1>1, Invariance, PTL

\* Only its mutex can wake a waiting core.
THEOREM WaitersAsleep == Spec => []WaitersSleep
<1>1. IInv => WaitersSleep
  <2> SUFFICES ASSUME IInv, NEW m \in Mutex, NEW c \in mutexes[m].waiting_mask
               PROVE  Asleep(eu[c])
    BY DEF WaitersSleep, Asleep, Quiet
  <2>1. c \in Core /\ WaitInv(m)
    BY DEF IInv, VarTypes, MutexState
  <2> QED BY <2>1 DEF WaitInv
<1> QED BY <1>1, Invariance, PTL

(***************************************************************************)
(* The refinement.                                                         *)
(***************************************************************************)
\* A lock read, whichever way it goes, is an Ask of the abstract lock.
LEMMA LockImplementsAsk ==
  ASSUME IInv, NEW c \in Core, NEW m \in Mutex, Lock(c, m)
  PROVE  L!Ask(c, m)
<1>1. asks[c] = None /\ holds[c] = None /\ holds' = holds
      /\ asks' = [asks EXCEPT ![c] = m]
  BY DEF Lock
<1>2. WordsKept
  BY LockFreeStep, LockTakeOverStep, LockWaitStep DEF Lock
<1>3. [k \in Mutex |-> mutexes'[k].value] = [k \in Mutex |-> mutexes[k].value]
  BY <1>2 DEF WordsKept
<1>4. [d \in Core |-> IF holds'[d] = None THEN None ELSE eu'[d].data]
        = [d \in Core |-> IF holds[d] = None THEN None ELSE eu[d].data]
  BY <1>1, <1>2 DEF WordsKept
<1> QED BY <1>1, <1>3, <1>4 DEF L!Ask

\* The answer of a lock read is an Acquire: the mutex has no other holder and
\* the answer carries its word.
LEMMA WakeupImplementsAcquire ==
  ASSUME IInv, NEW c \in Core, Wakeup(c)
  PROVE  \E m \in Mutex : L!Acquire(c, m)
<1>1. PICK m \in Mutex : asks[c] = m
  BY WakeupFacts
<1>2. Owns(c, m) /\ OwnerInv(m)
  BY <1>1, WakeupFacts DEF Owns, IInv
<1>3. \A d \in Core : holds[d] # m
  BY <1>1, <1>2, WakeupFacts, MutexAssumption DEF OwnerInv, Owns
<1>4. eu[c].data = mutexes[m].value
  BY <1>2 DEF OwnerInv
<1>5. asks' = [asks EXCEPT ![c] = None] /\ holds' = [holds EXCEPT ![c] = m]
      /\ mutexes' = mutexes
  BY <1>1 DEF Wakeup
<1> DEFINE got  == [d \in Core |-> IF holds[d] = None THEN None ELSE eu[d].data]
           got2 == [d \in Core |-> IF holds'[d] = None THEN None ELSE eu'[d].data]
           word == [k \in Mutex |-> mutexes[k].value]
<1>6. got2 = [got EXCEPT ![c] = word[m]]
  <2>1. got2[c] = mutexes[m].value
    BY <1>1, <1>4, WakeupFacts, MutexAssumption
  <2>2. \A d \in Core \ {c} : got2[d] = got[d]
    BY WakeupFacts
  <2>3. word[m] = mutexes[m].value
    OBVIOUS
  <2> QED BY <2>1, <2>2, <2>3
<1> QED BY <1>1, <1>3, <1>5, <1>6 DEF L!Acquire

\* An unlock write, with a core waiting or not, is a Release.
LEMMA UnlockImplementsRelease ==
  ASSUME IInv, NEW c \in Core, NEW m \in Mutex, NEW v \in Value,
         Unlock(c, m, v)
  PROVE  L!Release(c, m, v)
<1>1. holds[c] = m /\ asks' = asks /\ holds' = [holds EXCEPT ![c] = None]
  BY DEF Unlock
<1>2. WordWritten(c, m, v)
  BY TransferStep, FreeStep DEF Unlock
<1> DEFINE got  == [d \in Core |-> IF holds[d] = None THEN None ELSE eu[d].data]
           got2 == [d \in Core |-> IF holds'[d] = None THEN None ELSE eu'[d].data]
           word == [k \in Mutex |-> mutexes[k].value]
           word2 == [k \in Mutex |-> mutexes'[k].value]
<1>3. word2 = [word EXCEPT ![m] = v]
  BY <1>2 DEF WordWritten
<1>4. got2 = [got EXCEPT ![c] = None]
  <2>1. holds'[c] = None /\ \A d \in Core \ {c} : holds'[d] = holds[d]
    BY <1>1 DEF IInv, VarTypes
  <2> QED BY <2>1, <1>2 DEF WordWritten
<1> QED BY <1>1, <1>3, <1>4 DEF L!Release

\* The event unit's mutexes implement the abstract hand-off lock: a core gets
\* a mutex only when no core holds it, and reads the word of the last release.
THEOREM MutexRefinesLock == Spec => HandsOff
<1>1. Init => L!LockInit
  <2> SUFFICES ASSUME Init PROVE L!LockInit
    OBVIOUS
  <2>1. asks = [c \in Core |-> None] /\ holds = [c \in Core |-> None]
    BY DEF Init
  <2>2. [m \in Mutex |-> mutexes[m].value] \in [Mutex -> Value]
    BY DEF Init, Mutex_reset
  <2>3. [c \in Core |-> IF holds[c] = None THEN None ELSE eu[c].data]
          = [c \in Core |-> None]
    BY <2>1
  <2> QED BY <2>1, <2>2, <2>3 DEF L!LockInit
<1>2. IInv /\ [Next]_vars => [L!LockNext]_(L!lvars)
  <2> SUFFICES ASSUME IInv, [Next]_vars PROVE [L!LockNext]_(L!lvars)
    OBVIOUS
  <2>1. ASSUME NEW c \in Core, NEW m \in Mutex, Lock(c, m) PROVE L!LockNext
    BY <2>1, LockImplementsAsk DEF L!LockNext
  <2>2. ASSUME NEW c \in Core, NEW m \in Mutex, NEW v \in Value, Unlock(c, m, v)
        PROVE  L!LockNext
    BY <2>2, UnlockImplementsRelease DEF L!LockNext
  <2>3. ASSUME NEW c \in Core, Wakeup(c) PROVE L!LockNext
    BY <2>3, WakeupImplementsAcquire DEF L!LockNext
  <2>4. ASSUME Tick PROVE UNCHANGED L!lvars
    <3>1. [m \in Mutex |-> mutexes'[m].value] = [m \in Mutex |-> mutexes[m].value]
      BY <2>4, TickFacts
    <3>2. [c \in Core |-> IF holds'[c] = None THEN None ELSE eu'[c].data]
            = [c \in Core |-> IF holds[c] = None THEN None ELSE eu[c].data]
      BY <2>4, TickFacts
    <3> QED BY <2>4, <3>1, <3>2, TickFacts DEF L!lvars
  <2>5. ASSUME UNCHANGED vars PROVE UNCHANGED L!lvars
    BY <2>5 DEF vars, L!lvars
  <2> QED BY <2>1, <2>2, <2>3, <2>4, <2>5 DEF Next
<1> QED BY <1>1, <1>2, Invariance, PTL DEF Spec, HandsOff, L!LockSpec

=============================================================================
