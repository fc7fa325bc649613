----------------------------- MODULE MutexUnit -----------------------------
(***************************************************************************)
(* The hardware mutexes of the event unit (mutex_unit.cpp) with the core   *)
(* units they put to sleep and wake.                                       *)
(*                                                                         *)
(* A core locks a mutex by reading it and unlocks it by writing the word   *)
(* the next owner reads.  The lock read always parks: it is answered one   *)
(* cycle after the core is elected.  A core that asks in the cycle of an   *)
(* election may take the mutex over from a higher core, whose wake-up is   *)
(* then cancelled.                                                         *)
(*                                                                         *)
(* The cores use a mutex as intended: a core asks for one mutex at a time  *)
(* and only its holder writes it.  The mutex event is the only one that    *)
(* comes in the event mask, as any other would answer a lock read too, and *)
(* irq_mask keeps its reset value.                                         *)
(***************************************************************************)
EXTENDS CoreEventUnit

CONSTANTS Mutex,          \* mutex identifiers, 0 .. nb_mutexes - 1
          Value,          \* words a release can write
          None,
          mutex_event,    \* event number of the mutexes
          EvtMask         \* event mask of the cores

ASSUME MutexAssumption ==
    /\ mutex_event \in Event
    /\ EvtMask \subseteq Event
    /\ mutex_event \in EvtMask
    /\ None \notin Mutex /\ None \notin Value

VARIABLES eu,       \* the core units
          mutexes,  \* the mutexes
          asks,     \* the mutex a core is parked on, or None
          holds     \* the mutex a core has been given, or None

vars == <<eu, mutexes, asks, holds>>

NoCore == -1

\* this_cycle stands for elect_cycle being the current cycle.
MutexState == [ locked : BOOLEAN, waiting_mask : SUBSET Core, value : Value,
                elected : Core \cup {NoCore}, this_cycle : BOOLEAN ]

\* The data of the requests: words, or {} before the first request.
Data == Value \cup SUBSET Event

TypeOK ==
    /\ eu \in [Core -> Core_event_unit(Data)]
    /\ mutexes \in [Mutex -> MutexState]
    /\ asks \in [Core -> Mutex \cup {None}]
    /\ holds \in [Core -> Mutex \cup {None}]

\* Mutex::reset() leaves the word of a mutex as it is, which is any.
Mutex_reset(v) == [ locked |-> FALSE, waiting_mask |-> {}, value |-> v,
                    elected |-> NoCore, this_cycle |-> FALSE ]

Init ==
    /\ eu = [c \in Core |-> [Core_event_unit_reset EXCEPT !.evt_mask = EvtMask]]
    /\ \E word \in [Mutex -> Value] :
          mutexes = [m \in Mutex |-> Mutex_reset(word[m])]
    /\ asks = [c \in Core |-> None]
    /\ holds = [c \in Core |-> None]

-----------------------------------------------------------------------------
\* A mutex elects core c in the current cycle.
elects(x, c) == [x EXCEPT !.elected = c, !.this_cycle = TRUE]
locks(x, c)  == [elects(x, c) EXCEPT !.locked = TRUE]

\* give(): the reader sleeps on its read and its mutex event is raised.
given(E, x, c) ==
    trigger_event(
        [E EXCEPT ![c] = put_to_sleep([@ EXCEPT !.data = x.value,
                                         !.clear_evt_mask = {mutex_event}],
                                      "WAITING_EVENT")],
        {mutex_event}, {c}, 0)

\* enqueue_sleep()
enqueued(E, c) ==
    [E EXCEPT ![c] = wait_event([@ EXCEPT !.clear_evt_mask = {mutex_event}],
                                "WAITING_EVENT")]

\* Faulty: the higher core takes over.
takes_over_up(E, x, c) ==
    x.this_cycle /\ x.elected < c /\ can_unwake(E[x.elected])

\* The core elected this cycle, not answered yet, gives way to a lower one.
takes_over(E, x, c) ==
    x.this_cycle /\ c < x.elected /\ can_unwake(E[x.elected])

\* A lock read of core c, E being the units after demux_enter.
LockFree(E, c, m) ==
    /\ ~mutexes[m].locked
    /\ eu' = given(E, mutexes[m], c)
    /\ mutexes' = [mutexes EXCEPT ![m] = locks(@, c)]

\* Faulty: the wake-up of the core that gives way is not cancelled.
LockTakeOver_both(E, c, m) ==
    LET x == mutexes[m]
    IN  /\ x.locked
        /\ takes_over(E, x, c)
        /\ eu' = given(E, x, c)
        /\ mutexes' = [mutexes EXCEPT ![m] =
              locks([x EXCEPT !.waiting_mask = @ \cup {x.elected}], c)]

LockTakeOver(E, c, m) ==
    LET x == mutexes[m]
    IN  /\ x.locked
        /\ takes_over(E, x, c)
        /\ eu' = given([E EXCEPT ![x.elected] = unwake(@, mutex_event)], x, c)
        /\ mutexes' = [mutexes EXCEPT ![m] =
              locks([x EXCEPT !.waiting_mask = @ \cup {x.elected}], c)]

\* Faulty: the core sleeps and nobody knows it waits.
LockWait_forgotten(E, c, m) ==
    /\ mutexes[m].locked
    /\ ~takes_over(E, mutexes[m], c)
    /\ eu' = enqueued(E, c)
    /\ UNCHANGED mutexes

LockWait(E, c, m) ==
    /\ mutexes[m].locked
    /\ ~takes_over(E, mutexes[m], c)
    /\ eu' = enqueued(E, c)
    /\ mutexes' = [mutexes EXCEPT ![m].waiting_mask = @ \cup {c}]

Lock(c, m) ==
    LET E == [eu EXCEPT ![c] = demux_enter(@)]
    IN  /\ asks[c] = None /\ holds[c] = None
        /\ LockFree(E, c, m) \/ LockTakeOver(E, c, m) \/ LockWait(E, c, m)
        /\ asks' = [asks EXCEPT ![c] = m]
        /\ UNCHANGED holds

\* The write of the holder: the lowest waiting core is elected and its parked
\* read gets the word, or the mutex becomes free.
lowest(S) == CHOOSE i \in S : \A j \in S : i <= j

\* Faulty: the new owner stays in the waiting mask.
Transfer_kept(E, m, v) ==
    LET x == mutexes[m]
        i == lowest(x.waiting_mask)
    IN  /\ x.waiting_mask # {}
        /\ eu' = trigger_event([E EXCEPT ![i].data = v], {mutex_event}, {i}, 0)
        /\ mutexes' = [mutexes EXCEPT ![m] = [elects(x, i) EXCEPT !.value = v]]

\* Faulty: the new owner reads the word before the write.
Transfer_stale(E, m, v) ==
    LET x == mutexes[m]
        i == lowest(x.waiting_mask)
    IN  /\ x.waiting_mask # {}
        /\ eu' = trigger_event([E EXCEPT ![i].data = x.value],
                               {mutex_event}, {i}, 0)
        /\ mutexes' = [mutexes EXCEPT ![m] =
              [elects(x, i) EXCEPT !.waiting_mask = @ \ {i}, !.value = v]]

Transfer(E, m, v) ==
    LET x == mutexes[m]
        i == lowest(x.waiting_mask)
    IN  /\ x.waiting_mask # {}
        /\ eu' = trigger_event([E EXCEPT ![i].data = v], {mutex_event}, {i}, 0)
        /\ mutexes' = [mutexes EXCEPT ![m] =
              [elects(x, i) EXCEPT !.waiting_mask = @ \ {i}, !.value = v]]

Free(E, m, v) ==
    /\ mutexes[m].waiting_mask = {}
    /\ eu' = E
    /\ mutexes' = [mutexes EXCEPT ![m].locked = FALSE, ![m].value = v]

Unlock(c, m, v) ==
    LET E == [eu EXCEPT ![c] = demux_enter(@)]
    IN  /\ holds[c] = m
        /\ Transfer(E, m, v) \/ Free(E, m, v)
        /\ holds' = [holds EXCEPT ![c] = None]
        /\ UNCHANGED asks

\* The wake-up event of core c: its parked read is answered, it has the mutex.
Wakeup(c) ==
    /\ eu[c].wakeup = 0
    /\ eu' = [eu EXCEPT ![c] = [wakeup_handler(@) EXCEPT !.pending_req = "freed"]]
    /\ asks' = [asks EXCEPT ![c] = None]
    /\ holds' = [holds EXCEPT ![c] = asks[c]]
    /\ UNCHANGED mutexes

Tick ==
    /\ \A c \in Core : nothing_due(eu[c])
    /\ eu' = [c \in Core |-> tick(eu[c])]
    /\ mutexes' = [m \in Mutex |-> [mutexes[m] EXCEPT !.this_cycle = FALSE]]
    /\ UNCHANGED <<asks, holds>>

Next ==
    \/ Tick
    \/ \E c \in Core :
          \/ Wakeup(c)
          \/ \E m \in Mutex : Lock(c, m) \/ \E v \in Value : Unlock(c, m, v)

\* Clock events run in their cycle and cycles pass; a holder unlocks.
Fairness ==
    /\ WF_vars(Tick)
    /\ \A c \in Core : WF_vars(Wakeup(c))
    /\ \A c \in Core : WF_vars(\E m \in Mutex, v \in Value : Unlock(c, m, v))

Spec == Init /\ [][Next]_vars

FairSpec == Spec /\ Fairness

-----------------------------------------------------------------------------
(***************************************************************************)
(* Properties.                                                             *)
(***************************************************************************)

\* A mutex is held by one core at a time, whatever the order of reads,
\* take-overs, writes and wake-ups.
MutualExclusion ==
    \A c, d \in Core : holds[c] # None /\ holds[c] = holds[d] => c = d

\* The election of hw_mutex_unit: "the first core among the waiting ones and
\* the ones asking that cycle".  At any point of the cycle of an election no
\* core lower than the elected one is waiting.
ElectsFirst ==
    \A m \in Mutex : mutexes[m].this_cycle =>
        \A c \in mutexes[m].waiting_mask : mutexes[m].elected < c

\* No lock is lost and no waiter forgotten: a locked mutex has exactly one
\* core that holds it or is about to be answered, which is the elected one,
\* and every other core parked on it is in its waiting mask, asleep.
Owner(m) == mutexes[m].elected

NoLostLock ==
    \A m \in Mutex :
        LET x == mutexes[m] IN
        /\ x.locked => /\ Owner(m) \in Core
                       /\ \/ holds[Owner(m)] = m
                          \/ asks[Owner(m)] = m /\ eu[Owner(m)].wakeup # Idle
        /\ ~x.locked => x.waiting_mask = {}
        /\ x.waiting_mask = {c \in Core : asks[c] = m /\ eu[c].wakeup = Idle}

\* A waiting core is asleep, its buffer empty of mutex events, and its unit
\* ready to clear the next one: also a core that had been elected, whose event
\* was consumed, and that had to give way before its answer.  Otherwise the
\* event would survive its election and answer its next lock read at once.
WaitersSleep ==
    \A m \in Mutex : \A c \in mutexes[m].waiting_mask :
        /\ ~eu[c].is_active /\ eu[c].state = "WAITING_EVENT"
        /\ eu[c].clear_evt_mask = {mutex_event}
        /\ mutex_event \notin eu[c].status

\* The mutexes implement the abstract lock: a core gets a mutex only when it
\* is free, and reads the word the last release wrote.
L == INSTANCE HandoffLock WITH
        word <- [m \in Mutex |-> mutexes[m].value],
        got  <- [c \in Core |-> IF holds[c] = None THEN None ELSE eu[c].data]

HandsOff == L!LockSpec

\* The lowest core, which every election prefers, gets every mutex it asks
\* for: take-overs and transfers never pass it over for ever.
LowestGetsIt ==
    \A m \in Mutex : asks[lowest(Core)] = m ~> holds[lowest(Core)] = m

=============================================================================
