---------------------------- MODULE DispatchUnit ----------------------------
(***************************************************************************)
(* The dispatch unit of the event unit (dispatch_unit.cpp): a circular     *)
(* FIFO the master core pushes work items into, each for a team of cores,  *)
(* and the other cores pop them from, sleeping when there is none.  Every  *)
(* core has its own tail and bypasses the items of other teams.            *)
(*                                                                         *)
(* The items are numbered in the order of the pushes.  The history         *)
(* variables are what has been pushed and what each core has read.  No     *)
(* other event and no interrupt reaches the cores meanwhile.               *)
(***************************************************************************)
EXTENDS CoreEventUnit, Sequences, Functions

CONSTANTS size,             \* number of entries of the FIFO
          Master,           \* the core that pushes
          dispatch_event,   \* event number of the dispatch unit
          MaxPush           \* bound: number of items pushed

ASSUME DispatchAssumption ==
    /\ size \in Nat \ {0} /\ MaxPush \in Nat
    /\ Master \in Core
    /\ dispatch_event \in Event

VARIABLES eu, dispatches, fifo_head, tail, config,
          reads,      \* the cores that are parked on a FIFO read
          pushed,     \* the teams of the items pushed so far
          got         \* the items each core has read

vars == <<eu, dispatches, fifo_head, tail, config, reads, pushed, got>>

Reader == Core \ {Master}
Entry  == 0 .. size - 1
Item   == 0 .. MaxPush
Team   == SUBSET Reader

DispatchState == [ value : Item, status_mask : SUBSET Core,
                   config_mask : Team, waiting_mask : SUBSET Reader ]

TypeOK ==
    /\ eu \in [Core -> Core_event_unit(Item)]
    /\ dispatches \in [Entry -> DispatchState]
    /\ fifo_head \in Entry /\ tail \in [Core -> Entry] /\ config \in Team
    /\ reads \subseteq Reader
    /\ pushed \in Seq(Team) /\ Len(pushed) <= MaxPush
    /\ got \in [Core -> Seq(Item)]

Dispatch_reset == [ value |-> 0, status_mask |-> {}, config_mask |-> {},
                    waiting_mask |-> {} ]

Init ==
    /\ eu = [c \in Core |-> [Core_event_unit_reset EXCEPT
                                !.evt_mask = {dispatch_event}, !.data = 0]]
    /\ dispatches = [i \in Entry |-> Dispatch_reset]
    /\ fifo_head = 0 /\ tail = [c \in Core |-> 0] /\ config = {}
    /\ reads = {} /\ pushed = <<>> /\ got = [c \in Core |-> <<>>]

-----------------------------------------------------------------------------
next_entry(i) == IF i + 1 = size THEN 0 ELSE i + 1

\* A read sleeps until the event of the dispatch unit, which it clears.
sleeper(e) == put_to_sleep([e EXCEPT !.clear_evt_mask = {dispatch_event}],
                           "WAITING_EVENT")

SetTeam(team) ==
    /\ config' = team
    /\ eu' = [eu EXCEPT ![Master] = demux_enter(@)]
    /\ UNCHANGED <<dispatches, fifo_head, tail, reads, pushed, got>>

\* The write of the FIFO: the cores waiting at the head entry that are of the
\* team take the item, the others go on to wait at the entry after their tail.
Push ==
    LET x     == dispatches[fifo_head]
        item  == Len(pushed) + 1
        taken == x.waiting_mask \cap config
        moved == x.waiting_mask \ config
        y     == [ value |-> item, config_mask |-> config,
                   status_mask |-> Core \ x.waiting_mask, waiting_mask |-> {} ]
        E     == [c \in Core |->
                    CASE c \in taken -> [eu[c] EXCEPT !.data = item]
                      [] c \in moved -> sleeper(eu[c])
                      [] c = Master  -> demux_enter(eu[c])
                      [] OTHER       -> eu[c]]
    IN  /\ Len(pushed) < MaxPush
        /\ x.status_mask \cap Reader = {}     \* the master's care, not a test
        /\ fifo_head' = next_entry(fifo_head)
        /\ tail' = [c \in Core |-> IF c \in x.waiting_mask
                                   THEN next_entry(tail[c]) ELSE tail[c]]
        /\ dispatches' = [i \in Entry |->
              [(IF i = fifo_head THEN y ELSE dispatches[i]) EXCEPT
                 !.waiting_mask = @ \cup {c \in moved : next_entry(tail[c]) = i}]]
        /\ eu' = IF taken = {} THEN E
                 ELSE trigger_event(E, {dispatch_event}, taken, 0)
        /\ pushed' = Append(pushed, config)
        /\ UNCHANGED <<config, reads, got>>

\* The read of the FIFO by core c first bypasses the ready entries of other
\* teams, all round the FIFO at most.
entry_after(c, k) == (tail[c] + k) % size
\* Faulty: entries of other teams are not bypassed.
bypassed_never(c, i) == FALSE

bypassed(c, i) == c \in dispatches[i].status_mask \ dispatches[i].config_mask

\* Faulty: one entry is bypassed at most.
bypass_once(c) == IF bypassed(c, tail[c]) THEN 1 ELSE 0

bypass(c) == CHOOSE k \in 0 .. size :
                /\ \A j \in 0 .. k - 1 : bypassed(c, entry_after(c, j))
                /\ k = size \/ ~bypassed(c, entry_after(c, k))

Pop(c) ==
    LET k     == bypass(c)
        id    == entry_after(c, k)
        D     == [i \in Entry |->
                    IF \E j \in 0 .. k - 1 : i = entry_after(c, j)
                    THEN [dispatches[i] EXCEPT !.status_mask = @ \ {c}]
                    ELSE dispatches[i]]
        ready == c \in D[id].status_mask
        e     == demux_enter(eu[c])
    IN  /\ c \notin reads
        /\ \/ /\ ready
              /\ eu' = trigger_event(
                    [eu EXCEPT ![c] = sleeper([e EXCEPT !.data = D[id].value])],
                    {dispatch_event}, {c}, 0)
              /\ dispatches' = [D EXCEPT ![id].status_mask = @ \ {c}]
              /\ tail' = [tail EXCEPT ![c] = next_entry(id)]
           \/ /\ ~ready
              /\ eu' = [eu EXCEPT ![c] = wait_event(
                    [e EXCEPT !.clear_evt_mask = {dispatch_event}],
                    "WAITING_EVENT")]
              /\ dispatches' = [D EXCEPT ![id].waiting_mask = @ \cup {c}]
              /\ tail' = [tail EXCEPT ![c] = id]
        /\ reads' = reads \cup {c}
        /\ UNCHANGED <<fifo_head, config, pushed, got>>

Wakeup(c) ==
    /\ eu[c].wakeup = 0
    /\ eu' = [eu EXCEPT ![c] = [wakeup_handler(@) EXCEPT !.pending_req = "freed"]]
    /\ reads' = reads \ {c}
    /\ got' = [got EXCEPT ![c] = Append(@, eu[c].data)]
    /\ UNCHANGED <<dispatches, fifo_head, tail, config, pushed>>

Tick ==
    /\ \A c \in Core : nothing_due(eu[c])
    /\ eu' = [c \in Core |-> tick(eu[c])]
    /\ UNCHANGED <<dispatches, fifo_head, tail, config, reads, pushed, got>>

Next ==
    \/ Tick \/ Push
    \/ \E team \in Team : SetTeam(team)
    \/ \E c \in Reader : Pop(c) \/ Wakeup(c)

\* Clock events run in their cycle, cycles pass, and the readers keep reading.
Fairness ==
    /\ WF_vars(Tick)
    /\ \A c \in Reader : WF_vars(Wakeup(c)) /\ WF_vars(Pop(c))

Spec == Init /\ [][Next]_vars /\ Fairness

-----------------------------------------------------------------------------
(***************************************************************************)
(* Properties.                                                             *)
(***************************************************************************)
\* The items for core c among the first k that were pushed.
due(c, k) == {n \in 1 .. k : c \in pushed[n]}

\* The sequence s lists the numbers of S, from the lowest to the highest.
Lists(s, S) ==
    /\ Range(s) = S
    /\ \A i, j \in DOMAIN s : i < j => s[i] < s[j]

\* Every core reads the items of its teams in the order they were pushed,
\* each once, none missed and none of another team, however pushes, reads,
\* bypasses and wake-ups interleave.
InOrder ==
    \A c \in Reader : \E k \in 0 .. Len(pushed) : Lists(got[c], due(c, k))

\* A core sleeps only when it has been given everything pushed for it, and it
\* waits at its tail entry, which is the one the next push fills, only.
SleepsAtHead ==
    \A c \in Reader :
        LET at == {i \in Entry : c \in dispatches[i].waiting_mask}
        IN  IF c \in reads /\ eu[c].wakeup = Idle
            THEN /\ Lists(got[c], due(c, Len(pushed)))
                 /\ at = {tail[c]} /\ tail[c] = fifo_head
            ELSE at = {}

\* Every item reaches every core of its team.
EachDelivered ==
    \A c \in Reader : \A n \in 1 .. MaxPush :
        n \in DOMAIN pushed /\ c \in pushed[n] ~> n \in Range(got[c])

=============================================================================
