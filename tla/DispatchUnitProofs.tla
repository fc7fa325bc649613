------------------------- MODULE DispatchUnitProofs -------------------------
(***************************************************************************)
(* Proofs about the dispatch unit, for every number of entries, of cores   *)
(* and of items.                                                           *)
(*                                                                         *)
(* The ring is read through positions: reader c has been given, or has     *)
(* bypassed, the first p[c] items.  The model has no such counter, only    *)
(* tail entries and status bits, which leave open whether a tail at the    *)
(* head means everything or nothing is still to be read.  The invariant    *)
(* says that there are positions, at most one turn behind the head, that   *)
(* explain the tails, the status bits, the sleepers and what was read.     *)
(***************************************************************************)
EXTENDS DispatchUnit, Integers, Sequences, FiniteSets,
        SequenceTheorems, FunctionTheorems, FiniteSetTheorems,
        WellFoundedInduction, TLAPS

-----------------------------------------------------------------------------
(***************************************************************************)
(* Smallest elements, and the remainders the ring is indexed by.           *)
(***************************************************************************)

\* A set of natural numbers that is not empty has a smallest element.
LEMMA NatHasMin ==
  ASSUME NEW A \in SUBSET Nat, A # {}
  PROVE  \E i \in A : \A j \in A : i <= j
<1> DEFINE R == {ss \in Nat \X Nat : ss[1] < ss[2]}
<1>1. PICK i \in A : \A j \in A : ~(<<j, i>> \in R)
  <2>1. IsWellFoundedOn(R, Nat)
    BY NatLessThanWellFounded, Zenon DEF OpToRel
  <2> HIDE DEF R
  <2> QED BY <2>1, WFMin
<1>2. ASSUME NEW j \in A PROVE i <= j
  <2>1. i \in Nat /\ j \in Nat /\ <<j, i>> \notin R
    BY <1>1
  <2>2. <<j, i>> \in Nat \X Nat => ~(<<j, i>>[1] < <<j, i>>[2])
    BY <2>1, Zenon
  <2> QED BY <2>1, <2>2
<1> QED BY <1>2

\* Quotient and remainder.
LEMMA DivMod ==
  ASSUME NEW n \in Int, NEW d \in Nat \ {0}
  PROVE  /\ n % d \in 0 .. d - 1
         /\ n \div d \in Int
         /\ n = d * (n \div d) + (n % d)
OBVIOUS

\* Products grow with their factors.
LEMMA Scaled ==
  ASSUME NEW d \in Nat, NEW a \in Int, NEW b \in Int, a <= b
  PROVE  d * a <= d * b
OBVIOUS

\* There is one quotient and one remainder.
LEMMA DivModUnique ==
  ASSUME NEW d \in Nat \ {0}, NEW q \in Int, NEW r \in 0 .. d - 1,
         NEW n \in Int, n = d * q + r
  PROVE  n % d = r /\ n \div d = q
<1> DEFINE p == n \div d
           s == n % d
<1>1. s \in 0 .. d - 1 /\ p \in Int /\ n = d * p + s
  BY DivMod
<1> HIDE DEF p, s
<1>2. CASE p >= q + 1
  <2>1. d * (q + 1) <= d * p
    BY <1>1, <1>2, Scaled
  <2>2. d * (q + 1) = d * q + d
    OBVIOUS
  <2> QED BY <1>1, <2>1, <2>2
<1>3. CASE p + 1 <= q
  <2>1. d * (p + 1) <= d * q
    BY <1>1, <1>3, Scaled
  <2>2. d * (p + 1) = d * p + d
    BY <1>1
  <2> QED BY <1>1, <2>1, <2>2
<1>4. p = q => s = r
  BY <1>1
<1> QED BY <1>1, <1>2, <1>3, <1>4 DEF p, s

\* The remainder of a small number, of one a turn larger and of one a turn
\* smaller.
LEMMA ModNear ==
  ASSUME NEW n \in Int, NEW d \in Nat \ {0}
  PROVE  /\ n \in 0 .. d - 1 => n % d = n /\ n \div d = 0
         /\ n \in d .. 2 * d - 1 => n % d = n - d
         /\ n \in -d .. -1 => n % d = n + d
<1>1. ASSUME n \in 0 .. d - 1 PROVE n % d = n /\ n \div d = 0
  BY <1>1, DivModUnique, n = d * 0 + n
<1>2. ASSUME n \in d .. 2 * d - 1 PROVE n % d = n - d
  <2>1. n = d * 1 + (n - d) /\ n - d \in 0 .. d - 1
    BY <1>2
  <2> QED BY <2>1, DivModUnique
<1>3. ASSUME n \in -d .. -1 PROVE n % d = n + d
  <2>1. n = d * (-1) + (n + d) /\ n + d \in 0 .. d - 1
    BY <1>3
  <2> QED BY <2>1, DivModUnique
<1> QED BY <1>1, <1>2, <1>3

\* The remainder of the next number.
LEMMA ModNext ==
  ASSUME NEW n \in Nat, NEW d \in Nat \ {0}
  PROVE  (n + 1) % d = IF n % d = d - 1 THEN 0 ELSE (n % d) + 1
<1> DEFINE p == n \div d
           s == n % d
           m == n + 1
<1>1. s \in 0 .. d - 1 /\ p \in Int /\ n = d * p + s
  BY DivMod
<1>2. m \in Int /\ m = n + 1
  OBVIOUS
<1> HIDE DEF p, s, m
<1>3. CASE s = d - 1
  <2> DEFINE q == p + 1
             z == 0
  <2>1. d * q = d * p + d
    BY <1>1
  <2>4. q \in Int
    BY <1>1
  <2> HIDE DEF q
  <2>2. m = d * q + z /\ z \in 0 .. d - 1
    BY <1>1, <1>2, <1>3, <2>1
  <2> HIDE DEF z
  <2>3. m % d = z
    BY <1>2, <2>2, <2>4, DivModUnique, ZenonT(60)
  <2> QED BY <1>3, <2>3 DEF s, m, z
<1>4. CASE s # d - 1
  <2> DEFINE q == s + 1
  <2>1. m = d * p + q /\ q \in 0 .. d - 1
    BY <1>1, <1>2, <1>4
  <2> HIDE DEF q
  <2>2. m % d = q
    BY <1>1, <1>2, <2>1, DivModUnique, ZenonT(60)
  <2> QED BY <1>4, <2>2 DEF s, m, q
<1> QED BY <1>3, <1>4

\* A remainder may be taken before adding.
LEMMA ModAdd ==
  ASSUME NEW a \in Int, NEW b \in Int, NEW d \in Nat \ {0}
  PROVE  ((a % d) + b) % d = (a + b) % d
<1> DEFINE q == a \div d
           r == a % d
           n == r + b
<1>1. r \in 0 .. d - 1 /\ q \in Int /\ a = d * q + r
  BY DivMod
<1> HIDE DEF q, r
<1>2. n \in Int /\ n = r + b
  BY <1>1
<1> HIDE DEF n
<1> DEFINE p == n \div d
           s == n % d
<1>3. s \in 0 .. d - 1 /\ p \in Int /\ n = d * p + s
  BY <1>2, DivMod
<1> HIDE DEF p, s
<1> DEFINE m == a + b
           k == q + p
<1>4. d * k = d * q + d * p
  BY <1>1, <1>3
<1>7. k \in Int /\ m \in Int
  BY <1>1, <1>3
<1>5. m = d * k + s
  <2>1. d * q \in Int /\ d * p \in Int
    BY <1>1, <1>3
  <2> HIDE DEF k
  <2> QED BY <1>1, <1>2, <1>3, <1>4, <2>1
<1> HIDE DEF m, k
<1>6. m % d = s
  BY <1>3, <1>5, <1>7, DivModUnique, ZenonT(60)
<1> QED BY <1>6 DEF m, s, n, r

\* Numbers that are less than a turn apart and have the same remainder are one.
LEMMA ModInjective ==
  ASSUME NEW a \in Int, NEW b \in Int, NEW d \in Nat \ {0},
         a - b < d, b - a < d, a % d = b % d
  PROVE  a = b
<1> DEFINE p == a \div d
           q == b \div d
           r == a % d
<1>1. r \in 0 .. d - 1 /\ p \in Int /\ a = d * p + r
  BY DivMod
<1>2. q \in Int /\ b = d * q + r
  BY DivMod
<1> HIDE DEF p, q, r
<1>3. CASE p >= q + 1
  <2>1. d * (q + 1) <= d * p
    BY <1>1, <1>2, <1>3, Scaled
  <2>2. d * (q + 1) = d * q + d
    BY <1>2
  <2> QED BY <1>1, <1>2, <2>1, <2>2
<1>4. CASE p + 1 <= q
  <2>1. d * (p + 1) <= d * q
    BY <1>1, <1>2, <1>4, Scaled
  <2>2. d * (p + 1) = d * p + d
    BY <1>1
  <2> QED BY <1>1, <1>2, <2>1, <2>2
<1> QED BY <1>1, <1>2, <1>3, <1>4

\* A turn less.
LEMMA ModTurn ==
  ASSUME NEW n \in Int, NEW d \in Nat \ {0}
  PROVE  (n - d) % d = n % d
<1> DEFINE p == n \div d
           s == n % d
<1>1. s \in 0 .. d - 1 /\ p \in Int /\ n = d * p + s
  BY DivMod
<1> HIDE DEF p, s
<1> DEFINE q == p - 1
           m == n - d
<1>2. q \in Int /\ m \in Int
  BY <1>1
<1>3. d * q = d * p - d
  BY <1>1
<1>4. m = d * q + s
  <2>1. d * p \in Int
    BY <1>1
  <2> HIDE DEF q
  <2> QED BY <1>1, <1>3, <2>1
<1> HIDE DEF q, m
<1>5. m % d = s
  BY <1>1, <1>2, <1>4, DivModUnique, ZenonT(60)
<1> QED BY <1>5 DEF m, s

-----------------------------------------------------------------------------
Unit == Core_event_unit(Item)

\* Nothing is buffered and nothing but the event of the unit is waited for.
Quiet(e) ==
    /\ e.evt_mask = {dispatch_event} /\ e.irq_mask = {} /\ e.status = {}
    /\ e.sync_irq = NoIrq /\ e.pending_elw = FALSE
    /\ e.pending_req_is_wait = FALSE

\* The core runs; it sleeps on a read; its read will be answered.
Runs(e) == Quiet(e) /\ e.is_active = TRUE /\ e.wakeup = Idle
Sleeps(e) ==
    /\ Quiet(e) /\ e.is_active = FALSE /\ e.wakeup = Idle
    /\ e.state = "WAITING_EVENT" /\ e.pending_req = "live"
    /\ e.clear_evt_mask = {dispatch_event}
Chosen(e) == Quiet(e) /\ e.wakeup # Idle

Asleep(c) == c \in reads /\ eu[c].wakeup = Idle
Answering(c) == c \in reads /\ eu[c].wakeup # Idle

CoreShape(c) ==
    /\ c \notin reads => Runs(eu[c])
    /\ Asleep(c) => Sleeps(eu[c])
    /\ Answering(c) => Chosen(eu[c])

\* The items a core has read or is about to be answered with.
Taken(c) == IF Answering(c) THEN Append(got[c], eu[c].data) ELSE got[c]

N == Len(pushed)

\* The tails are the positions, at most a turn behind the head.
Placed(p) ==
    /\ fifo_head = N % size
    /\ \A c \in Reader : p[c] <= N /\ N <= p[c] + size /\ tail[c] = p[c] % size

\* The last size items are in their entries, with a status bit for those who
\* have not come to them (the entries that were never filled count as items
\* of number 0 and below).
Stored(p) ==
    \A m \in N - size + 1 .. N :
        /\ \A c \in Reader :
                c \in dispatches[(m - 1) % size].status_mask <=> p[c] < m
        /\ m >= 1 => /\ dispatches[(m - 1) % size].value = m
                     /\ dispatches[(m - 1) % size].config_mask = pushed[m]

\* The cores that wait at an entry are those that sleep, at their tail, having
\* come to every item.
Parked(p) ==
    \A c \in Reader :
        /\ \A i \in Entry :
                c \in dispatches[i].waiting_mask <=> Asleep(c) /\ i = tail[c]
        /\ Asleep(c) => p[c] = N

\* What a core was given is what was for it among the items it has come to.
Given(p) == \A c \in Reader : Lists(Taken(c), due(c, p[c]))

Ring(p) == Placed(p) /\ Stored(p) /\ Parked(p) /\ Given(p)

\* The inductive invariant.
IInv ==
    /\ TypeOK
    /\ \A c \in Reader : CoreShape(c)
    /\ \E p \in [Reader -> Nat] : Ring(p)

-----------------------------------------------------------------------------
(***************************************************************************)
(* Lists in increasing order.                                              *)
(***************************************************************************)

\* A larger number goes to the end.
LEMMA ListsAppend ==
  ASSUME NEW s \in Seq(Nat), NEW S, Lists(s, S), NEW x \in Nat,
         \A y \in S : y < x
  PROVE  Lists(Append(s, x), S \cup {x})
<1> DEFINE t == Append(s, x)
           n == Len(s)
<1>1. /\ n \in Nat /\ DOMAIN s = 1 .. n /\ DOMAIN t = 1 .. n + 1
      /\ \A i \in 1 .. n : t[i] = s[i]
      /\ t[n + 1] = x
  BY AppendProperties, LenProperties
<1>2. Range(s) = S /\ \A i, j \in 1 .. n : i < j => s[i] < s[j]
  BY <1>1 DEF Lists
<1> HIDE DEF t, n
<1>3. Range(t) = S \cup {x}
  <2>1. ASSUME NEW y \in Range(t) PROVE y \in S \cup {x}
    <3>1. PICK i \in 1 .. n + 1 : y = t[i]
      BY <1>1 DEF Range
    <3>2. CASE i = n + 1
      BY <1>1, <3>1, <3>2
    <3>3. CASE i # n + 1
      <4>1. i \in 1 .. n
        BY <1>1, <3>1, <3>3
      <4> QED BY <1>1, <1>2, <3>1, <4>1 DEF Range
    <3> QED BY <3>2, <3>3
  <2>2. ASSUME NEW y \in S PROVE y \in Range(t)
    <3>1. PICK i \in 1 .. n : y = s[i]
      BY <1>1, <1>2 DEF Range
    <3>2. i \in 1 .. n + 1
      BY <1>1, <3>1
    <3> QED BY <1>1, <3>1, <3>2 DEF Range
  <2>3. x \in Range(t)
    <3>1. n + 1 \in 1 .. n + 1
      BY <1>1
    <3> QED BY <1>1, <3>1 DEF Range
  <2> QED BY <2>1, <2>2, <2>3
<1>4. ASSUME NEW i \in 1 .. n + 1, NEW j \in 1 .. n + 1, i < j
      PROVE  t[i] < t[j]
  <2>1. i \in 1 .. n
    BY <1>1, <1>4
  <2>2. CASE j = n + 1
    <3>1. s[i] \in S
      BY <1>1, <1>2, <2>1 DEF Range
    <3> QED BY <1>1, <2>1, <2>2, <3>1
  <2>3. CASE j # n + 1
    <3>1. j \in 1 .. n
      BY <1>1, <2>3
    <3> QED BY <1>1, <1>2, <1>4, <2>1, <3>1
  <2> QED BY <2>2, <2>3
<1>5. Lists(t, S \cup {x})
  BY <1>1, <1>3, <1>4 DEF Lists
<1> QED BY <1>5 DEF t

\* Without its end a list holds the smaller numbers.
LEMMA ListsFront ==
  ASSUME NEW s \in Seq(Nat), NEW S, NEW x \in Nat, Lists(Append(s, x), S)
  PROVE  /\ x \in S
         /\ Lists(s, {y \in S : y < x})
         /\ \A y \in S : y <= x
<1> DEFINE t == Append(s, x)
           n == Len(s)
<1>1. /\ n \in Nat /\ DOMAIN s = 1 .. n /\ DOMAIN t = 1 .. n + 1
      /\ \A i \in 1 .. n : t[i] = s[i] /\ s[i] \in Nat
      /\ t[n + 1] = x
  BY AppendProperties, LenProperties, ElementOfSeq
<1>2. Range(t) = S /\ \A i, j \in 1 .. n + 1 : i < j => t[i] < t[j]
  BY <1>1 DEF Lists
<1> HIDE DEF t, n
<1>3. x \in S
  <2>1. n + 1 \in 1 .. n + 1
    BY <1>1
  <2> QED BY <1>1, <1>2, <2>1 DEF Range
<1>4. \A i \in 1 .. n : s[i] \in S /\ s[i] < x
  <2> TAKE i \in 1 .. n
  <2>1. i \in 1 .. n + 1 /\ n + 1 \in 1 .. n + 1 /\ i < n + 1
    BY <1>1
  <2> QED BY <1>1, <1>2, <2>1 DEF Range
<1>5. ASSUME NEW y \in S PROVE y = x \/ \E i \in 1 .. n : y = s[i]
  <2>1. PICK i \in 1 .. n + 1 : y = t[i]
    BY <1>1, <1>2 DEF Range
  <2>2. CASE i = n + 1
    BY <1>1, <2>1, <2>2
  <2>3. CASE i # n + 1
    <3>1. i \in 1 .. n
      BY <1>1, <2>3
    <3> QED BY <1>1, <2>1, <3>1
  <2> QED BY <2>2, <2>3
<1>6. Range(s) = {y \in S : y < x}
  BY <1>1, <1>4, <1>5 DEF Range
<1>7. \A i, j \in 1 .. n : i < j => s[i] < s[j]
  <2> TAKE i, j \in 1 .. n
  <2>1. i \in 1 .. n + 1 /\ j \in 1 .. n + 1
    BY <1>1
  <2> QED BY <1>1, <1>2, <2>1
<1>8. \A y \in S : y <= x
  BY <1>1, <1>4, <1>5
<1> QED BY <1>1, <1>3, <1>6, <1>7, <1>8 DEF Lists

-----------------------------------------------------------------------------
(***************************************************************************)
(* The unit of a reader.                                                   *)
(***************************************************************************)

\* The event of the dispatch unit is one of the buffer.
LEMMA EventType == dispatch_event \in Event /\ {dispatch_event} \in SUBSET Event
BY DispatchAssumption

\* An access of a running core.
LEMMA EnterUnit ==
  ASSUME NEW e \in Unit
  PROVE  /\ demux_enter(e) \in Unit
         /\ Runs(e) => Runs(demux_enter(e))
         /\ demux_enter(e).data = e.data
BY DEF Unit, Core_event_unit, demux_enter, Runs, Quiet, Core_state, Waiting

\* A core goes to sleep on a read.
LEMMA SleeperUnit ==
  ASSUME NEW e \in Unit, Quiet(e), e.wakeup = Idle
  PROVE  /\ sleeper(e) \in Unit
         /\ Sleeps(sleeper(e))
BY EventType DEF Unit, Core_event_unit, sleeper, put_to_sleep, Sleeps, Quiet,
   Core_state, Waiting, PendingReq

\* A running core that reads finds no event, and sleeps.
LEMMA WaitUnit ==
  ASSUME NEW e \in Unit, Runs(e)
  PROVE  wait_event([e EXCEPT !.clear_evt_mask = {dispatch_event}], "WAITING_EVENT")
            = sleeper(e)
<1> DEFINE f == [e EXCEPT !.clear_evt_mask = {dispatch_event}]
<1>1. f.status = {}
  BY DEF Runs, Quiet, Unit, Core_event_unit
<1>2. evt_masked(f) = {}
  BY <1>1 DEF evt_masked
<1> QED BY <1>2 DEF wait_event, sleeper

\* Its event elects a core that sleeps, and is consumed.
LEMMA SendUnit ==
  ASSUME NEW e \in Unit, Sleeps(e)
  PROVE  /\ send_event(e, {dispatch_event}, 0) \in Unit
         /\ Chosen(send_event(e, {dispatch_event}, 0))
         /\ send_event(e, {dispatch_event}, 0).data = e.data
<1> DEFINE f == [e EXCEPT !.status = {dispatch_event}]
<1>1. send_event(e, {dispatch_event}, 0) = check_state_delayed(f, 0)
  BY DEF send_event, Sleeps, Quiet
<1>2. /\ f \in Unit /\ f.status = {dispatch_event} /\ f.evt_mask = {dispatch_event}
      /\ f.irq_mask = {} /\ f.is_active = FALSE /\ f.wakeup = Idle
      /\ f.state = "WAITING_EVENT" /\ f.clear_evt_mask = {dispatch_event}
      /\ f.sync_irq = NoIrq /\ f.pending_elw = FALSE
      /\ f.pending_req_is_wait = FALSE /\ f.data = e.data
  BY EventType DEF Sleeps, Quiet, Unit, Core_event_unit
<1> HIDE DEF f
<1>3. evt_masked(f) # {} /\ irq_masked(f) = {}
  BY <1>2 DEF evt_masked, irq_masked
<1>4. check_state_delayed(f, 0) = wake_for_event(f, 0)
  BY <1>2, <1>3 DEF check_state_delayed, Waiting
<1>5. ~returns_status(f)
  BY <1>2 DEF returns_status
<1>6. wake_for_event(f, 0) =
        [f EXCEPT !.state = "NONE", !.wakeup = 1, !.status = {}, !.clear_evt_mask = {}]
  <2> DEFINE h == [f EXCEPT !.data = f.data, !.state = "NONE", !.wakeup = 1]
  <2>1. wake_for_event(f, 0) = check_wait_mask(h)
    BY <1>2, <1>5 DEF wake_for_event, EU_EVENT_WAKEUP_LATENCY
  <2>2. h.clear_evt_mask = {dispatch_event} /\ h.status \ {dispatch_event} = {}
    BY <1>2 DEF Unit, Core_event_unit
  <2>3. check_wait_mask(h) = [h EXCEPT !.status = {}, !.clear_evt_mask = {}]
    BY <2>2 DEF check_wait_mask, clear_status
  <2> QED BY <1>2, <2>1, <2>3, ZenonT(60) DEF Unit, Core_event_unit
<1>7. 1 \in Idle .. 2 /\ Idle # 1
  BY DEF Idle
<1> DEFINE g == wake_for_event(f, 0)
<1>8. g \in Unit /\ Chosen(g) /\ g.data = e.data
  BY <1>2, <1>6, <1>7, ZenonT(60) DEF Chosen, Quiet, Unit, Core_event_unit, Core_state
<1> QED BY <1>1, <1>4, <1>8

\* The answer.
LEMMA AnswerUnit ==
  ASSUME NEW e \in Unit, Quiet(e)
  PROVE  /\ [wakeup_handler(e) EXCEPT !.pending_req = "freed"] \in Unit
         /\ Runs([wakeup_handler(e) EXCEPT !.pending_req = "freed"])
<1> DEFINE f == [e EXCEPT !.wakeup = Idle, !.is_active = TRUE]
<1>0. Idle \in Idle .. 2
  BY DEF Idle
<1>1. f \in Unit /\ Runs(f)
  BY <1>0 DEF Unit, Core_event_unit, Runs, Quiet
<1>2. wakeup_handler(e) = check_state_delayed(f, 0)
  BY DEF wakeup_handler, check_state
<1> HIDE DEF f
<1>3. irq_of(f) = NoIrq
  BY <1>1 DEF irq_of, irq_masked, Runs, Quiet
<1>4. check_state_delayed(f, 0) = f
  BY <1>1, <1>3 DEF check_state_delayed, update_irq, Runs, Quiet
<1>5. [f EXCEPT !.pending_req = "freed"] \in Unit /\ Runs([f EXCEPT !.pending_req = "freed"])
  BY <1>1 DEF Unit, Core_event_unit, Runs, Quiet, PendingReq
<1> QED BY <1>2, <1>4, <1>5

\* A cycle passes.
LEMMA TickUnit ==
  ASSUME NEW e \in Unit, nothing_due(e)
  PROVE  /\ tick(e) \in Unit
         /\ Quiet(e) => Quiet(tick(e))
         /\ Sleeps(e) => Sleeps(tick(e))
         /\ Runs(e) => Runs(tick(e))
         /\ tick(e).wakeup = Idle <=> e.wakeup = Idle
         /\ tick(e).data = e.data
<1> DEFINE w == IF e.wakeup > 0 THEN e.wakeup - 1 ELSE e.wakeup
           i == IF e.irq_wakeup > 0 THEN e.irq_wakeup - 1 ELSE e.irq_wakeup
<1>1. /\ w \in Idle .. 2 /\ i \in Idle .. EU_WAKEUP_LATENCY
      /\ w = Idle <=> e.wakeup = Idle
  BY DEF nothing_due, Unit, Core_event_unit, Idle, EU_WAKEUP_LATENCY
<1>2. tick(e) = [e EXCEPT !.wakeup = w, !.irq_wakeup = i]
  BY DEF tick, Unit, Core_event_unit
<1> HIDE DEF w, i
<1> QED BY <1>1, <1>2 DEF Unit, Core_event_unit, Quiet, Sleeps, Runs

-----------------------------------------------------------------------------
(***************************************************************************)
(* Types, entries and items.                                               *)
(***************************************************************************)

\* What the type invariant says of the variables.
LEMMA Types ==
  ASSUME TypeOK
  PROVE  /\ eu \in [Core -> Unit] /\ dispatches \in [Entry -> DispatchState]
         /\ fifo_head \in Entry /\ tail \in [Core -> Entry] /\ config \in Team
         /\ reads \subseteq Reader /\ got \in [Core -> Seq(Item)]
         /\ pushed \in Seq(Team) /\ N \in Nat /\ N <= MaxPush
         /\ Reader \subseteq Core /\ Master \in Core /\ Master \notin Reader
         /\ size \in Nat \ {0} /\ MaxPush \in Nat
BY DispatchAssumption, LenProperties DEF TypeOK, Unit, N, Reader

\* Remainders are entries.
LEMMA EntryType ==
  ASSUME NEW n \in Int
  PROVE  n % size \in Entry
BY DivMod, DispatchAssumption DEF Entry

\* The entry after that of a position.
LEMMA NextEntry ==
  ASSUME NEW n \in Nat
  PROVE  next_entry(n % size) = (n + 1) % size
<1> DEFINE r == n % size
<1>1. size \in Nat \ {0} /\ r \in 0 .. size - 1
  BY DivMod, DispatchAssumption
<1>2. (n + 1) % size = IF r = size - 1 THEN 0 ELSE r + 1
  BY <1>1, ModNext
<1> HIDE DEF r
<1>3. next_entry(r) = IF r = size - 1 THEN 0 ELSE r + 1
  BY <1>1 DEF next_entry
<1> QED BY <1>2, <1>3 DEF r

\* Items are numbers.
LEMMA ItemSeq ==
  ASSUME NEW s \in Seq(Item)
  PROVE  s \in Seq(Nat)
<1>1. Item \subseteq Nat
  BY DispatchAssumption DEF Item
<1>2. Len(s) \in Nat /\ s \in [1 .. Len(s) -> Item]
  BY LenProperties
<1>3. s \in [1 .. Len(s) -> Nat]
  BY <1>1, <1>2
<1> QED BY <1>2, <1>3, SeqDef

-----------------------------------------------------------------------------
(***************************************************************************)
(* Steps that leave the ring alone.                                        *)
(***************************************************************************)

\* The ring is explained by the same positions when nobody falls asleep and
\* nobody is given anything.
LEMMA RingSame ==
  ASSUME NEW p \in [Reader -> Nat], Ring(p),
         UNCHANGED <<dispatches, fifo_head, tail, pushed>>,
         \A c \in Reader : Asleep(c)' = Asleep(c) /\ Taken(c)' = Taken(c)
  PROVE  Ring(p)'
<1>1. Placed(p)'
  BY DEF Ring, Placed, N
<1>2. Stored(p)'
  BY DEF Ring, Stored, N
<1>3. Parked(p)'
  BY DEF Ring, Parked, N
<1>4. Given(p)'
  BY DEF Ring, Given, due
<1> QED BY <1>1, <1>2, <1>3, <1>4 DEF Ring

\* A write of the team by the master.
LEMMA SetTeamStep ==
  ASSUME IInv, NEW team \in Team, SetTeam(team)
  PROVE  IInv'
<1>1. TypeOK
  BY DEF IInv
<1>2. PICK p \in [Reader -> Nat] : Ring(p)
  BY DEF IInv
<1>3. eu' = [eu EXCEPT ![Master] = demux_enter(@)] /\ eu \in [Core -> Unit]
  BY <1>1, Types DEF SetTeam
<1>4. \A c \in Reader : eu'[c] = eu[c] /\ reads' = reads /\ got' = got
  BY <1>1, <1>3, Types DEF SetTeam
<1>5. eu' \in [Core -> Unit]
  <2>1. demux_enter(eu[Master]) \in Unit
    BY <1>1, <1>3, Types, EnterUnit
  <2> QED BY <1>3, <2>1
<1>6. TypeOK'
  BY <1>1, <1>5 DEF TypeOK, SetTeam, Unit
<1>7. \A c \in Reader : CoreShape(c)'
  BY <1>4 DEF IInv, CoreShape, Asleep, Answering
<1>8. Ring(p)'
  <2>1. \A c \in Reader : Asleep(c)' = Asleep(c) /\ Taken(c)' = Taken(c)
    BY <1>4 DEF Asleep, Taken, Answering
  <2>2. UNCHANGED <<dispatches, fifo_head, tail, pushed>>
    BY DEF SetTeam
  <2> QED BY <1>2, <2>1, <2>2, RingSame
<1> QED BY <1>6, <1>7, <1>8 DEF IInv

\* A cycle passes.
LEMMA TickStep ==
  ASSUME IInv, Tick
  PROVE  IInv'
<1>1. TypeOK
  BY DEF IInv
<1>2. PICK p \in [Reader -> Nat] : Ring(p)
  BY DEF IInv
<1>3. eu' = [c \in Core |-> tick(eu[c])] /\ eu \in [Core -> Unit]
  BY <1>1, Types DEF Tick
<1>4. ASSUME NEW c \in Core
      PROVE  /\ eu'[c] = tick(eu[c]) /\ tick(eu[c]) \in Unit
             /\ Quiet(eu[c]) => Quiet(tick(eu[c]))
             /\ Sleeps(eu[c]) => Sleeps(tick(eu[c]))
             /\ Runs(eu[c]) => Runs(tick(eu[c]))
             /\ tick(eu[c]).wakeup = Idle <=> eu[c].wakeup = Idle
             /\ tick(eu[c]).data = eu[c].data
  <2>1. nothing_due(eu[c]) /\ eu[c] \in Unit
    BY <1>3 DEF Tick
  <2> QED BY <1>3, <2>1, TickUnit
<1>5. reads' = reads /\ got' = got /\ Reader \subseteq Core
  BY <1>1, Types DEF Tick
<1>6. TypeOK'
  <2>1. eu' \in [Core -> Unit]
    BY <1>3, <1>4
  <2> QED BY <1>1, <2>1 DEF TypeOK, Tick, Unit
<1>7. \A c \in Reader : CoreShape(c)'
  BY <1>4, <1>5 DEF IInv, CoreShape, Asleep, Answering, Chosen
<1>8. Ring(p)'
  <2>1. \A c \in Reader : Asleep(c)' = Asleep(c) /\ Answering(c)' = Answering(c)
    BY <1>4, <1>5 DEF Asleep, Answering
  <2>2. \A c \in Reader : Taken(c)' = Taken(c)
    BY <1>4, <1>5, <2>1 DEF Taken
  <2>3. UNCHANGED <<dispatches, fifo_head, tail, pushed>>
    BY DEF Tick
  <2> QED BY <1>2, <2>1, <2>2, <2>3, RingSame
<1> QED BY <1>6, <1>7, <1>8 DEF IInv

\* The answer of a read.
LEMMA WakeupStep ==
  ASSUME IInv, NEW c \in Reader, Wakeup(c)
  PROVE  IInv'
<1>1. TypeOK
  BY DEF IInv
<1>2. PICK p \in [Reader -> Nat] : Ring(p)
  BY DEF IInv
<1> DEFINE f == [wakeup_handler(eu[c]) EXCEPT !.pending_req = "freed"]
<1>3. /\ eu' = [eu EXCEPT ![c] = f] /\ eu \in [Core -> Unit] /\ Reader \subseteq Core
      /\ reads' = reads \ {c} /\ got' = [got EXCEPT ![c] = Append(got[c], eu[c].data)]
      /\ got \in [Core -> Seq(Item)]
  BY <1>1, Types DEF Wakeup
<1>4. Answering(c) /\ ~Asleep(c) /\ Quiet(eu[c])
  <2>1. eu[c].wakeup = 0 /\ Idle # 0
    BY DEF Wakeup, Idle
  <2>2. CoreShape(c)
    BY DEF IInv
  <2> QED BY <2>1, <2>2 DEF CoreShape, Answering, Asleep, Runs, Chosen
<1>5. f \in Unit /\ Runs(f)
  BY <1>3, <1>4, AnswerUnit
<1> HIDE DEF f
<1>6. eu'[c] = f /\ c \notin reads'
  BY <1>3
<1>7. \A d \in Reader \ {c} : /\ eu'[d] = eu[d] /\ got'[d] = got[d]
                              /\ d \in reads' <=> d \in reads
  BY <1>3
<1>8. TypeOK'
  <2>1. eu' \in [Core -> Unit]
    BY <1>3, <1>5
  <2>2. got' \in [Core -> Seq(Item)]
    <3>1. eu[c].data \in Item
      BY <1>3 DEF Unit, Core_event_unit
    <3>2. Append(got[c], eu[c].data) \in Seq(Item)
      BY <1>3, <3>1, AppendProperties
    <3> QED BY <1>3, <3>2
  <2> QED BY <1>1, <1>3, <2>1, <2>2 DEF TypeOK, Wakeup, Unit
<1>9. \A d \in Reader : CoreShape(d)'
  <2>1. CoreShape(c)'
    BY <1>5, <1>6 DEF CoreShape, Asleep, Answering
  <2>2. \A d \in Reader \ {c} : CoreShape(d)'
    BY <1>7 DEF IInv, CoreShape, Asleep, Answering
  <2> QED BY <2>1, <2>2
<1>10. Ring(p)'
  <2>1. Asleep(c)' = Asleep(c) /\ Taken(c)' = Taken(c)
    BY <1>3, <1>4, <1>6 DEF Asleep, Taken, Answering
  <2>2. \A d \in Reader \ {c} : Asleep(d)' = Asleep(d) /\ Taken(d)' = Taken(d)
    BY <1>7 DEF Asleep, Taken, Answering
  <2>3. UNCHANGED <<dispatches, fifo_head, tail, pushed>>
    BY DEF Wakeup
  <2> QED BY <1>2, <2>1, <2>2, <2>3, RingSame
<1> QED BY <1>8, <1>9, <1>10 DEF IInv

-----------------------------------------------------------------------------
(***************************************************************************)
(* A push.                                                                 *)
(***************************************************************************)

\* The cores that wait at the head are those that sleep.
LEMMA SleepersAtHead ==
  ASSUME TypeOK, NEW p \in [Reader -> Nat], Ring(p), NEW c \in Reader
  PROVE  /\ c \in dispatches[fifo_head].waiting_mask <=> Asleep(c)
         /\ Asleep(c) => p[c] = N /\ tail[c] = fifo_head
         /\ \A i \in Entry \ {fifo_head} : c \notin dispatches[i].waiting_mask
<1>1. fifo_head \in Entry
  BY Types
<1>2. Asleep(c) => p[c] = N /\ tail[c] = fifo_head
  BY DEF Ring, Parked, Placed
<1> QED BY <1>1, <1>2 DEF Ring, Parked

\* What is pushed is for nobody who has come less far.
LEMMA DueAppend ==
  ASSUME TypeOK, NEW team \in Team, pushed' = Append(pushed, team), NEW c,
         NEW n \in Nat, n = N
  PROVE  /\ N' = n + 1
         /\ \A m \in 1 .. n : pushed'[m] = pushed[m]
         /\ pushed'[n + 1] = team
         /\ \A k \in 0 .. n : due(c, k)' = due(c, k)
         /\ c \in team => due(c, n + 1)' = due(c, n) \cup {n + 1}
         /\ c \notin team => due(c, n + 1)' = due(c, n)
<1>1. pushed \in Seq(Team) /\ n = Len(pushed)
  BY Types DEF N
<1>2. /\ Len(pushed') = n + 1 /\ pushed'[n + 1] = team
      /\ \A m \in 1 .. n : pushed'[m] = pushed[m]
  BY <1>1, AppendProperties
<1>3. ASSUME NEW k \in 0 .. n PROVE due(c, k)' = due(c, k)
  <2>1. \A m \in 1 .. k : m \in 1 .. n
    BY <1>3
  <2> QED BY <1>2, <2>1 DEF due
<1>4. 1 .. n + 1 = (1 .. n) \cup {n + 1}
  OBVIOUS
<1>5. due(c, n + 1)' = due(c, n) \cup (IF c \in team THEN {n + 1} ELSE {})
  BY <1>2, <1>4 DEF due
<1> QED BY <1>2, <1>3, <1>5 DEF N

\* What a push makes of the entries and of the units of the readers.
LEMMA PushEffect ==
  ASSUME TypeOK, Push, NEW n \in Nat, n = N
  PROVE  LET h == fifo_head
             W == dispatches[h].waiting_mask
         IN  /\ n < MaxPush
             /\ \A c \in Reader : c \notin dispatches[h].status_mask
             /\ fifo_head' = next_entry(h)
             /\ \A c \in Core : tail'[c] =
                    IF c \in W THEN next_entry(tail[c]) ELSE tail[c]
             /\ \A i \in Entry \ {h} :
                    /\ dispatches'[i].value = dispatches[i].value
                    /\ dispatches'[i].config_mask = dispatches[i].config_mask
                    /\ dispatches'[i].status_mask = dispatches[i].status_mask
             /\ dispatches'[h].value = n + 1
             /\ dispatches'[h].config_mask = config
             /\ dispatches'[h].status_mask = Core \ W
             /\ \A i \in Entry : dispatches'[i].waiting_mask =
                    (IF i = h THEN {} ELSE dispatches[i].waiting_mask)
                        \cup {c \in W \ config : next_entry(tail[c]) = i}
             /\ \A c \in Reader : eu'[c] =
                    IF c \in W \cap config
                    THEN send_event([eu[c] EXCEPT !.data = n + 1], {dispatch_event}, 0)
                    ELSE IF c \in W \ config THEN sleeper(eu[c]) ELSE eu[c]
             /\ eu'[Master] = demux_enter(eu[Master])
             /\ pushed' = Append(pushed, config)
             /\ UNCHANGED <<config, reads, got>>
             /\ W \subseteq Reader
             /\ dispatches' \in [Entry -> DispatchState]
             /\ DOMAIN eu' = Core /\ eu' = [c \in Core |-> eu'[c]]
             /\ tail' = [c \in Core |-> tail'[c]]
<1> DEFINE h     == fifo_head
           x     == dispatches[h]
           W     == x.waiting_mask
           taken == W \cap config
           moved == W \ config
           y     == [ value |-> n + 1, config_mask |-> config,
                      status_mask |-> Core \ W, waiting_mask |-> {} ]
           E     == [c \in Core |->
                       CASE c \in taken -> [eu[c] EXCEPT !.data = n + 1]
                         [] c \in moved -> sleeper(eu[c])
                         [] c = Master  -> demux_enter(eu[c])
                         [] OTHER       -> eu[c]]
           D     == [i \in Entry |->
                       [(IF i = h THEN y ELSE dispatches[i]) EXCEPT
                          !.waiting_mask = @ \cup {c \in moved : next_entry(tail[c]) = i}]]
<1>1. /\ Len(pushed) = n
      /\ n < MaxPush /\ x.status_mask \cap Reader = {}
      /\ fifo_head' = next_entry(h)
      /\ tail' = [c \in Core |-> IF c \in W THEN next_entry(tail[c]) ELSE tail[c]]
      /\ dispatches' = D
      /\ eu' = IF taken = {} THEN E ELSE trigger_event(E, {dispatch_event}, taken, 0)
      /\ pushed' = Append(pushed, config)
      /\ UNCHANGED <<config, reads, got>>
  <2>1. Len(pushed) = n
    BY DEF N
  <2>2. n < MaxPush /\ x.status_mask \cap Reader = {}
    BY <2>1, Zenon DEF Push
  <2>3. /\ fifo_head' = next_entry(h)
        /\ tail' = [c \in Core |-> IF c \in W THEN next_entry(tail[c]) ELSE tail[c]]
        /\ pushed' = Append(pushed, config)
        /\ UNCHANGED <<config, reads, got>>
    BY Zenon DEF Push
  <2>4. dispatches' = D
    BY <2>1, Zenon DEF Push
  <2>5. eu' = IF taken = {} THEN E ELSE trigger_event(E, {dispatch_event}, taken, 0)
    <3> DEFINE F == [c \in Core |->
                       CASE c \in taken -> [eu[c] EXCEPT !.data = Len(pushed) + 1]
                         [] c \in moved -> sleeper(eu[c])
                         [] c = Master  -> demux_enter(eu[c])
                         [] OTHER       -> eu[c]]
    <3>1. eu' = IF taken = {} THEN F ELSE trigger_event(F, {dispatch_event}, taken, 0)
      BY DEF Push
    <3>2. F = E
      BY <2>1
    <3> HIDE DEF E, F
    <3> QED BY <3>1, <3>2
  <2> QED BY <2>1, <2>2, <2>3, <2>4, <2>5, Zenon
<1>2. /\ eu \in [Core -> Unit] /\ dispatches \in [Entry -> DispatchState]
      /\ h \in Entry /\ config \in Team /\ Reader \subseteq Core
      /\ Master \in Core /\ Master \notin Reader
      /\ x \in DispatchState
  BY Types
<1>3. W \subseteq Reader
  BY <1>2 DEF DispatchState
<1>4. y \in DispatchState
  <2>1. n + 1 \in Item
    BY <1>1, DispatchAssumption DEF Item
  <2> QED BY <1>2, <2>1 DEF DispatchState
<1>5. ASSUME NEW i \in Entry
      PROVE  LET z == IF i = h THEN y ELSE dispatches[i]
             IN  /\ D[i] \in DispatchState
                 /\ D[i].value = z.value /\ D[i].config_mask = z.config_mask
                 /\ D[i].status_mask = z.status_mask
                 /\ D[i].waiting_mask = z.waiting_mask \cup
                        {c \in moved : next_entry(tail[c]) = i}
  <2> DEFINE z == IF i = h THEN y ELSE dispatches[i]
             m == {c \in moved : next_entry(tail[c]) = i}
  <2>1. D[i] = [z EXCEPT !.waiting_mask = z.waiting_mask \cup m]
    OBVIOUS
  <2>2. z \in DispatchState /\ m \subseteq Reader
    BY <1>2, <1>3, <1>4
  <2> HIDE DEF z, m, D, y
  <2>3. /\ D[i] \in DispatchState
        /\ D[i].value = z.value /\ D[i].config_mask = z.config_mask
        /\ D[i].status_mask = z.status_mask
        /\ D[i].waiting_mask = z.waiting_mask \cup m
    BY <2>1, <2>2 DEF DispatchState
  <2> QED BY <2>3 DEF z, m
<1>6. D \in [Entry -> DispatchState]
  <2>1. D = [i \in Entry |-> D[i]]
    OBVIOUS
  <2> HIDE DEF D
  <2> QED BY <1>5, <2>1
<1>7. /\ eu' = [c \in Core |-> eu'[c]]
      /\ eu'[Master] = demux_enter(eu[Master])
      /\ \A c \in Reader : eu'[c] =
             IF c \in taken
             THEN send_event([eu[c] EXCEPT !.data = n + 1], {dispatch_event}, 0)
             ELSE IF c \in moved THEN sleeper(eu[c]) ELSE eu[c]
  <2>1. /\ E[Master] = demux_enter(eu[Master])
        /\ \A c \in Reader : E[c] =
             IF c \in taken THEN [eu[c] EXCEPT !.data = n + 1]
             ELSE IF c \in moved THEN sleeper(eu[c]) ELSE eu[c]
    <3> HIDE DEF W
    <3> QED BY <1>2, <1>3
  <2>2. taken \subseteq Reader /\ Master \notin taken
    BY <1>2, <1>3
  <2>3. E = [c \in Core |-> E[c]]
    OBVIOUS
  <2> HIDE DEF E, taken, moved
  <2>4. CASE taken = {}
    BY <1>1, <2>1, <2>3, <2>4
  <2>5. CASE taken # {}
    <3>1. eu' = [c \in Core |-> IF c \in taken THEN send_event(E[c], {dispatch_event}, 0)
                                ELSE E[c]]
      BY <1>1, <2>5 DEF trigger_event
    <3> QED BY <1>2, <2>1, <2>2, <3>1
  <2> QED BY <2>4, <2>5
<1>8. \A i \in Entry \ {h} :
        /\ dispatches'[i].value = dispatches[i].value
        /\ dispatches'[i].config_mask = dispatches[i].config_mask
        /\ dispatches'[i].status_mask = dispatches[i].status_mask
  <2> HIDE DEF D, y
  <2> QED BY <1>1, <1>5
<1>9. /\ dispatches'[h].value = n + 1 /\ dispatches'[h].config_mask = config
      /\ dispatches'[h].status_mask = Core \ W
  <2>1. y.value = n + 1 /\ y.config_mask = config /\ y.status_mask = Core \ W
    OBVIOUS
  <2> HIDE DEF D, y
  <2> QED BY <1>1, <1>2, <1>5, <2>1
<1>10. \A i \in Entry : dispatches'[i].waiting_mask =
        (IF i = h THEN {} ELSE dispatches[i].waiting_mask)
            \cup {c \in moved : next_entry(tail[c]) = i}
  <2>1. y.waiting_mask = {}
    OBVIOUS
  <2> HIDE DEF D, y, moved
  <2> QED BY <1>1, <1>5, <2>1
<1>11. dispatches' \in [Entry -> DispatchState]
  <2> HIDE DEF D
  <2> QED BY <1>1, <1>6
<1>12. /\ \A c \in Core : tail'[c] = IF c \in W THEN next_entry(tail[c]) ELSE tail[c]
       /\ tail' = [c \in Core |-> tail'[c]]
  <2> HIDE DEF W
  <2> QED BY <1>1
<1>13. \A c \in Reader : c \notin dispatches[h].status_mask
  BY <1>1
<1> HIDE DEF D, E, y
<1> QED BY <1>1, <1>3, <1>7, <1>8, <1>9, <1>10, <1>11, <1>12, <1>13, Zenon

\* A push moves the sleepers of other teams on and elects those of the team.
LEMMA PushStep ==
  ASSUME IInv, Push
  PROVE  IInv'
<1>1. TypeOK
  BY DEF IInv
<1>2. PICK p \in [Reader -> Nat] : Ring(p)
  BY DEF IInv
<1>3. PICK n \in Nat : n = N
  BY <1>1, Types
<1> DEFINE h == fifo_head
           W == dispatches[h].waiting_mask
<1>4. /\ n < MaxPush
      /\ \A c \in Reader : c \notin dispatches[h].status_mask
      /\ fifo_head' = next_entry(h)
      /\ \A c \in Core : tail'[c] = IF c \in W THEN next_entry(tail[c]) ELSE tail[c]
      /\ pushed' = Append(pushed, config)
      /\ reads' = reads /\ got' = got /\ config' = config
      /\ W \subseteq Reader
      /\ dispatches' \in [Entry -> DispatchState]
      /\ eu' = [c \in Core |-> eu'[c]]
      /\ tail' = [c \in Core |-> tail'[c]]
      /\ eu'[Master] = demux_enter(eu[Master])
  BY <1>1, <1>3, PushEffect
<1>5. \A i \in Entry \ {h} :
        /\ dispatches'[i].value = dispatches[i].value
        /\ dispatches'[i].config_mask = dispatches[i].config_mask
        /\ dispatches'[i].status_mask = dispatches[i].status_mask
  BY <1>1, <1>3, PushEffect
<1>6. /\ dispatches'[h].value = n + 1 /\ dispatches'[h].config_mask = config
      /\ dispatches'[h].status_mask = Core \ W
  BY <1>1, <1>3, PushEffect
<1>7. \A i \in Entry : dispatches'[i].waiting_mask =
        (IF i = h THEN {} ELSE dispatches[i].waiting_mask)
            \cup {c \in W \ config : next_entry(tail[c]) = i}
  BY <1>1, <1>3, PushEffect
<1>8. \A c \in Reader : eu'[c] =
        IF c \in W \cap config
        THEN send_event([eu[c] EXCEPT !.data = n + 1], {dispatch_event}, 0)
        ELSE IF c \in W \ config THEN sleeper(eu[c]) ELSE eu[c]
  BY <1>1, <1>3, PushEffect
<1>9. /\ eu \in [Core -> Unit] /\ tail \in [Core -> Entry] /\ h \in Entry
      /\ size \in Nat \ {0} /\ MaxPush \in Nat /\ Reader \subseteq Core
      /\ Master \in Core /\ config \in Team /\ got \in [Core -> Seq(Item)]
      /\ pushed \in Seq(Team) /\ n = Len(pushed)
  BY <1>1, <1>3, Types DEF N
<1>10. /\ \A c \in Reader : c \in W <=> Asleep(c)
       /\ \A c \in Reader : c \in W => p[c] = n /\ tail[c] = h
       /\ \A c \in Reader : \A i \in Entry \ {h} : c \notin dispatches[i].waiting_mask
  BY <1>1, <1>2, <1>3, SleepersAtHead
<1> HIDE DEF W
<1>11. h = n % size /\ next_entry(h) = (n + 1) % size
  BY <1>2, <1>3, NextEntry DEF Ring, Placed
<1>12. \A c \in Reader : p[c] \in Nat /\ p[c] <= n /\ n + 1 <= p[c] + size
  <2> TAKE c \in Reader
  <2>1. p[c] \in Nat /\ p[c] <= n /\ n <= p[c] + size
    BY <1>2, <1>3 DEF Ring, Placed
  <2> DEFINE m == n - size + 1
  <2>2. m \in N - size + 1 .. N /\ m - 1 = n - size
    BY <1>3, <1>9
  <2>3. (m - 1) % size = h
    BY <1>9, <1>11, <2>2, ModTurn
  <2> HIDE DEF m
  <2>4. c \in dispatches[(m - 1) % size].status_mask <=> p[c] < m
    BY <1>2, <2>2 DEF Ring, Stored
  <2>5. ~(p[c] < m)
    BY <1>4, <2>3, <2>4
  <2> QED BY <1>9, <2>1, <2>5 DEF m
<1>13. \A m \in n - size + 2 .. n : (m - 1) % size \in Entry \ {h}
  <2> TAKE m \in n - size + 2 .. n
  <2> DEFINE k == m - 1
  <2>1. k \in Int /\ n \in Int /\ k - n < size /\ n - k < size /\ k # n
    BY <1>9
  <2> HIDE DEF k
  <2>2. k % size # n % size
    BY <1>9, <2>1, ModInjective
  <2> QED BY <1>11, <2>1, <2>2, EntryType DEF k
<1>14. /\ N' = n + 1
       /\ \A m \in 1 .. n : pushed'[m] = pushed[m]
       /\ pushed'[n + 1] = config
  BY <1>1, <1>3, <1>4, <1>9, DueAppend
<1>15. ASSUME NEW c
       PROVE  /\ \A k \in 0 .. n : due(c, k)' = due(c, k)
              /\ c \in config => due(c, n + 1)' = due(c, n) \cup {n + 1}
              /\ c \notin config => due(c, n + 1)' = due(c, n)
  BY <1>1, <1>3, <1>4, <1>9, DueAppend
\* The units.
<1>16. ASSUME NEW c \in Reader, c \in W, c \in config
       PROVE  eu'[c] \in Unit /\ Chosen(eu'[c]) /\ eu'[c].data = n + 1
  <2> DEFINE e == [eu[c] EXCEPT !.data = n + 1]
  <2>1. eu[c] \in Unit /\ Sleeps(eu[c])
    BY <1>9, <1>10, <1>16 DEF IInv, CoreShape
  <2>2. n + 1 \in Item
    BY <1>4, <1>9 DEF Item
  <2>3. e \in Unit /\ Sleeps(e) /\ e.data = n + 1
    BY <2>1, <2>2 DEF Unit, Core_event_unit, Sleeps, Quiet
  <2>4. eu'[c] = send_event(e, {dispatch_event}, 0)
    BY <1>8, <1>16
  <2> HIDE DEF e
  <2> QED BY <2>3, <2>4, SendUnit
<1>17. ASSUME NEW c \in Reader, c \in W, c \notin config
       PROVE  eu'[c] \in Unit /\ Sleeps(eu'[c])
  <2>1. eu[c] \in Unit /\ Sleeps(eu[c])
    BY <1>9, <1>10, <1>17 DEF IInv, CoreShape
  <2>2. eu'[c] = sleeper(eu[c])
    BY <1>8, <1>17
  <2> QED BY <2>1, <2>2, SleeperUnit DEF Sleeps
<1>18. ASSUME NEW c \in Reader, c \notin W PROVE eu'[c] = eu[c]
  BY <1>8, <1>18
<1>19. \A c \in Reader : /\ c \in W /\ c \in config => Answering(c)' /\ ~Asleep(c)'
                         /\ c \in W /\ c \notin config => ~Answering(c)' /\ Asleep(c)'
                         /\ c \notin W => /\ Answering(c)' = Answering(c)
                                          /\ ~Asleep(c) /\ ~Asleep(c)'
  BY <1>4, <1>10, <1>16, <1>17, <1>18 DEF Answering, Asleep, Chosen, Sleeps
<1>20. \A c \in Reader : CoreShape(c)'
  BY <1>4, <1>10, <1>16, <1>17, <1>18, <1>19 DEF IInv, CoreShape, Asleep, Answering
\* The types.
<1>21. TypeOK'
  <2>1. eu' \in [Core -> Unit]
    <3>1. \A c \in Reader : eu'[c] \in Unit
      BY <1>9, <1>16, <1>17, <1>18
    <3>2. eu'[Master] \in Unit
      BY <1>4, <1>9, EnterUnit
    <3>3. \A c \in Core : eu'[c] \in Unit
      BY <3>1, <3>2 DEF Reader
    <3> QED BY <1>4, <3>3
  <2>2. \A i \in Entry : next_entry(i) \in Entry
    BY <1>9 DEF next_entry, Entry
  <2>3. tail' \in [Core -> Entry]
    <3>1. \A c \in Core : tail'[c] \in Entry
      BY <1>4, <1>9, <2>2
    <3> QED BY <1>4, <3>1
  <2>4. pushed' \in Seq(Team) /\ Len(pushed') <= MaxPush
    <3>1. pushed' \in Seq(Team)
      BY <1>4, <1>9, AppendProperties
    <3>2. Len(pushed') = n + 1
      BY <1>14 DEF N
    <3> QED BY <1>4, <1>9, <3>1, <3>2
  <2> QED BY <1>1, <1>4, <1>9, <2>1, <2>2, <2>3, <2>4 DEF TypeOK, Unit
\* The ring.
<1>22. PICK q \in [Reader -> Nat] :
          \A c \in Reader : q[c] = IF c \in W THEN n + 1 ELSE p[c]
  <2>1. [c \in Reader |-> IF c \in W THEN n + 1 ELSE p[c]] \in [Reader -> Nat]
    BY <1>12
  <2> QED BY <2>1
<1>23. Placed(q)'
  <2>1. fifo_head' = N' % size
    BY <1>4, <1>11, <1>14
  <2>2. ASSUME NEW c \in Reader
        PROVE  q[c] <= N' /\ N' <= q[c] + size /\ tail'[c] = q[c] % size
    <3>1. CASE c \in W
      <4>1. q[c] = n + 1 /\ tail'[c] = next_entry(h)
        BY <1>4, <1>9, <1>10, <1>22, <3>1
      <4> QED BY <1>9, <1>11, <1>14, <4>1
    <3>2. CASE c \notin W
      <4>1. q[c] = p[c] /\ tail'[c] = tail[c] /\ tail[c] = p[c] % size
        BY <1>2, <1>4, <1>9, <1>22, <3>2 DEF Ring, Placed
      <4> QED BY <1>12, <1>14, <4>1
    <3> QED BY <3>1, <3>2
  <2> QED BY <2>1, <2>2 DEF Placed
<1>24. Stored(q)'
  <2>1. ASSUME NEW m \in N' - size + 1 .. N', m = n + 1
        PROVE  /\ \A c \in Reader :
                    c \in dispatches'[(m - 1) % size].status_mask <=> q[c] < m
               /\ m >= 1 => /\ dispatches'[(m - 1) % size].value = m
                            /\ dispatches'[(m - 1) % size].config_mask = pushed'[m]
    <3>1. (m - 1) % size = h
      BY <1>11, <2>1
    <3>2. \A c \in Reader : c \in Core \ W <=> q[c] < m
      BY <1>9, <1>12, <1>22, <2>1
    <3> QED BY <1>6, <1>14, <2>1, <3>1, <3>2
  <2>2. ASSUME NEW m \in N' - size + 1 .. N', m # n + 1
        PROVE  /\ \A c \in Reader :
                    c \in dispatches'[(m - 1) % size].status_mask <=> q[c] < m
               /\ m >= 1 => /\ dispatches'[(m - 1) % size].value = m
                            /\ dispatches'[(m - 1) % size].config_mask = pushed'[m]
    <3>1. m \in n - size + 2 .. n /\ m \in N - size + 1 .. N /\ m <= n /\ m \in Int
      BY <1>3, <1>9, <1>14, <2>2
    <3>2. (m - 1) % size \in Entry \ {h}
      BY <1>13, <3>1
    <3>3. /\ \A c \in Reader : c \in dispatches[(m - 1) % size].status_mask <=> p[c] < m
          /\ m >= 1 => /\ dispatches[(m - 1) % size].value = m
                       /\ dispatches[(m - 1) % size].config_mask = pushed[m]
      BY <1>2, <3>1 DEF Ring, Stored
    <3>4. \A c \in Reader : q[c] < m <=> p[c] < m
      BY <1>10, <1>12, <1>22, <3>1
    <3>5. m >= 1 => pushed'[m] = pushed[m]
      BY <1>14, <3>1
    <3> QED BY <1>5, <3>2, <3>3, <3>4, <3>5
  <2> QED BY <2>1, <2>2, Zenon DEF Stored
<1>25. Parked(q)'
  <2> SUFFICES ASSUME NEW c \in Reader
               PROVE  /\ \A i \in Entry : c \in dispatches'[i].waiting_mask
                                            <=> Asleep(c)' /\ i = tail'[c]
                      /\ Asleep(c)' => q[c] = N'
    BY DEF Parked
  <2>1. Asleep(c)' <=> c \in W \ config
    BY <1>19
  <2>2. c \in W => tail'[c] = next_entry(tail[c]) /\ q[c] = n + 1
    BY <1>4, <1>9, <1>22
  <2>3. \A i \in Entry : c \in dispatches'[i].waiting_mask <=>
                            c \in W \ config /\ next_entry(tail[c]) = i
    BY <1>7, <1>10
  <2> QED BY <1>14, <2>1, <2>2, <2>3
<1>26. Given(q)'
  <2> SUFFICES ASSUME NEW c \in Reader
               PROVE  Lists(Taken(c)', due(c, q[c])')
    BY DEF Given, Lists
  <2>1. Lists(Taken(c), due(c, p[c])) /\ got[c] \in Seq(Nat)
    BY <1>2, <1>9, ItemSeq DEF Ring, Given
  <2>2. CASE c \in W
    <3>1. Taken(c) = got[c] /\ p[c] = n /\ q[c] = n + 1
      BY <1>10, <1>22, <2>2 DEF Taken, Answering, Asleep
    <3>2. CASE c \in config
      <4>1. Taken(c)' = Append(got[c], n + 1)
        BY <1>4, <1>16, <1>19, <2>2, <3>2 DEF Taken
      <4>2. due(c, q[c])' = due(c, n) \cup {n + 1}
        BY <1>15, <3>1, <3>2
      <4>3. \A y \in due(c, n) : y < n + 1
        BY DEF due
      <4>4. Lists(got[c], due(c, n))
        BY <2>1, <3>1
      <4> DEFINE x == n + 1
      <4>5. x \in Nat
        OBVIOUS
      <4> HIDE DEF x
      <4>6. Lists(Append(got[c], x), due(c, n) \cup {x})
        BY <2>1, <4>3, <4>4, <4>5, ListsAppend DEF x
      <4> QED BY <4>1, <4>2, <4>6 DEF x
    <3>3. CASE c \notin config
      <4>1. Taken(c)' = got[c]
        BY <1>4, <1>19, <2>2, <3>3 DEF Taken
      <4>2. due(c, q[c])' = due(c, n)
        BY <1>15, <3>1, <3>3
      <4> QED BY <2>1, <3>1, <4>1, <4>2
    <3> QED BY <3>2, <3>3
  <2>3. CASE c \notin W
    <3>1. Taken(c)' = Taken(c)
      BY <1>4, <1>18, <1>19, <2>3 DEF Taken
    <3>2. q[c] = p[c] /\ p[c] \in 0 .. n
      BY <1>12, <1>22, <2>3
    <3>3. due(c, q[c])' = due(c, p[c])
      BY <1>15, <3>2
    <3> QED BY <2>1, <3>1, <3>3
  <2> QED BY <2>2, <2>3
<1>27. Ring(q)'
  BY <1>23, <1>24, <1>25, <1>26 DEF Ring
<1> QED BY <1>20, <1>21, <1>22, <1>27 DEF IInv

-----------------------------------------------------------------------------
(***************************************************************************)
(* A read.                                                                 *)
(***************************************************************************)

\* The entries after the tail hold the items after the position, those not
\* yet pushed being nobody's.
LEMMA EntryAfter ==
  ASSUME TypeOK, NEW p \in [Reader -> Nat], Ring(p), NEW c \in Reader,
         NEW a \in Nat, a = p[c], NEW n \in Nat, n = N,
         NEW j \in 0 .. size - 1
  PROVE  LET i == entry_after(c, j)
         IN  /\ i = (a + j) % size /\ i \in Entry
             /\ c \in dispatches[i].status_mask <=> a + j < n
             /\ a + j < n => /\ dispatches[i].value = a + j + 1
                             /\ dispatches[i].config_mask = pushed[a + j + 1]
<1> DEFINE i == entry_after(c, j)
           s == a + j
<1>1. size \in Nat \ {0} /\ j \in Nat /\ j < size
  BY Types
<1>2. a <= n /\ n <= a + size /\ tail[c] = a % size
  BY DEF Ring, Placed
<1>3. s \in Nat /\ i = s % size
  <2>1. a \in Int /\ j \in Int /\ size \in Nat \ {0}
    BY <1>1
  <2>2. ((a % size) + j) % size = (a + j) % size
    BY <2>1, ModAdd
  <2>3. i = ((a % size) + j) % size
    BY <1>2 DEF entry_after
  <2>4. s \in Nat
    BY <1>1
  <2> QED BY <2>2, <2>3, <2>4
<1>4. i \in Entry
  BY <1>3, EntryType
<1> HIDE DEF i
<1>5. CASE s < n
  <2> DEFINE m == s + 1
  <2>1. m \in N - size + 1 .. N /\ m >= 1 /\ m - 1 = s /\ a < m
    BY <1>1, <1>2, <1>5
  <2> HIDE DEF m, s
  <2>2. /\ c \in dispatches[i].status_mask <=> p[c] < m
        /\ dispatches[i].value = m /\ dispatches[i].config_mask = pushed[m]
    BY <1>3, <2>1 DEF Ring, Stored
  <2> QED BY <1>3, <1>4, <1>5, <2>1, <2>2 DEF i, m, s
<1>6. CASE ~(s < n)
  <2> DEFINE m == s - size + 1
  <2>1. m \in N - size + 1 .. N /\ m - 1 = s - size /\ ~(a < m)
    BY <1>1, <1>2, <1>6
  <2>2. s \in Int
    BY <1>3
  <2> HIDE DEF m, s
  <2>3. (m - 1) % size = i
    BY <1>1, <1>3, <2>1, <2>2, ModTurn
  <2>4. c \in dispatches[(m - 1) % size].status_mask <=> p[c] < m
    BY <2>1 DEF Ring, Stored
  <2>5. c \notin dispatches[i].status_mask
    BY <2>1, <2>3, <2>4
  <2> QED BY <1>3, <1>4, <1>6, <2>5 DEF i, s
<1> QED BY <1>5, <1>6

\* The bypass stops at the first item for the core, or behind the last item.
LEMMA BypassEnd ==
  ASSUME TypeOK, NEW p \in [Reader -> Nat], Ring(p), NEW c \in Reader,
         NEW a \in Nat, a = p[c], NEW n \in Nat, n = N
  PROVE  /\ bypass(c) \in 0 .. size
         /\ a + bypass(c) <= n
         /\ bypass(c) = size => a + bypass(c) = n
         /\ \A m \in a + 1 .. a + bypass(c) : c \notin pushed[m]
         /\ a + bypass(c) < n => c \in pushed[a + bypass(c) + 1]
<1> DEFINE Stop(k) == k = size \/ ~bypassed(c, entry_after(c, k))
           Here(k) == /\ \A j \in 0 .. k - 1 : bypassed(c, entry_after(c, j))
                      /\ Stop(k)
           S == {k \in 0 .. size : Stop(k)}
<1>1. size \in Nat \ {0} /\ a <= n /\ n <= a + size
  BY Types DEF Ring, Placed
<1>2. PICK k \in S : \A j \in S : k <= j
  <2>1. S \in SUBSET Nat /\ size \in S
    BY <1>1
  <2> HIDE DEF S
  <2> QED BY <2>1, NatHasMin
<1>3. k \in 0 .. size /\ Here(k)
  <2>1. k \in 0 .. size /\ Stop(k)
    BY <1>2
  <2>2. ASSUME NEW j \in 0 .. k - 1 PROVE bypassed(c, entry_after(c, j))
    <3>1. j \in 0 .. size /\ ~(k <= j)
      BY <1>1, <2>1
    <3>2. j \notin S
      BY <1>2, <3>1
    <3> QED BY <3>1, <3>2
  <2> QED BY <2>1, <2>2
<1>4. bypass(c) = CHOOSE l \in 0 .. size : Here(l)
  BY Zenon DEF bypass
<1>5. bypass(c) \in 0 .. size /\ Here(bypass(c))
  <2> HIDE DEF Here
  <2> QED BY <1>3, <1>4
<1> DEFINE b == bypass(c)
<1>6. b \in 0 .. size /\ Here(b)
  BY <1>5
<1> HIDE DEF b, S
<1>7. ASSUME NEW j \in 0 .. size - 1
      PROVE  bypassed(c, entry_after(c, j)) <=> a + j < n /\ c \notin pushed[a + j + 1]
  BY EntryAfter DEF bypassed
<1>8. \A j \in 0 .. b - 1 : a + j < n /\ c \notin pushed[a + j + 1]
  <2> TAKE j \in 0 .. b - 1
  <2>1. j \in 0 .. size - 1 /\ bypassed(c, entry_after(c, j))
    BY <1>1, <1>6
  <2> QED BY <1>7, <2>1
<1>9. a + b <= n
  <2>1. CASE b = 0
    BY <1>1, <2>1
  <2>2. CASE b # 0
    <3>1. b - 1 \in 0 .. b - 1
      BY <1>6, <2>2
    <3>2. a + (b - 1) < n
      BY <1>8, <3>1
    <3> QED BY <1>6, <3>2
  <2> QED BY <2>1, <2>2
<1>10. b = size => a + b = n
  BY <1>1, <1>9
<1>11. a + b < n => c \in pushed[a + b + 1]
  <2> HAVE a + b < n
  <2>1. b \in 0 .. size - 1
    BY <1>1, <1>6, <1>10
  <2>2. ~bypassed(c, entry_after(c, b))
    BY <1>1, <1>6, <2>1
  <2> QED BY <1>7, <2>1, <2>2
<1>12. ASSUME NEW m \in a + 1 .. a + b PROVE c \notin pushed[m]
  <2> DEFINE j == m - a - 1
  <2>1. j \in 0 .. b - 1 /\ a + j + 1 = m
    BY <1>6
  <2> HIDE DEF j
  <2> QED BY <1>8, <2>1
<1> QED BY <1>6, <1>9, <1>10, <1>11, <1>12 DEF b

\* The ring when one core moves on by r items and clears its status bits of
\* the entries it passes.
LEMMA RingMoves ==
  ASSUME TypeOK, NEW p \in [Reader -> Nat], Ring(p), NEW c \in Reader,
         NEW a \in Nat, a = p[c], NEW n \in Nat, n = N,
         NEW r \in 0 .. size, a + r <= n,
         UNCHANGED <<fifo_head, pushed>>,
         tail'[c] = (a + r) % size,
         \A d \in Reader \ {c} : /\ tail'[d] = tail[d] /\ Asleep(d)' = Asleep(d)
                                 /\ Taken(d)' = Taken(d),
         \A i \in Entry :
            /\ dispatches'[i].value = dispatches[i].value
            /\ dispatches'[i].config_mask = dispatches[i].config_mask
            /\ \A d \in Reader \ {c} :
                  /\ d \in dispatches'[i].status_mask <=> d \in dispatches[i].status_mask
                  /\ d \in dispatches'[i].waiting_mask <=> d \in dispatches[i].waiting_mask
            /\ c \in dispatches'[i].status_mask <=>
                  /\ c \in dispatches[i].status_mask
                  /\ \A j \in 0 .. r - 1 : i # entry_after(c, j)
            /\ c \in dispatches'[i].waiting_mask <=> Asleep(c)' /\ i = tail'[c],
         Asleep(c)' => a + r = n,
         Lists(Taken(c)', due(c, a + r))
  PROVE  \E q \in [Reader -> Nat] : Ring(q)'
<1>1. PICK q \in [Reader -> Nat] :
          q[c] = a + r /\ \A d \in Reader \ {c} : q[d] = p[d]
  <2>1. a + r \in Nat
    OBVIOUS
  <2>2. [p EXCEPT ![c] = a + r] \in [Reader -> Nat]
    BY <2>1
  <2> QED BY <2>2
<1>2. N' = n /\ size \in Nat \ {0} /\ a <= n /\ n <= a + size
  BY Types DEF N, Ring, Placed
<1>3. Placed(q)'
  <2>1. ASSUME NEW d \in Reader
        PROVE  q[d] <= N' /\ N' <= q[d] + size /\ tail'[d] = q[d] % size
    <3>1. CASE d = c
      BY <1>1, <1>2, <3>1
    <3>2. CASE d # c
      BY <1>1, <1>2, <3>2 DEF Ring, Placed
    <3> QED BY <3>1, <3>2
  <2>2. fifo_head' = N' % size
    BY <1>2 DEF Ring, Placed
  <2> QED BY <2>1, <2>2 DEF Placed
<1>4. ASSUME NEW m \in n - size + 1 .. n
      PROVE  (\E j \in 0 .. r - 1 : (m - 1) % size = entry_after(c, j)) <=> m \in a + 1 .. a + r
  <2>1. ASSUME NEW j \in 0 .. r - 1 PROVE entry_after(c, j) = (a + j) % size
    <3>1. j \in 0 .. size - 1
      BY <1>2
    <3> QED BY <3>1, EntryAfter
  <2>2. ASSUME NEW j \in 0 .. r - 1, (m - 1) % size = entry_after(c, j)
        PROVE  m \in a + 1 .. a + r
    <3> DEFINE k == m - 1
               l == a + j
    <3>1. k \in Int /\ l \in Int /\ k - l < size /\ l - k < size
      BY <1>2
    <3>2. k % size = l % size
      BY <2>1, <2>2
    <3> HIDE DEF k, l
    <3>3. k = l
      BY <1>2, <3>1, <3>2, ModInjective
    <3> QED BY <3>3 DEF k, l
  <2>3. ASSUME m \in a + 1 .. a + r
        PROVE  \E j \in 0 .. r - 1 : (m - 1) % size = entry_after(c, j)
    <3> DEFINE j == m - 1 - a
    <3>1. j \in 0 .. r - 1 /\ a + j = m - 1
      BY <2>3
    <3> HIDE DEF j
    <3> QED BY <2>1, <3>1
  <2> QED BY <2>2, <2>3
<1>5. Stored(q)'
  <2>1. ASSUME NEW m \in N' - size + 1 .. N'
        PROVE  /\ \A d \in Reader :
                    d \in dispatches'[(m - 1) % size].status_mask <=> q[d] < m
               /\ m >= 1 => /\ dispatches'[(m - 1) % size].value = m
                            /\ dispatches'[(m - 1) % size].config_mask = pushed'[m]
    <3> DEFINE i == (m - 1) % size
    <3>1. m \in n - size + 1 .. n /\ m \in N - size + 1 .. N /\ m \in Int /\ m - 1 \in Int
      BY <1>2
    <3>2. i \in Entry
      BY <3>1, EntryType
    <3>3. /\ \A d \in Reader : d \in dispatches[i].status_mask <=> p[d] < m
          /\ m >= 1 => dispatches[i].value = m /\ dispatches[i].config_mask = pushed[m]
      BY <3>1 DEF Ring, Stored
    <3>4. (\E j \in 0 .. r - 1 : i = entry_after(c, j)) <=> m \in a + 1 .. a + r
      BY <1>4, <3>1
    <3> HIDE DEF i
    <3>5. c \in dispatches'[i].status_mask <=> a < m /\ m \notin a + 1 .. a + r
      BY <3>2, <3>3, <3>4
    <3>6. c \in dispatches'[i].status_mask <=> q[c] < m
      BY <1>1, <3>1, <3>5
    <3>7. \A d \in Reader \ {c} : d \in dispatches'[i].status_mask <=> q[d] < m
      BY <1>1, <3>2, <3>3
    <3>8. m >= 1 => /\ dispatches'[i].value = m
                    /\ dispatches'[i].config_mask = pushed'[m]
      BY <3>2, <3>3
    <3>9. \A d \in Reader : d \in dispatches'[i].status_mask <=> q[d] < m
      BY <3>6, <3>7
    <3> QED BY <3>8, <3>9 DEF i
  <2> QED BY <2>1, Zenon DEF Stored
<1>6. Parked(q)'
  <2>1. ASSUME NEW d \in Reader
        PROVE  /\ \A i \in Entry : d \in dispatches'[i].waiting_mask
                                     <=> Asleep(d)' /\ i = tail'[d]
               /\ Asleep(d)' => q[d] = N'
    <3>1. CASE d = c
      BY <1>1, <1>2, <3>1
    <3>2. CASE d # c
      BY <1>1, <1>2, <3>2 DEF Ring, Parked
    <3> QED BY <3>1, <3>2
  <2> QED BY <2>1 DEF Parked
<1>7. Given(q)'
  <2>1. \A d \in Reader : Lists(Taken(d)', due(d, q[d]))
    BY <1>1 DEF Ring, Given
  <2>2. \A d \in Reader : due(d, q[d])' = due(d, q[d])
    BY DEF due
  <2> QED BY <2>1, <2>2 DEF Given, Lists
<1> QED BY <1>1, <1>3, <1>5, <1>6, <1>7 DEF Ring

\* The entries after core c has bypassed k of them.
Cleared(c, k) ==
    [i \in Entry |-> IF \E j \in 0 .. k - 1 : i = entry_after(c, j)
                     THEN [dispatches[i] EXCEPT !.status_mask = @ \ {c}]
                     ELSE dispatches[i]]

\* Only the status bits of the core change.
LEMMA ClearedEntry ==
  ASSUME TypeOK, NEW c \in Reader, NEW k \in 0 .. size, NEW i \in Entry
  PROVE  /\ Cleared(c, k)[i] \in DispatchState
         /\ Cleared(c, k)[i].value = dispatches[i].value
         /\ Cleared(c, k)[i].config_mask = dispatches[i].config_mask
         /\ Cleared(c, k)[i].waiting_mask = dispatches[i].waiting_mask
         /\ \A d : d \in Cleared(c, k)[i].status_mask <=>
                /\ d \in dispatches[i].status_mask
                /\ d = c => \A j \in 0 .. k - 1 : i # entry_after(c, j)
<1> DEFINE x == dispatches[i]
<1>1. x \in DispatchState
  BY Types
<1>2. CASE \E j \in 0 .. k - 1 : i = entry_after(c, j)
  <2>1. Cleared(c, k)[i] = [x EXCEPT !.status_mask = x.status_mask \ {c}]
    BY <1>2 DEF Cleared
  <2> HIDE DEF x
  <2>2. /\ Cleared(c, k)[i] \in DispatchState
        /\ Cleared(c, k)[i].value = x.value
        /\ Cleared(c, k)[i].config_mask = x.config_mask
        /\ Cleared(c, k)[i].waiting_mask = x.waiting_mask
        /\ Cleared(c, k)[i].status_mask = x.status_mask \ {c}
    BY <1>1, <2>1 DEF DispatchState
  <2> QED BY <1>2, <2>2 DEF x
<1>3. CASE ~ \E j \in 0 .. k - 1 : i = entry_after(c, j)
  <2>1. Cleared(c, k)[i] = x
    BY <1>3 DEF Cleared
  <2> QED BY <1>1, <1>3, <2>1
<1> QED BY <1>2, <1>3

\* The two outcomes of a read that has bypassed k items: item m is there, or
\* the core falls asleep.
Finds(c, k, m) ==
    LET id == entry_after(c, k)
        D  == Cleared(c, k)
        e  == demux_enter(eu[c])
    IN  /\ eu' = trigger_event([eu EXCEPT ![c] = sleeper([e EXCEPT !.data = m])],
                               {dispatch_event}, {c}, 0)
        /\ dispatches' = [D EXCEPT ![id] = [D[id] EXCEPT !.status_mask = @ \ {c}]]
        /\ tail' = [tail EXCEPT ![c] = next_entry(id)]

Parks(c, k) ==
    LET id == entry_after(c, k)
        D  == Cleared(c, k)
        e  == demux_enter(eu[c])
    IN  /\ eu' = [eu EXCEPT ![c] = wait_event(
                     [e EXCEPT !.clear_evt_mask = {dispatch_event}], "WAITING_EVENT")]
        /\ dispatches' = [D EXCEPT ![id] = [D[id] EXCEPT !.waiting_mask = @ \cup {c}]]
        /\ tail' = [tail EXCEPT ![c] = id]

\* Which of them it is, with a the position of the core and n items pushed.
LEMMA PopEffect ==
  ASSUME TypeOK, NEW p \in [Reader -> Nat], Ring(p), NEW c \in Reader, Pop(c),
         NEW a \in Nat, a = p[c], NEW n \in Nat, n = N,
         NEW k \in 0 .. size, k = bypass(c)
  PROVE  /\ c \notin reads /\ reads' = reads \cup {c}
         /\ UNCHANGED <<fifo_head, config, pushed, got>>
         /\ entry_after(c, k) = (a + k) % size /\ entry_after(c, k) \in Entry
         /\ a + k < n => Finds(c, k, a + k + 1)
         /\ ~(a + k < n) => a + k = n /\ Parks(c, k)
<1> DEFINE id == entry_after(c, k)
           D  == Cleared(c, k)
           ready == c \in D[id].status_mask
<1>1. size \in Nat \ {0} /\ k \in Nat /\ a \in Int /\ k \in Int /\ tail[c] = a % size
  BY Types DEF Ring, Placed
<1>2. id = (a + k) % size /\ id \in Entry
  <2>1. ((a % size) + k) % size = (a + k) % size
    BY <1>1, ModAdd
  <2>2. id = (a + k) % size
    BY <1>1, <2>1 DEF entry_after
  <2>3. a + k \in Int
    BY <1>1
  <2> QED BY <2>2, <2>3, EntryType
<1>3. /\ c \notin reads /\ reads' = reads \cup {c}
      /\ UNCHANGED <<fifo_head, config, pushed, got>>
      /\ ready => Finds(c, k, D[id].value)
      /\ ~ready => Parks(c, k)
  BY DEF Pop, Cleared, Finds, Parks
<1>4. /\ a + k <= n
      /\ k = size => a + k = n
  BY BypassEnd
<1>5. D[id].value = dispatches[id].value
  BY <1>2, ClearedEntry
<1>6. ready <=> /\ c \in dispatches[id].status_mask
                /\ \A j \in 0 .. k - 1 : id # entry_after(c, j)
  BY <1>2, ClearedEntry
<1>7. CASE k = size
  <2>1. 0 \in 0 .. size - 1 /\ 0 \in 0 .. k - 1
    BY <1>1, <1>7
  <2>2. entry_after(c, 0) = (a + 0) % size
    BY <2>1, EntryAfter
  <2>3. (a + k) % size = a % size
    <3> DEFINE l == a + size
    <3>1. l \in Int /\ l - size = a
      BY <1>1
    <3> HIDE DEF l
    <3>2. (l - size) % size = l % size
      BY <1>1, <3>1, ModTurn
    <3> QED BY <1>7, <3>1, <3>2 DEF l
  <2>4. id = entry_after(c, 0)
    BY <1>2, <2>2, <2>3
  <2>5. ~ready /\ a + k = n /\ ~(a + k < n)
    BY <1>1, <1>4, <1>6, <1>7, <2>1, <2>4
  <2> QED BY <1>2, <1>3, <2>5
<1>8. CASE k # size
  <2>1. k \in 0 .. size - 1
    BY <1>1, <1>8
  <2>2. /\ c \in dispatches[id].status_mask <=> a + k < n
        /\ a + k < n => dispatches[id].value = a + k + 1
    BY <2>1, EntryAfter
  <2>3. ASSUME NEW j \in 0 .. k - 1 PROVE id # entry_after(c, j)
    <3> DEFINE u == a + k
               v == a + j
    <3>1. u \in Int /\ v \in Int /\ u - v < size /\ v - u < size /\ u # v
      BY <1>1, <2>1
    <3>2. j \in 0 .. size - 1
      BY <1>1, <2>1
    <3>3. entry_after(c, j) = v % size
      BY <3>2, EntryAfter
    <3> HIDE DEF u, v
    <3>4. u % size # v % size
      BY <1>1, <3>1, ModInjective
    <3> QED BY <1>2, <3>3, <3>4 DEF u
  <2>4. ready <=> a + k < n
    BY <1>6, <2>2, <2>3
  <2>5. ready => D[id].value = a + k + 1
    BY <1>5, <2>2, <2>4
  <2>6. ~ready => a + k = n
    BY <1>1, <1>4, <2>4
  <2> QED BY <1>2, <1>3, <2>4, <2>5, <2>6
<1> QED BY <1>7, <1>8

\* An entry that is changed once more.
LEMMA ChangedEntry ==
  ASSUME NEW D \in [Entry -> DispatchState], NEW id \in Entry, NEW x \in DispatchState
  PROVE  /\ [D EXCEPT ![id] = x] \in [Entry -> DispatchState]
         /\ [D EXCEPT ![id] = x][id] = x
         /\ \A i \in Entry \ {id} : [D EXCEPT ![id] = x][i] = D[i]
OBVIOUS

\* Nothing between two positions is for the core, or only the last one is.
LEMMA DueSkips ==
  ASSUME NEW c, NEW a \in Nat, NEW b \in Nat, a <= b, NEW y \in Nat, y = b + 1,
         \A m \in a + 1 .. b : c \notin pushed[m]
  PROVE  /\ due(c, b) = due(c, a)
         /\ c \in pushed[y] => due(c, y) = due(c, a) \cup {y}
<1>1. /\ \A m : m \in 1 .. b <=> m \in 1 .. a \/ m \in a + 1 .. b
      /\ \A m : m \in 1 .. y <=> m \in 1 .. b \/ m = y
  OBVIOUS
<1>2. due(c, b) = due(c, a)
  BY <1>1 DEF due
<1>3. c \in pushed[y] => due(c, y) = due(c, b) \cup {y}
  BY <1>1 DEF due
<1> QED BY <1>2, <1>3

\* A read that finds an item.
LEMMA PopReady ==
  ASSUME IInv, NEW p \in [Reader -> Nat], Ring(p), NEW c \in Reader, Pop(c),
         NEW a \in Nat, a = p[c], NEW n \in Nat, n = N,
         NEW k \in 0 .. size, k = bypass(c), a + k < n
  PROVE  IInv'
<1> DEFINE id == entry_after(c, k)
           D  == Cleared(c, k)
           e  == demux_enter(eu[c])
           f  == [e EXCEPT !.data = a + k + 1]
           g  == sleeper(f)
           x  == [D[id] EXCEPT !.status_mask = D[id].status_mask \ {c}]
<1>1. TypeOK
  BY DEF IInv
<1>2. /\ eu \in [Core -> Unit] /\ dispatches \in [Entry -> DispatchState]
      /\ tail \in [Core -> Entry] /\ reads \subseteq Reader /\ Reader \subseteq Core
      /\ size \in Nat \ {0} /\ MaxPush \in Nat /\ n <= MaxPush
      /\ got \in [Core -> Seq(Item)] /\ k \in Nat
  BY <1>1, Types
<1>3. /\ c \notin reads /\ reads' = reads \cup {c}
      /\ UNCHANGED <<fifo_head, config, pushed, got>>
      /\ id = (a + k) % size /\ id \in Entry
      /\ eu' = trigger_event([eu EXCEPT ![c] = g], {dispatch_event}, {c}, 0)
      /\ dispatches' = [D EXCEPT ![id] = x]
      /\ tail' = [tail EXCEPT ![c] = next_entry(id)]
  <2>1. /\ c \notin reads /\ reads' = reads \cup {c}
        /\ UNCHANGED <<fifo_head, config, pushed, got>>
        /\ id = (a + k) % size /\ id \in Entry
        /\ Finds(c, k, a + k + 1)
    BY <1>1, PopEffect
  <2> QED BY <2>1 DEF Finds
\* The unit of the core.
<1>4. Runs(eu[c]) /\ ~Asleep(c) /\ ~Answering(c)
  BY <1>3 DEF IInv, CoreShape, Asleep, Answering
<1>5. e \in Unit /\ Runs(e)
  BY <1>2, <1>4, EnterUnit
<1> HIDE DEF e
<1>6. f \in Unit /\ Runs(f) /\ f.data = a + k + 1
  <2>1. a + k + 1 \in Item
    BY <1>2 DEF Item
  <2> QED BY <1>5, <2>1 DEF Unit, Core_event_unit, Runs, Quiet
<1> HIDE DEF f
<1>7. g \in Unit /\ Sleeps(g)
  BY <1>6, SleeperUnit DEF Runs
<1>8. g.data = a + k + 1
  BY <1>6 DEF sleeper, put_to_sleep, Unit, Core_event_unit
<1> HIDE DEF g
<1>9. /\ send_event(g, {dispatch_event}, 0) \in Unit
      /\ Chosen(send_event(g, {dispatch_event}, 0))
      /\ send_event(g, {dispatch_event}, 0).data = a + k + 1
  BY <1>7, <1>8, SendUnit
<1>10. /\ eu' = [d \in Core |-> IF d = c THEN send_event(g, {dispatch_event}, 0) ELSE eu[d]]
       /\ \A d \in Reader \ {c} : eu'[d] = eu[d]
       /\ eu'[c] = send_event(g, {dispatch_event}, 0)
  <2> DEFINE E == [eu EXCEPT ![c] = g]
  <2>1. E[c] = g /\ \A d \in Core \ {c} : E[d] = eu[d]
    BY <1>2
  <2> HIDE DEF E
  <2>2. eu' = [d \in Core |-> IF d \in {c} THEN send_event(E[d], {dispatch_event}, 0) ELSE E[d]]
    <3>1. {c} # {}
      OBVIOUS
    <3> QED BY <1>3, <3>1 DEF E, trigger_event
  <2>3. eu' = [d \in Core |-> IF d = c THEN send_event(g, {dispatch_event}, 0) ELSE eu[d]]
    BY <2>1, <2>2
  <2> QED BY <1>2, <2>3
<1>11. Answering(c)' /\ ~Asleep(c)' /\ Chosen(eu'[c]) /\ eu'[c].data = a + k + 1
  BY <1>3, <1>9, <1>10 DEF Answering, Asleep, Chosen
<1>12. \A d \in Reader \ {c} : Asleep(d)' = Asleep(d) /\ Answering(d)' = Answering(d)
  BY <1>3, <1>10 DEF Asleep, Answering
<1>13. \A d \in Reader : CoreShape(d)'
  <2>1. CoreShape(c)'
    BY <1>3, <1>11 DEF CoreShape
  <2>2. \A d \in Reader \ {c} : CoreShape(d)'
    BY <1>3, <1>10, <1>12 DEF IInv, CoreShape
  <2> QED BY <2>1, <2>2
\* The entries.
<1>14. D \in [Entry -> DispatchState]
  <2>1. \A i \in Entry : D[i] \in DispatchState
    BY <1>1, ClearedEntry
  <2>2. D = [i \in Entry |-> D[i]]
    BY DEF Cleared
  <2> QED BY <2>1, <2>2
<1>15. \A i \in Entry :
          /\ D[i].value = dispatches[i].value
          /\ D[i].config_mask = dispatches[i].config_mask
          /\ D[i].waiting_mask = dispatches[i].waiting_mask
          /\ \A d : d \in D[i].status_mask <=>
                /\ d \in dispatches[i].status_mask
                /\ d = c => \A j \in 0 .. k - 1 : i # entry_after(c, j)
  BY <1>1, ClearedEntry
<1> HIDE DEF D
<1>16. /\ x \in DispatchState
       /\ x.value = D[id].value /\ x.config_mask = D[id].config_mask
       /\ x.waiting_mask = D[id].waiting_mask
       /\ x.status_mask = D[id].status_mask \ {c}
  BY <1>3, <1>14 DEF DispatchState
<1> HIDE DEF x
<1>17. /\ dispatches' \in [Entry -> DispatchState]
       /\ dispatches'[id] = x /\ \A i \in Entry \ {id} : dispatches'[i] = D[i]
  BY <1>3, <1>14, <1>16, ChangedEntry
<1>18. \A i \in Entry : (\A j \in 0 .. k : i # entry_after(c, j)) <=>
          i # id /\ \A j \in 0 .. k - 1 : i # entry_after(c, j)
  <2>1. \A j : j \in 0 .. k <=> j \in 0 .. k - 1 \/ j = k
    BY <1>2
  <2> QED BY <2>1
<1>19. \A i \in Entry :
          /\ dispatches'[i].value = dispatches[i].value
          /\ dispatches'[i].config_mask = dispatches[i].config_mask
          /\ dispatches'[i].waiting_mask = dispatches[i].waiting_mask
          /\ \A d : d \in dispatches'[i].status_mask <=>
                /\ d \in dispatches[i].status_mask
                /\ d = c => \A j \in 0 .. k : i # entry_after(c, j)
  <2> HIDE DEF id
  <2> QED BY <1>15, <1>16, <1>17, <1>18
\* The position.
<1> DEFINE r == k + 1
<1>20. r \in 0 .. size /\ a + r <= n /\ a + r = a + k + 1 /\ r - 1 = k
  <2>1. k = size => a + k = n
    BY <1>1, BypassEnd
  <2>2. k # size
    BY <1>2, <2>1
  <2> QED BY <1>2, <2>2
<1>21. tail'[c] = (a + r) % size /\ \A d \in Reader \ {c} : tail'[d] = tail[d]
  <2> DEFINE u == a + k
  <2>1. u \in Nat /\ u + 1 = a + r
    BY <1>2
  <2> HIDE DEF u
  <2>2. next_entry(u % size) = (u + 1) % size
    BY <2>1, NextEntry
  <2>3. tail'[c] = next_entry(u % size)
    BY <1>2, <1>3 DEF u
  <2>4. \A d \in Reader \ {c} : tail'[d] = tail[d]
    BY <1>2, <1>3
  <2> QED BY <2>1, <2>2, <2>3, <2>4
<1>22. Lists(Taken(c)', due(c, a + r))
  <2>1. Lists(got[c], due(c, a)) /\ got[c] \in Seq(Nat)
    BY <1>2, <1>4, ItemSeq DEF Ring, Given, Taken
  <2>2. PICK b \in Nat : b = a + k /\ a <= b
    BY <1>2
  <2>3. PICK y \in Nat : y = b + 1
    OBVIOUS
  <2>4. \A m \in a + 1 .. b : c \notin pushed[m]
    BY <1>1, <2>2, BypassEnd
  <2>5. c \in pushed[y]
    BY <1>1, <2>2, <2>3, BypassEnd
  <2>6. due(c, y) = due(c, a) \cup {y}
    BY <2>2, <2>3, <2>4, <2>5, DueSkips
  <2>7. \A m \in due(c, a) : m < y
    BY <2>2, <2>3 DEF due
  <2>8. Taken(c)' = Append(got[c], y) /\ a + r = y
    <3>1. a + r = y /\ a + k + 1 = y
      BY <1>2, <2>2, <2>3
    <3>2. Answering(c)' /\ eu'[c].data = y /\ got' = got
      BY <1>3, <1>11, <3>1
    <3>3. Taken(c)' = Append(got'[c], eu'[c].data)
      BY <3>2, Zenon DEF Taken
    <3> QED BY <3>1, <3>2, <3>3, Zenon
  <2>9. Lists(Append(got[c], y), due(c, a) \cup {y})
    BY <2>1, <2>7, ListsAppend
  <2> QED BY <2>6, <2>8, <2>9
<1>23. \A d \in Reader \ {c} : Taken(d)' = Taken(d)
  BY <1>3, <1>10, <1>12 DEF Taken
<1>24. \A i \in Entry : c \notin dispatches'[i].waiting_mask
  BY <1>4, <1>19 DEF Ring, Parked
<1>25. \E q \in [Reader -> Nat] : Ring(q)'
  <2> HIDE DEF r, id
  <2>1. \A i \in Entry :
            /\ dispatches'[i].value = dispatches[i].value
            /\ dispatches'[i].config_mask = dispatches[i].config_mask
            /\ \A d \in Reader \ {c} :
                  /\ d \in dispatches'[i].status_mask <=> d \in dispatches[i].status_mask
                  /\ d \in dispatches'[i].waiting_mask <=> d \in dispatches[i].waiting_mask
            /\ c \in dispatches'[i].status_mask <=>
                  /\ c \in dispatches[i].status_mask
                  /\ \A j \in 0 .. r - 1 : i # entry_after(c, j)
            /\ c \in dispatches'[i].waiting_mask <=> Asleep(c)' /\ i = tail'[c]
    BY <1>11, <1>19, <1>20, <1>24
  <2>2. \A d \in Reader \ {c} : /\ tail'[d] = tail[d] /\ Asleep(d)' = Asleep(d)
                                /\ Taken(d)' = Taken(d)
    BY <1>12, <1>21, <1>23
  <2>3. UNCHANGED <<fifo_head, pushed>>
    BY <1>3
  <2>4. Asleep(c)' => a + r = n
    BY <1>11
  <2> QED BY <1>1, <1>20, <1>21, <1>22, <2>1, <2>2, <2>3, <2>4, RingMoves
\* The types.
<1>26. TypeOK'
  <2>1. eu' \in [Core -> Unit]
    BY <1>2, <1>9, <1>10
  <2> HIDE DEF id
  <2>2. next_entry(id) \in Entry
    <3>1. id \in Entry /\ size \in Nat \ {0}
      BY <1>2, <1>3
    <3> QED BY <3>1 DEF next_entry, Entry
  <2>3. tail' \in [Core -> Entry]
    BY <1>2, <1>3, <2>2
  <2>4. reads' \subseteq Reader
    BY <1>2, <1>3
  <2> QED BY <1>1, <1>3, <1>17, <2>1, <2>3, <2>4 DEF TypeOK, Unit
<1> QED BY <1>13, <1>25, <1>26 DEF IInv

\* A read that finds nothing.
LEMMA PopSleeps ==
  ASSUME IInv, NEW p \in [Reader -> Nat], Ring(p), NEW c \in Reader, Pop(c),
         NEW a \in Nat, a = p[c], NEW n \in Nat, n = N,
         NEW k \in 0 .. size, k = bypass(c), ~(a + k < n)
  PROVE  IInv'
<1> DEFINE id == entry_after(c, k)
           D  == Cleared(c, k)
           e  == demux_enter(eu[c])
           f  == wait_event([e EXCEPT !.clear_evt_mask = {dispatch_event}], "WAITING_EVENT")
           x  == [D[id] EXCEPT !.waiting_mask = D[id].waiting_mask \cup {c}]
<1>1. TypeOK
  BY DEF IInv
<1>2. /\ eu \in [Core -> Unit] /\ dispatches \in [Entry -> DispatchState]
      /\ tail \in [Core -> Entry] /\ reads \subseteq Reader /\ Reader \subseteq Core
      /\ size \in Nat \ {0} /\ got \in [Core -> Seq(Item)] /\ k \in Nat
  BY <1>1, Types
<1>3. /\ c \notin reads /\ reads' = reads \cup {c}
      /\ UNCHANGED <<fifo_head, config, pushed, got>>
      /\ id = (a + k) % size /\ id \in Entry /\ a + k = n
      /\ eu' = [eu EXCEPT ![c] = f]
      /\ dispatches' = [D EXCEPT ![id] = x]
      /\ tail' = [tail EXCEPT ![c] = id]
  <2>1. /\ c \notin reads /\ reads' = reads \cup {c}
        /\ UNCHANGED <<fifo_head, config, pushed, got>>
        /\ id = (a + k) % size /\ id \in Entry /\ a + k = n
        /\ Parks(c, k)
    BY <1>1, PopEffect
  <2> QED BY <2>1 DEF Parks
\* The unit of the core.
<1>4. Runs(eu[c]) /\ ~Asleep(c) /\ ~Answering(c)
  BY <1>3 DEF IInv, CoreShape, Asleep, Answering
<1>5. e \in Unit /\ Runs(e)
  BY <1>2, <1>4, EnterUnit
<1> HIDE DEF e
<1>6. f = sleeper(e)
  BY <1>5, WaitUnit
<1>7. f \in Unit /\ Sleeps(f)
  BY <1>5, <1>6, SleeperUnit DEF Runs
<1> HIDE DEF f
<1>8. eu'[c] = f /\ \A d \in Reader \ {c} : eu'[d] = eu[d]
  BY <1>2, <1>3
<1>9. Asleep(c)' /\ ~Answering(c)'
  BY <1>3, <1>7, <1>8 DEF Answering, Asleep, Sleeps
<1>10. \A d \in Reader \ {c} : Asleep(d)' = Asleep(d) /\ Answering(d)' = Answering(d)
  BY <1>3, <1>8 DEF Asleep, Answering
<1>11. \A d \in Reader : CoreShape(d)'
  <2>1. CoreShape(c)'
    BY <1>3, <1>7, <1>8, <1>9 DEF CoreShape
  <2>2. \A d \in Reader \ {c} : CoreShape(d)'
    BY <1>3, <1>8, <1>10 DEF IInv, CoreShape
  <2> QED BY <2>1, <2>2
\* The entries.
<1>12. D \in [Entry -> DispatchState]
  <2>1. \A i \in Entry : D[i] \in DispatchState
    BY <1>1, ClearedEntry
  <2>2. D = [i \in Entry |-> D[i]]
    BY DEF Cleared
  <2> QED BY <2>1, <2>2
<1>13. \A i \in Entry :
          /\ D[i].value = dispatches[i].value
          /\ D[i].config_mask = dispatches[i].config_mask
          /\ D[i].waiting_mask = dispatches[i].waiting_mask
          /\ \A d : d \in D[i].status_mask <=>
                /\ d \in dispatches[i].status_mask
                /\ d = c => \A j \in 0 .. k - 1 : i # entry_after(c, j)
  BY <1>1, ClearedEntry
<1> HIDE DEF D
<1>14. /\ x \in DispatchState
       /\ x.value = D[id].value /\ x.config_mask = D[id].config_mask
       /\ x.status_mask = D[id].status_mask
       /\ x.waiting_mask = D[id].waiting_mask \cup {c}
  BY <1>3, <1>12 DEF DispatchState
<1> HIDE DEF x
<1>15. /\ dispatches' \in [Entry -> DispatchState]
       /\ dispatches'[id] = x /\ \A i \in Entry \ {id} : dispatches'[i] = D[i]
  BY <1>3, <1>12, <1>14, ChangedEntry
<1>16. \A i \in Entry :
          /\ dispatches'[i].value = dispatches[i].value
          /\ dispatches'[i].config_mask = dispatches[i].config_mask
          /\ \A d : d \in dispatches'[i].waiting_mask <=>
                d \in dispatches[i].waiting_mask \/ (d = c /\ i = id)
          /\ \A d : d \in dispatches'[i].status_mask <=>
                /\ d \in dispatches[i].status_mask
                /\ d = c => \A j \in 0 .. k - 1 : i # entry_after(c, j)
  <2> HIDE DEF id
  <2> QED BY <1>13, <1>14, <1>15
\* The position.
<1>17. tail'[c] = id /\ \A d \in Reader \ {c} : tail'[d] = tail[d]
  BY <1>2, <1>3
<1>18. Lists(Taken(c)', due(c, a + k))
  <2>1. Lists(got[c], due(c, a))
    BY <1>4 DEF Ring, Given, Taken
  <2>2. PICK b \in Nat : b = a + k /\ a <= b
    BY <1>2
  <2>3. PICK y \in Nat : y = b + 1
    OBVIOUS
  <2>4. \A m \in a + 1 .. b : c \notin pushed[m]
    BY <1>1, <2>2, BypassEnd
  <2>5. due(c, b) = due(c, a)
    BY <2>2, <2>3, <2>4, DueSkips
  <2>6. Taken(c)' = got[c]
    BY <1>3, <1>9 DEF Taken
  <2> QED BY <2>1, <2>2, <2>5, <2>6
<1>19. \A d \in Reader \ {c} : Taken(d)' = Taken(d)
  BY <1>3, <1>8, <1>10 DEF Taken
<1>20. \E q \in [Reader -> Nat] : Ring(q)'
  <2>1. \A i \in Entry : c \in dispatches'[i].waiting_mask <=> Asleep(c)' /\ i = tail'[c]
    BY <1>4, <1>9, <1>16, <1>17 DEF Ring, Parked
  <2>2. \A i \in Entry :
            /\ dispatches'[i].value = dispatches[i].value
            /\ dispatches'[i].config_mask = dispatches[i].config_mask
            /\ \A d \in Reader \ {c} :
                  /\ d \in dispatches'[i].status_mask <=> d \in dispatches[i].status_mask
                  /\ d \in dispatches'[i].waiting_mask <=> d \in dispatches[i].waiting_mask
            /\ c \in dispatches'[i].status_mask <=>
                  /\ c \in dispatches[i].status_mask
                  /\ \A j \in 0 .. k - 1 : i # entry_after(c, j)
            /\ c \in dispatches'[i].waiting_mask <=> Asleep(c)' /\ i = tail'[c]
    BY <1>16, <2>1
  <2>3. \A d \in Reader \ {c} : /\ tail'[d] = tail[d] /\ Asleep(d)' = Asleep(d)
                                /\ Taken(d)' = Taken(d)
    BY <1>10, <1>17, <1>19
  <2>4. UNCHANGED <<fifo_head, pushed>> /\ a + k <= n /\ (Asleep(c)' => a + k = n)
    BY <1>3
  <2>5. tail'[c] = (a + k) % size
    BY <1>3, <1>17
  <2> HIDE DEF id
  <2> QED BY <1>1, <1>18, <2>2, <2>3, <2>4, <2>5, RingMoves
\* The types.
<1>21. TypeOK'
  <2>1. eu' \in [Core -> Unit]
    BY <1>2, <1>3, <1>7
  <2>2. tail' \in [Core -> Entry]
    BY <1>2, <1>3
  <2>3. reads' \subseteq Reader
    BY <1>2, <1>3
  <2> QED BY <1>1, <1>3, <1>15, <2>1, <2>2, <2>3 DEF TypeOK, Unit
<1> QED BY <1>11, <1>20, <1>21 DEF IInv

\* A read.
LEMMA PopStep ==
  ASSUME IInv, NEW c \in Reader, Pop(c)
  PROVE  IInv'
<1>1. TypeOK
  BY DEF IInv
<1>2. PICK p \in [Reader -> Nat] : Ring(p)
  BY DEF IInv
<1>3. PICK n \in Nat : n = N
  BY <1>1, Types
<1>4. PICK a \in Nat : a = p[c]
  BY <1>2
<1>5. PICK k \in 0 .. size : k = bypass(c)
  BY <1>1, <1>2, <1>3, <1>4, BypassEnd
<1>6. CASE a + k < n
  BY <1>2, <1>3, <1>4, <1>5, <1>6, PopReady
<1>7. CASE ~(a + k < n)
  BY <1>2, <1>3, <1>4, <1>5, <1>7, PopSleeps
<1> QED BY <1>6, <1>7

-----------------------------------------------------------------------------
(***************************************************************************)
(* The invariant and what follows from it.                                 *)
(***************************************************************************)

\* The FIFO starts empty and every core at its first entry.
LEMMA InitHolds ==
  ASSUME Init
  PROVE  IInv
<1> DEFINE e == [Core_event_unit_reset EXCEPT !.evt_mask = {dispatch_event}, !.data = 0]
<1>1. /\ eu = [c \in Core |-> e] /\ dispatches = [i \in Entry |-> Dispatch_reset]
      /\ fifo_head = 0 /\ tail = [c \in Core |-> 0] /\ config = {}
      /\ reads = {} /\ pushed = <<>> /\ got = [c \in Core |-> <<>>]
  BY DEF Init
<1>2. size \in Nat \ {0} /\ MaxPush \in Nat /\ Reader \subseteq Core
  BY DispatchAssumption DEF Reader
<1>3. e \in Unit /\ Runs(e)
  <2>1. Idle \in Idle .. 2 /\ Idle \in Idle .. EU_WAKEUP_LATENCY /\ 0 \in Item
    BY <1>2 DEF Idle, EU_WAKEUP_LATENCY, Item
  <2> QED BY <2>1, EventType DEF Core_event_unit_reset, Unit, Core_event_unit, Runs,
            Quiet, PendingReq, Core_state
<1> HIDE DEF e
<1>4. /\ Dispatch_reset \in DispatchState /\ Dispatch_reset.status_mask = {}
      /\ Dispatch_reset.waiting_mask = {}
  <2>1. 0 \in Item
    BY <1>2 DEF Item
  <2> QED BY <2>1 DEF Dispatch_reset, DispatchState, Team
<1>5. 0 \in Entry
  BY <1>2 DEF Entry
<1>6. TypeOK
  <2>1. eu \in [Core -> Unit] /\ dispatches \in [Entry -> DispatchState]
    BY <1>1, <1>3, <1>4
  <2>2. tail \in [Core -> Entry] /\ got \in [Core -> Seq(Item)]
    BY <1>1, <1>5
  <2>3. pushed \in Seq(Team) /\ Len(pushed) <= MaxPush
    BY <1>1, <1>2
  <2> QED BY <1>1, <1>5, <2>1, <2>2, <2>3 DEF TypeOK, Unit, Team
<1>7. \A c \in Reader : CoreShape(c)
  BY <1>1, <1>2, <1>3 DEF CoreShape, Asleep, Answering
<1>8. PICK p \in [Reader -> Nat] : \A c \in Reader : p[c] = 0
  <2>1. [c \in Reader |-> 0] \in [Reader -> Nat]
    OBVIOUS
  <2> QED BY <2>1
<1>9. N = 0 /\ 0 % size = 0
  <2>1. 0 \in 0 .. size - 1 /\ 0 \in Int
    BY <1>2
  <2>2. 0 % size = 0
    BY <1>2, <2>1, ModNear
  <2> QED BY <1>1, <2>2 DEF N
<1>10. Placed(p)
  BY <1>1, <1>2, <1>8, <1>9 DEF Placed
<1>11. Stored(p)
  <2>1. ASSUME NEW m \in N - size + 1 .. N
        PROVE  /\ \A c \in Reader :
                    c \in dispatches[(m - 1) % size].status_mask <=> p[c] < m
               /\ ~(m >= 1)
    <3>1. m \in Int /\ m <= 0 /\ m - 1 \in Int
      BY <1>2, <1>9
    <3>2. (m - 1) % size \in Entry
      BY <3>1, EntryType
    <3> QED BY <1>1, <1>4, <1>8, <3>1, <3>2
  <2> QED BY <2>1, Zenon DEF Stored
<1>12. Parked(p)
  BY <1>1, <1>4 DEF Parked, Asleep
<1>13. Given(p)
  <2>1. ASSUME NEW c \in Reader PROVE Lists(Taken(c), due(c, p[c]))
    <3>1. Taken(c) = <<>>
      BY <1>1, <1>2 DEF Taken, Answering
    <3>2. due(c, p[c]) = {}
      BY <1>8 DEF due
    <3>3. Range(<<>>) = {} /\ DOMAIN <<>> = {}
      BY DEF Range
    <3> QED BY <3>1, <3>2, <3>3 DEF Lists
  <2> QED BY <2>1 DEF Given
<1> QED BY <1>6, <1>7, <1>8, <1>10, <1>11, <1>12, <1>13 DEF IInv, Ring

\* A step that changes nothing.
LEMMA StutterStep ==
  ASSUME IInv, UNCHANGED vars
  PROVE  IInv'
<1>1. TypeOK'
  BY DEF IInv, TypeOK, vars
<1>2. \A c \in Reader : CoreShape(c)'
  BY DEF IInv, CoreShape, Asleep, Answering, vars
<1>3. PICK p \in [Reader -> Nat] : Ring(p)
  BY DEF IInv
<1>4. Ring(p)'
  <2>1. \A c \in Reader : Asleep(c)' = Asleep(c) /\ Taken(c)' = Taken(c)
    BY DEF Asleep, Taken, Answering, vars
  <2>2. UNCHANGED <<dispatches, fifo_head, tail, pushed>>
    BY DEF vars
  <2> QED BY <1>3, <2>1, <2>2, RingSame
<1> QED BY <1>1, <1>2, <1>4 DEF IInv

\* The invariant holds throughout.
THEOREM Invariance == Spec => []IInv
<1>1. Init => IInv
  BY InitHolds
<1>2. IInv /\ [Next]_vars => IInv'
  <2> SUFFICES ASSUME IInv, [Next]_vars PROVE IInv'
    OBVIOUS
  <2>1. CASE Tick
    BY <2>1, TickStep
  <2>2. CASE Push
    BY <2>2, PushStep
  <2>3. ASSUME NEW team \in Team, SetTeam(team) PROVE IInv'
    BY <2>3, SetTeamStep
  <2>4. ASSUME NEW c \in Reader, Pop(c) PROVE IInv'
    BY <2>4, PopStep
  <2>5. ASSUME NEW c \in Reader, Wakeup(c) PROVE IInv'
    BY <2>5, WakeupStep
  <2>6. CASE UNCHANGED vars
    BY <2>6, StutterStep
  <2> QED BY <2>1, <2>2, <2>3, <2>4, <2>5, <2>6 DEF Next
<1> QED BY <1>1, <1>2, PTL DEF Spec

\* Types are preserved: items, entries and units stay in range whatever the
\* number of entries.
THEOREM TypeCorrect == Spec => []TypeOK
<1>1. IInv => TypeOK
  BY DEF IInv
<1> QED BY <1>1, Invariance, PTL

\* Every core reads the items of its teams in the order they were pushed,
\* each once, none missed and none of another team.
THEOREM ItemsInOrder == Spec => []InOrder
<1>1. IInv => InOrder
  <2> SUFFICES ASSUME IInv, NEW c \in Reader
               PROVE  \E k \in 0 .. Len(pushed) : Lists(got[c], due(c, k))
    BY DEF InOrder
  <2>1. PICK p \in [Reader -> Nat] : Ring(p)
    BY DEF IInv
  <2>2. TypeOK
    BY DEF IInv
  <2>3. PICK a \in Nat : a = p[c] /\ a <= Len(pushed) /\ Lists(Taken(c), due(c, a))
    BY <2>1 DEF Ring, Placed, Given, N
  <2>4. Len(pushed) \in Nat /\ got[c] \in Seq(Nat) /\ eu[c] \in Unit
    BY <2>2, Types, ItemSeq DEF N
  <2>5. CASE ~Answering(c)
    <3>1. Lists(got[c], due(c, a)) /\ a \in 0 .. Len(pushed)
      BY <2>3, <2>4, <2>5 DEF Taken
    <3> QED BY <3>1
  <2>6. CASE Answering(c)
    <3>1. PICK x \in Nat : x = eu[c].data
      BY <2>4, DispatchAssumption DEF Unit, Core_event_unit, Item
    <3>2. Lists(Append(got[c], x), due(c, a))
      BY <2>3, <2>6, <3>1 DEF Taken
    <3>3. x \in due(c, a) /\ Lists(got[c], {y \in due(c, a) : y < x})
      BY <2>4, <3>2, ListsFront
    <3>4. x \in 1 .. a
      BY <3>3 DEF due
    <3>5. PICK k \in Nat : k = x - 1
      BY <3>4
    <3>6. {y \in due(c, a) : y < x} = due(c, k)
      BY <3>4, <3>5 DEF due
    <3>7. k \in 0 .. Len(pushed)
      BY <2>3, <2>4, <3>4, <3>5
    <3> QED BY <3>3, <3>6, <3>7
  <2> QED BY <2>5, <2>6
<1> QED BY <1>1, Invariance, PTL

\* A core sleeps only when it has been given everything pushed for it, and it
\* waits at its tail entry, the one the next push fills, and nowhere else.
THEOREM SleepsOnlyAtHead == Spec => []SleepsAtHead
<1>1. IInv => SleepsAtHead
  <2> SUFFICES ASSUME IInv PROVE SleepsAtHead
    OBVIOUS
  <2>1. PICK p \in [Reader -> Nat] : Ring(p)
    BY DEF IInv
  <2>2. TypeOK /\ tail \in [Core -> Entry] /\ Reader \subseteq Core
    BY Types DEF IInv
  <2>3. ASSUME NEW c \in Reader, Asleep(c)
        PROVE  /\ Lists(got[c], due(c, Len(pushed)))
               /\ {i \in Entry : c \in dispatches[i].waiting_mask} = {tail[c]}
               /\ tail[c] = fifo_head
    <3>1. p[c] = Len(pushed) /\ tail[c] = fifo_head
      BY <2>1, <2>3 DEF Ring, Parked, Placed, N
    <3>2. Lists(got[c], due(c, p[c]))
      BY <2>1, <2>3 DEF Ring, Given, Taken, Answering, Asleep
    <3>3. \A i \in Entry : c \in dispatches[i].waiting_mask <=> i = tail[c]
      BY <2>1, <2>3 DEF Ring, Parked
    <3>4. tail[c] \in Entry
      BY <2>2
    <3> QED BY <3>1, <3>2, <3>3, <3>4
  <2>4. ASSUME NEW c \in Reader, ~Asleep(c)
        PROVE  {i \in Entry : c \in dispatches[i].waiting_mask} = {}
    BY <2>1, <2>4 DEF Ring, Parked
  <2> QED BY <2>3, <2>4 DEF SleepsAtHead, Asleep
<1> QED BY <1>1, Invariance, PTL

=============================================================================
