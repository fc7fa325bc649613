--------------------------- MODULE TimerUnitProofs ---------------------------
(***************************************************************************)
(* Proofs about the timer, for every register width and whatever software  *)
(* configures.                                                             *)
(*                                                                         *)
(* A step either lets time pass or synchronises: after an access no cycle  *)
(* has elapsed and the state has been looked at (check_state), so that the *)
(* clock event is in time whatever was waiting before.  What has to be     *)
(* shown is that adding late is adding (the remainders of the division and *)
(* of the register width), that a read, which adds the cycles and does not *)
(* look at the state, keeps the event in time, and that looking at the     *)
(* second counter does not undo what looking at the first one has done.    *)
(***************************************************************************)
EXTENDS TimerUnit, Integers, Sequences, FiniteSets,
        SequenceTheorems, FunctionTheorems, FiniteSetTheorems,
        WellFoundedInduction, TLAPS

-----------------------------------------------------------------------------
(***************************************************************************)
(* Quotients and remainders.                                               *)
(***************************************************************************)

\* Quotient and remainder.
LEMMA DivMod ==
  ASSUME NEW n \in Int, NEW d \in Nat \ {0}
  PROVE  /\ n % d \in 0 .. d - 1
         /\ n \div d \in Int
         /\ n = d * (n \div d) + (n % d)
OBVIOUS

\* Products grow with their factors.
LEMMA Scaled ==
  ASSUME NEW d \in Nat, NEW a \in Int, NEW b \in Int, a <= b
  PROVE  d * a <= d * b
OBVIOUS

\* There is one quotient and one remainder.
LEMMA DivModUnique ==
  ASSUME NEW d \in Nat \ {0}, NEW q \in Int, NEW r \in 0 .. d - 1,
         NEW n \in Int, n = d * q + r
  PROVE  n % d = r /\ n \div d = q
<1> DEFINE p == n \div d
           s == n % d
<1>1. s \in 0 .. d - 1 /\ p \in Int /\ n = d * p + s
  BY DivMod
<1> HIDE DEF p, s
<1>2. CASE p >= q + 1
  <2>1. d * (q + 1) <= d * p
    BY <1>1, <1>2, Scaled
  <2>2. d * (q + 1) = d * q + d
    OBVIOUS
  <2> QED BY <1>1, <2>1, <2>2
<1>3. CASE p + 1 <= q
  <2>1. d * (p + 1) <= d * q
    BY <1>1, <1>3, Scaled
  <2>2. d * (p + 1) = d * p + d
    BY <1>1
  <2> QED BY <1>1, <2>1, <2>2
<1>4. p = q => s = r
  BY <1>1
<1> QED BY <1>1, <1>2, <1>3, <1>4 DEF p, s

\* The quotient of a natural number is one, and not too large.
LEMMA DivNat ==
  ASSUME NEW n \in Nat, NEW d \in Nat \ {0}
  PROVE  /\ n \div d \in Nat
         /\ d * (n \div d) <= n
         /\ n \div d <= n
<1> DEFINE p == n \div d
           s == n % d
<1>1. s \in 0 .. d - 1 /\ p \in Int /\ n = d * p + s
  BY DivMod
<1> HIDE DEF p, s
<1>2. p >= 0
  <2> SUFFICES ASSUME p <= -1 PROVE FALSE
    BY <1>1
  <2>1. d * p <= d * (-1)
    BY <1>1, Scaled
  <2>2. d * (-1) = -d
    OBVIOUS
  <2> QED BY <1>1, <2>1, <2>2
<1>3. p * 1 <= p * d
  BY <1>1, <1>2, Scaled
<1>4. p * d = d * p
  BY <1>1
<1> QED BY <1>1, <1>2, <1>3, <1>4 DEF p, s

\* A quotient that is bounded.
LEMMA DivBound ==
  ASSUME NEW n \in Nat, NEW d \in Nat \ {0}, NEW b \in Nat, n <= d * b
  PROVE  n \div d <= b
<1> DEFINE p == n \div d
           s == n % d
<1>1. s \in 0 .. d - 1 /\ p \in Int /\ n = d * p + s
  BY DivMod
<1> HIDE DEF p, s
<1>2. ASSUME p >= b + 1 PROVE FALSE
  <2>1. d * (b + 1) <= d * p
    BY <1>1, <1>2, Scaled
  <2>2. d * (b + 1) = d * b + d
    OBVIOUS
  <2> QED BY <1>1, <2>1, <2>2
<1> QED BY <1>1, <1>2 DEF p

\* The remainder of a small number, of one a turn larger and of one a turn
\* smaller.
LEMMA ModNear ==
  ASSUME NEW n \in Int, NEW d \in Nat \ {0}
  PROVE  /\ n \in 0 .. d - 1 => n % d = n /\ n \div d = 0
         /\ n \in d .. 2 * d - 1 => n % d = n - d
         /\ n \in -d .. -1 => n % d = n + d
<1>1. ASSUME n \in 0 .. d - 1 PROVE n % d = n /\ n \div d = 0
  BY <1>1, DivModUnique, n = d * 0 + n
<1>2. ASSUME n \in d .. 2 * d - 1 PROVE n % d = n - d
  <2>1. n = d * 1 + (n - d) /\ n - d \in 0 .. d - 1
    BY <1>2
  <2> QED BY <2>1, DivModUnique
<1>3. ASSUME n \in -d .. -1 PROVE n % d = n + d
  <2>1. n = d * (-1) + (n + d) /\ n + d \in 0 .. d - 1
    BY <1>3
  <2> QED BY <2>1, DivModUnique
<1> QED BY <1>1, <1>2, <1>3

\* The remainder of the next number.
LEMMA ModNext ==
  ASSUME NEW n \in Nat, NEW d \in Nat \ {0}
  PROVE  (n + 1) % d = IF n % d = d - 1 THEN 0 ELSE (n % d) + 1
<1> DEFINE p == n \div d
           s == n % d
           m == n + 1
<1>1. s \in 0 .. d - 1 /\ p \in Int /\ n = d * p + s
  BY DivMod
<1>2. m \in Int /\ m = n + 1
  OBVIOUS
<1> HIDE DEF p, s, m
<1>3. CASE s = d - 1
  <2> DEFINE q == p + 1
             z == 0
  <2>1. d * q = d * p + d
    BY <1>1
  <2>4. q \in Int
    BY <1>1
  <2> HIDE DEF q
  <2>2. m = d * q + z /\ z \in 0 .. d - 1
    BY <1>1, <1>2, <1>3, <2>1
  <2> HIDE DEF z
  <2>3. m % d = z
    BY <1>2, <2>2, <2>4, DivModUnique, ZenonT(60)
  <2> QED BY <1>3, <2>3 DEF s, m, z
<1>4. CASE s # d - 1
  <2> DEFINE q == s + 1
  <2>1. m = d * p + q /\ q \in 0 .. d - 1
    BY <1>1, <1>2, <1>4
  <2> HIDE DEF q
  <2>2. m % d = q
    BY <1>1, <1>2, <2>1, DivModUnique, ZenonT(60)
  <2> QED BY <1>4, <2>2 DEF s, m, q
<1> QED BY <1>3, <1>4

\* A remainder may be taken before adding.
LEMMA ModAdd ==
  ASSUME NEW n \in Int, NEW k \in Int, NEW d \in Nat \ {0}
  PROVE  ((n % d) + k) % d = (n + k) % d
<1> DEFINE p == n \div d
           a == n % d
           q == (a + k) \div d
           z == (a + k) % d
<1>1. p \in Int /\ a \in Int /\ n = d * p + a
  BY DivMod
<1>2. q \in Int /\ z \in 0 .. d - 1 /\ a + k = d * q + z
  <2> HIDE DEF a
  <2>1. a + k \in Int
    BY <1>1
  <2> QED BY <2>1, DivMod
<1> HIDE DEF p, a, q, z
<1>3. d * (p + q) = d * p + d * q /\ p + q \in Int
  BY <1>1, <1>2
<1>4. n + k = d * (p + q) + z /\ n + k \in Int
  BY <1>1, <1>2, <1>3
<1>5. (n + k) % d = z
  BY <1>2, <1>3, <1>4, DivModUnique
<1> QED BY <1>5 DEF z, a

\* Remainders may be added in any order.
LEMMA ModSwap ==
  ASSUME NEW n \in Int, NEW j \in Int, NEW k \in Int, NEW d \in Nat \ {0}
  PROVE  (((n + j) % d) + k) % d = (((n + k) % d) + j) % d
<1> DEFINE a == n + j
           b == n + k
<1>1. a \in Int /\ b \in Int /\ a + k = b + j
  OBVIOUS
<1> HIDE DEF a, b
<1>2. ((a % d) + k) % d = (a + k) % d /\ ((b % d) + j) % d = (b + j) % d
  BY <1>1, ModAdd
<1> QED BY <1>1, <1>2 DEF a, b

\* Dividing by one.
LEMMA DivOne ==
  ASSUME NEW n \in Nat
  PROVE  n \div 1 = n
<1>1. n = 1 * n + 0
  OBVIOUS
<1> QED BY <1>1, DivModUnique

\* A remainder is not larger than the number.
LEMMA ModSmaller ==
  ASSUME NEW n \in Nat, NEW d \in Nat \ {0}
  PROVE  n % d \in Nat /\ n % d <= n
<1> DEFINE p == n \div d
           s == n % d
<1>1. s \in 0 .. d - 1 /\ n = d * p + s
  BY DivMod
<1>2. p \in Nat
  BY DivNat
<1> HIDE DEF p, s
<1>3. d * p \in Nat
  BY <1>2
<1> QED BY <1>1, <1>3 DEF s

-----------------------------------------------------------------------------
\* The states of the C++ object.
Timer == [config : [Counter -> Config], is_64 : BOOLEAN,
          value : [Counter -> Reg], compare : [Counter -> Reg],
          prescaler_current : [Counter -> Nat],
          irq_state : [Counter -> BOOLEAN],
          elapsed : 0 .. MaxElapsed, due : Nat \cup {NoEvent}]

\* The clock event is in time for counter c; it is for all of them.
InTime(t, is_64, c) ==
    Armed(t, c) => t.due \in 0 .. get_remaining_cycles(t, is_64, c) - t.elapsed
Punctual(t) ==
    IF t.is_64 THEN Wide(t.compare) > Wide(t.value) => InTime(t, TRUE, 0)
               ELSE InTime(t, FALSE, 0) /\ InTime(t, FALSE, 1)

\* The cascade is not followed beyond its width.
NoWrap(t) == Cascaded(t) => Wide(t.value) + t.elapsed < M * M

\* The inductive invariant.
IInv == TypeOK /\ CountsEveryCycle /\ ArmedInTime /\ NoWrap(timer)

-----------------------------------------------------------------------------
(***************************************************************************)
(* The two counters as one.                                                *)
(***************************************************************************)

\* The registers are not empty and have a width.
LEMMA Width == M \in Nat \ {0} /\ M * M \in Nat /\ 0 \in Reg /\ M - 1 \in Nat
BY TimerAssumption DEF Reg

\* Two registers hold a number of twice the width.
LEMMA WideRange ==
  ASSUME NEW regs \in [Counter -> Reg]
  PROVE  Wide(regs) \in Nat /\ Wide(regs) < M * M
<1> DEFINE h == regs[1]
           l == regs[0]
<1>1. h \in Nat /\ l \in Nat /\ h <= M - 1 /\ l <= M - 1
  BY DEF Counter, Reg
<1>2. M \in Nat \ {0}
  BY Width
<1> HIDE DEF h, l
<1>3. M * h <= M * (M - 1)
  BY <1>1, <1>2, Scaled
<1>4. M * (M - 1) = M * M - M /\ M * h = h * M /\ h * M \in Nat /\ M * M \in Nat
  BY <1>1, <1>2
<1>5. h * M + l \in Nat /\ h * M + l < M * M
  BY <1>1, <1>2, <1>3, <1>4
<1> QED BY <1>5 DEF Wide, h, l

\* The halves of a number are registers.
LEMMA HalvesType ==
  ASSUME NEW v \in Nat
  PROVE  Halves(v) \in [Counter -> Reg]
<1>1. v % M \in Reg /\ v \div M \in Int
  BY DivMod, Width DEF Reg
<1> DEFINE q == v \div M
<1> HIDE DEF q
<1>2. q % M \in Reg
  BY <1>1, DivMod, Width DEF Reg, q
<1> QED BY <1>1, <1>2 DEF Halves, q

\* Splitting the number two registers hold gives the registers.
LEMMA HalvesOfWide ==
  ASSUME NEW regs \in [Counter -> Reg]
  PROVE  Halves(Wide(regs)) = regs
<1> DEFINE h == regs[1]
           l == regs[0]
           w == Wide(regs)
<1>1. h \in 0 .. M - 1 /\ l \in 0 .. M - 1 /\ M \in Nat \ {0}
  BY Width DEF Counter, Reg
<1>2. w \in Int /\ w = M * h + l
  <2>1. h * M = M * h
    BY <1>1
  <2> QED BY <2>1, WideRange DEF Wide
<1>5. regs = [c \in Counter |-> IF c = 0 THEN l ELSE h]
  BY DEF Counter
<1> HIDE DEF h, l, w
<1>3. w % M = l /\ w \div M = h
  BY <1>1, <1>2, DivModUnique
<1>4. h % M = h
  BY <1>1, ModNear
<1>6. Halves(w) = [c \in Counter |-> IF c = 0 THEN l ELSE h]
  BY <1>3, <1>4 DEF Halves
<1> QED BY <1>5, <1>6 DEF w

\* The halves of a number that fits hold it.
LEMMA WideOfHalves ==
  ASSUME NEW v \in Nat, v < M * M
  PROVE  Wide(Halves(v)) = v
<1> DEFINE q == v \div M
           r == v % M
<1>1. /\ q \in Nat /\ r \in 0 .. M - 1 /\ v = M * q + r /\ M * q <= v
      /\ M \in Nat \ {0}
  <2>1. M \in Nat \ {0}
    BY Width
  <2>2. q \in Nat /\ M * q <= v
    BY <2>1, DivNat
  <2>3. r \in 0 .. M - 1 /\ v = M * q + r
    BY <2>1, DivMod
  <2> QED BY <2>1, <2>2, <2>3
<1>3. Halves(v) = [c \in Counter |-> IF c = 0 THEN r ELSE q % M]
  BY DEF Halves
<1> HIDE DEF q, r
<1>2. q <= M - 1
  <2> SUFFICES ASSUME M <= q PROVE FALSE
    BY <1>1
  <2>1. M * M <= M * q
    BY <1>1, Scaled
  <2> QED BY <1>1, <2>1
<1>4. q % M = q
  BY <1>1, <1>2, ModNear
<1>5. Halves(v)[0] = r /\ Halves(v)[1] = q
  BY <1>3, <1>4 DEF Counter
<1>6. q * M = M * q
  BY <1>1
<1> QED BY <1>1, <1>5, <1>6 DEF Wide

\* Counting the number two registers hold: the lower one, and the upper one by
\* the carry.
LEMMA HalvesOfNext ==
  ASSUME NEW regs \in [Counter -> Reg]
  PROVE  Halves(Wide(regs) + 1) =
           [c \in Counter |-> IF c = 0 THEN (regs[0] + 1) % M
                             ELSE (regs[1] + (regs[0] + 1) \div M) % M]
<1> DEFINE h == regs[1]
           j == regs[0] + 1
           q == j \div M
           z == j % M
           w == Wide(regs) + 1
<1>1. h \in Nat /\ j \in Nat /\ M \in Nat \ {0}
  BY Width DEF Counter, Reg
<1>2. w = h * M + j /\ w \in Int
  <2>1. Wide(regs) = h * M + regs[0] /\ regs[0] \in Nat
    BY DEF Wide, Counter, Reg
  <2> HIDE DEF h
  <2>2. h * M \in Nat
    BY <1>1
  <2> QED BY <2>1, <2>2
<1>3. q \in Int /\ z \in 0 .. M - 1 /\ j = M * q + z
  <2> HIDE DEF j
  <2> QED BY <1>1, DivMod
<1>6. Halves(w) = [c \in Counter |-> IF c = 0 THEN w % M ELSE (w \div M) % M]
  BY DEF Halves
<1> HIDE DEF h, j, q, z, w
<1>4. w = M * (h + q) + z /\ h + q \in Int
  BY <1>1, <1>2, <1>3
<1>5. w % M = z /\ w \div M = h + q
  BY <1>1, <1>2, <1>3, <1>4, DivModUnique
<1>7. Halves(w) = [c \in Counter |-> IF c = 0 THEN z ELSE (h + q) % M]
  BY <1>5, <1>6
<1> QED BY <1>7 DEF h, j, q, z, w

-----------------------------------------------------------------------------
(***************************************************************************)
(* Types of the functions of the timer.                                    *)
(***************************************************************************)

\* A counter is divided by one at least.
LEMMA DividerType ==
  ASSUME NEW t \in Timer, NEW c \in Counter
  PROVE  Divider(t, c) \in Nat \ {0} /\ t.config[c] \in Config
BY DEF Divider, Timer, Config

\* The counters stay registers when cycles are added.
LEMMA AdvancedType ==
  ASSUME NEW t \in Timer, NEW n \in Nat
  PROVE  advanced(t, n) \in [Counter -> Reg]
<1>1. t.value \in [Counter -> Reg]
  BY DEF Timer
<1>2. CASE Cascaded(t)
  <2> DEFINE k == n \div Divider(t, 0)
  <2>1. k \in Nat
    BY DividerType, DivNat DEF Counter
  <2> HIDE DEF k
  <2>2. Wide(t.value) + k \in Nat
    BY <1>1, <2>1, WideRange
  <2>3. Halves(Wide(t.value) + k) \in [Counter -> Reg]
    BY <2>2, HalvesType
  <2> QED BY <1>2, <2>3 DEF advanced, k
<1>3. CASE ~Cascaded(t)
  <2>1. ASSUME NEW c \in Counter
        PROVE  (t.value[c] + (n % M) \div Divider(t, c)) % M \in Reg
    <3> DEFINE m == n % M
               k == m \div Divider(t, c)
               v == t.value[c]
    <3>1. m \in Nat
      BY DivMod, Width
    <3> HIDE DEF m
    <3>2. k \in Nat
      BY <3>1, DividerType, DivNat
    <3>3. v \in Nat
      BY <1>1 DEF Reg
    <3> HIDE DEF k, v
    <3>4. v + k \in Int
      BY <3>2, <3>3
    <3>5. (v + k) % M \in Reg
      BY <3>4, DivMod, Width DEF Reg
    <3> QED BY <3>5 DEF m, k, v
  <2> QED BY <1>1, <1>3, <2>1 DEF advanced
<1> QED BY <1>2, <1>3

\* No cycle is nothing to add.
LEMMA AdvancedByNothing ==
  ASSUME NEW t \in Timer
  PROVE  advanced(t, 0) = t.value
<1>1. t.value \in [Counter -> Reg]
  BY DEF Timer
<1>2. \A c \in Counter : 0 \div Divider(t, c) = 0
  <2> TAKE c \in Counter
  <2> DEFINE d == Divider(t, c)
  <2>1. d \in Nat \ {0}
    BY DividerType
  <2> HIDE DEF d
  <2>2. 0 = d * 0 + 0 /\ 0 \in 0 .. d - 1
    BY <2>1
  <2>3. 0 \div d = 0
    BY <2>1, <2>2, DivModUnique
  <2> QED BY <2>3 DEF d
<1>3. CASE Cascaded(t)
  <2>1. Wide(t.value) + 0 \div Divider(t, 0) = Wide(t.value)
    BY <1>1, <1>2, WideRange DEF Counter
  <2> QED BY <1>1, <1>3, <2>1, HalvesOfWide DEF advanced
<1>4. CASE ~Cascaded(t)
  <2>1. 0 % M = 0
    BY Width, ModNear
  <2>2. \A c \in Counter : t.value[c] + 0 = t.value[c] /\ t.value[c] % M = t.value[c]
    BY <1>1, Width, ModNear DEF Reg
  <2>3. \A c \in Counter : (t.value[c] + (0 % M) \div Divider(t, c)) % M = t.value[c]
    BY <1>2, <2>1, <2>2
  <2>4. advanced(t, 0) = [c \in Counter |-> t.value[c]]
    BY <1>4, <2>3 DEF advanced
  <2> QED BY <1>1, <2>4
<1> QED BY <1>3, <1>4

\* A synchronised timer differs by its counters and by the elapsed time.
LEMMA SyncType ==
  ASSUME NEW t \in Timer
  PROVE  /\ sync(t) \in Timer
         /\ sync(t).elapsed = 0
         /\ sync(t).value = advanced(t, t.elapsed)
         /\ sync(t).config = t.config /\ sync(t).is_64 = t.is_64
         /\ sync(t).compare = t.compare /\ sync(t).due = t.due
<1>1. advanced(t, t.elapsed) \in [Counter -> Reg]
  BY AdvancedType DEF Timer
<1>2. 0 \in 0 .. MaxElapsed
  BY TimerAssumption
<1> QED BY <1>1, <1>2 DEF sync, Timer

\* Synchronising makes timers equal that differ by what it brings up to date.
LEMMA SyncSame ==
  ASSUME NEW t \in Timer, NEW u \in Timer,
         t.config = u.config, t.is_64 = u.is_64, t.compare = u.compare,
         t.prescaler_current = u.prescaler_current, t.irq_state = u.irq_state,
         t.due = u.due, advanced(t, t.elapsed) = advanced(u, u.elapsed)
  PROVE  sync(t) = sync(u)
<1> DEFINE v == advanced(t, t.elapsed)
           Made(w) == [config |-> w.config, is_64 |-> w.is_64, value |-> v,
                       compare |-> w.compare,
                       prescaler_current |-> w.prescaler_current,
                       irq_state |-> w.irq_state, elapsed |-> 0, due |-> w.due]
<1>1. sync(t) = [t EXCEPT !.value = v, !.elapsed = 0]
  BY DEF sync
<1>2. sync(u) = [u EXCEPT !.value = v, !.elapsed = 0]
  BY DEF sync
<1> HIDE DEF v
<1>3. sync(t) = Made(t)
  BY <1>1 DEF Timer
<1>4. sync(u) = Made(u)
  BY <1>2 DEF Timer
<1> QED BY <1>3, <1>4

\* Synchronising twice is synchronising once.
LEMMA SyncTwice ==
  ASSUME NEW t \in Timer
  PROVE  sync(sync(t)) = sync(t)
<1> DEFINE s == sync(t)
<1>1. s \in Timer /\ s.elapsed = 0
  BY SyncType
<1> HIDE DEF s
<1>2. advanced(s, 0) = s.value
  BY <1>1, AdvancedByNothing
<1>3. sync(s) = s
  BY <1>1, <1>2 DEF sync, Timer
<1> QED BY <1>3 DEF s

-----------------------------------------------------------------------------
(***************************************************************************)
(* check_state().                                                          *)
(***************************************************************************)

\* How far a counter is from its compare value.
Distance(t, is_64, c) ==
    LET d == (t.compare[c] - t.value[c]) % M
    IN  IF is_64 THEN Wide(t.compare) - Wide(t.value) ELSE IF d = 0 THEN M ELSE d

\* One counter is never on its compare value, or is a whole turn away; the
\* cascade is before it when it has not passed it.
LEMMA DistanceType ==
  ASSUME NEW t \in Timer, NEW is_64 \in BOOLEAN, NEW c \in Counter
  PROVE  /\ Distance(t, is_64, c) \in Int
         /\ ~is_64 => Distance(t, is_64, c) \in 1 .. M
         /\ is_64 => Distance(t, is_64, c) = Wide(t.compare) - Wide(t.value)
         /\ get_remaining_cycles(t, is_64, c) =
                Divider(t, c) * Distance(t, is_64, c)
<1>1. t.value \in [Counter -> Reg] /\ t.compare \in [Counter -> Reg]
  BY DEF Timer
<1>2. Wide(t.compare) \in Nat /\ Wide(t.value) \in Nat
  BY <1>1, WideRange
<1> DEFINE x == t.compare[c] - t.value[c]
           d == x % M
<1>3. x \in Int
  BY <1>1 DEF Reg
<1> HIDE DEF x
<1>4. d \in 0 .. M - 1 /\ M \in Nat \ {0}
  BY <1>3, DivMod, Width
<1> HIDE DEF d
<1>5. Distance(t, is_64, c) =
        IF is_64 THEN Wide(t.compare) - Wide(t.value) ELSE IF d = 0 THEN M ELSE d
  BY DEF Distance, d, x
<1>6. get_remaining_cycles(t, is_64, c) = Divider(t, c) * Distance(t, is_64, c)
  BY DEF get_remaining_cycles, Distance
<1> QED BY <1>2, <1>4, <1>5, <1>6

\* The cycles to a compare value that is ahead.
LEMMA RemainingType ==
  ASSUME NEW t \in Timer, NEW is_64 \in BOOLEAN, NEW c \in Counter
  PROVE  /\ get_remaining_cycles(t, is_64, c) \in Int
         /\ is_64 => (Wide(t.compare) > Wide(t.value)
                        => get_remaining_cycles(t, is_64, c) > 0)
         /\ ~is_64 => get_remaining_cycles(t, is_64, c) > 0
<1> DEFINE d == Divider(t, c)
           x == Distance(t, is_64, c)
<1>1. d \in Nat \ {0} /\ x \in Int
  BY DividerType, DistanceType
<1>2. get_remaining_cycles(t, is_64, c) = d * x
  BY DistanceType
<1>3. x > 0 => d * x > 0
  <2> HIDE DEF d, x
  <2> SUFFICES ASSUME 1 <= x PROVE d * x > 0
    BY <1>1
  <2>1. d * 1 <= d * x
    BY <1>1, Scaled
  <2> QED BY <1>1, <2>1
<1>4. d * x \in Int
  <2> HIDE DEF d, x
  <2> QED BY <1>1
<1>5. is_64 => (Wide(t.compare) > Wide(t.value) => x > 0)
  <2>1. Wide(t.compare) \in Nat /\ Wide(t.value) \in Nat
    BY WideRange DEF Timer
  <2>2. is_64 => x = Wide(t.compare) - Wide(t.value)
    BY DistanceType
  <2> HIDE DEF x
  <2> QED BY <2>1, <2>2
<1>6. ~is_64 => x > 0
  <2>1. ~is_64 => x \in 1 .. M
    BY DistanceType
  <2> HIDE DEF x
  <2> QED BY <2>1, Width
<1> HIDE DEF d, x
<1> QED BY <1>2, <1>3, <1>4, <1>5, <1>6

\* Requesting the clock event makes it come in time for the request and not
\* later for anybody else.
LEMMA Enqueued ==
  ASSUME NEW t \in Timer, NEW n \in Nat
  PROVE  /\ enqueue(t, n) \in Timer
         /\ enqueue(t, n).due \in 0 .. n
         /\ t.due \in Nat => enqueue(t, n).due <= t.due
         /\ enqueue(t, n).config = t.config /\ enqueue(t, n).is_64 = t.is_64
         /\ enqueue(t, n).value = t.value /\ enqueue(t, n).compare = t.compare
         /\ enqueue(t, n).elapsed = t.elapsed
<1>1. t.due \in Nat \cup {NoEvent}
  BY DEF Timer
<1>2. CASE t.due = NoEvent \/ n < t.due
  <2>1. enqueue(t, n) = [t EXCEPT !.due = n]
    BY <1>2 DEF enqueue
  <2>2. t.due \in Nat => n <= t.due
    BY <1>2 DEF NoEvent
  <2> QED BY <2>1, <2>2 DEF Timer
<1>3. CASE ~(t.due = NoEvent \/ n < t.due)
  <2>1. enqueue(t, n) = t
    BY <1>3 DEF enqueue
  <2>2. t.due \in 0 .. n
    BY <1>1, <1>3
  <2> QED BY <2>1, <2>2 DEF Timer
<1> QED BY <1>2, <1>3

\* u is t but for counter c (or for both, in cascade), its configuration
\* and its interrupt.
OnlyCounter(t, u, is_64, c) ==
    /\ u \in Timer
    /\ u.elapsed = t.elapsed /\ u.is_64 = t.is_64 /\ u.compare = t.compare
    /\ \A d \in Counter \ {c} : /\ u.config[d] = t.config[d]
                                /\ ~is_64 => u.value[d] = t.value[d]

\* A value is set.
LEMMA SetValue ==
  ASSUME NEW t \in Timer, NEW is_64 \in BOOLEAN, NEW c \in Counter, NEW v \in Nat
  PROVE  /\ OnlyCounter(t, set_value(t, is_64, c, v), is_64, c)
         /\ set_value(t, is_64, c, v).config = t.config
         /\ set_value(t, is_64, c, v).due = t.due
         /\ set_value(t, is_64, c, v).prescaler_current = t.prescaler_current
<1>1. CASE is_64
  <2>1. set_value(t, is_64, c, v) = [t EXCEPT !.value = Halves(v)]
    BY <1>1 DEF set_value
  <2> QED BY <1>1, <2>1, HalvesType DEF OnlyCounter, Timer
<1>2. CASE ~is_64
  <2>1. set_value(t, is_64, c, v) = [t EXCEPT !.value[c] = v % M]
    BY <1>2 DEF set_value
  <2>2. v % M \in Reg
    BY DivMod, Width DEF Reg
  <2> QED BY <1>2, <2>1, <2>2 DEF OnlyCounter, Timer
<1> QED BY <1>1, <1>2

\* A match.
LEMMA Matched ==
  ASSUME NEW t \in Timer, NEW is_64 \in BOOLEAN, NEW c \in Counter
  PROVE  /\ OnlyCounter(t, matched(t, is_64, c), is_64, c)
         /\ matched(t, is_64, c).due = t.due
<1> DEFINE u == IF t.config[c].cmp_clr THEN set_value(t, is_64, c, 0) ELSE t
<1>1. OnlyCounter(t, u, is_64, c) /\ u.config = t.config /\ u.due = t.due
  BY SetValue DEF OnlyCounter
<1>2. matched(t, is_64, c) =
        [u EXCEPT !.irq_state[c] = t.config[c].irq_enabled,
                  !.config[c].enabled = ~t.config[c].one_shot]
  BY DEF matched
<1> HIDE DEF u
<1>3. /\ t.config[c] \in Config /\ u.config[c] \in Config
      /\ t.config[c].irq_enabled \in BOOLEAN /\ (~t.config[c].one_shot) \in BOOLEAN
  BY <1>1 DEF Timer, OnlyCounter, Config
<1>4. [u.config[c] EXCEPT !.enabled = ~t.config[c].one_shot] \in Config
  BY <1>3 DEF Config
<1>5. u \in Timer /\ u.irq_state \in [Counter -> BOOLEAN] /\ u.config \in [Counter -> Config]
  BY <1>1 DEF OnlyCounter, Timer
<1> DEFINE I == [u.irq_state EXCEPT ![c] = t.config[c].irq_enabled]
           F == [u.config EXCEPT ![c] = [@ EXCEPT !.enabled = ~t.config[c].one_shot]]
           w == [u EXCEPT !.irq_state = I, !.config = F]
<1>6. I \in [Counter -> BOOLEAN] /\ F \in [Counter -> Config]
  BY <1>3, <1>4, <1>5
<1>7. \A d \in Counter \ {c} : F[d] = u.config[d]
  BY <1>5
<1>8. matched(t, is_64, c) = w
  BY <1>2
<1> HIDE DEF I, F
<1>9. /\ w \in Timer /\ w.elapsed = u.elapsed /\ w.is_64 = u.is_64
      /\ w.compare = u.compare /\ w.due = u.due /\ w.config = F /\ w.value = u.value
  BY <1>5, <1>6 DEF Timer
<1> HIDE DEF w
<1> QED BY <1>1, <1>7, <1>8, <1>9 DEF OnlyCounter

\* Looking at a counter arms the clock event for it, in time, and leaves it in
\* time for the other one.
LEMMA CheckedCounter ==
  ASSUME NEW t \in Timer, NEW is_64 \in BOOLEAN, NEW c \in Counter,
         NEW u, u = check_state_counter(t, is_64, c), t.elapsed = 0
  PROVE  /\ OnlyCounter(t, u, is_64, c)
         /\ t.due \in Nat => u.due \in Nat /\ u.due <= t.due
         /\ is_64 => (Wide(u.compare) > Wide(u.value) => InTime(u, TRUE, c))
         /\ ~is_64 => InTime(u, FALSE, c)
<1> DEFINE v == IF /\ t.config[c].enabled
                   /\ get_compare_value(t, is_64, c) = get_value(t, is_64, c)
                THEN matched(t, is_64, c) ELSE [t EXCEPT !.irq_state[c] = FALSE]
           n == get_remaining_cycles(v, is_64, c)
<1>1. OnlyCounter(t, v, is_64, c) /\ v.due = t.due
  <2>1. /\ OnlyCounter(t, [t EXCEPT !.irq_state[c] = FALSE], is_64, c)
        /\ [t EXCEPT !.irq_state[c] = FALSE].due = t.due
    BY DEF OnlyCounter, Timer
  <2> QED BY <2>1, Matched
<1>2. u = IF Armed(v, c) /\ n > 0 THEN enqueue(v, n) ELSE v
  BY DEF check_state_counter
<1> HIDE DEF v
<1>3. /\ n \in Int
      /\ is_64 => (Wide(v.compare) > Wide(v.value) => n > 0)
      /\ ~is_64 => n > 0
  BY <1>1, RemainingType DEF OnlyCounter
<1>4. CASE Armed(v, c) /\ n > 0
  <2> DEFINE w == enqueue(v, n)
  <2>1. /\ w \in Timer /\ w.due \in 0 .. n
        /\ v.due \in Nat => w.due <= v.due
        /\ w.config = v.config /\ w.is_64 = v.is_64
        /\ w.value = v.value /\ w.compare = v.compare /\ w.elapsed = v.elapsed
    <3>1. v \in Timer /\ n \in Nat
      BY <1>1, <1>3, <1>4 DEF OnlyCounter
    <3> HIDE DEF n
    <3> QED BY <3>1, Enqueued
  <2>2. u = w
    BY <1>2, <1>4
  <2>3. get_remaining_cycles(w, is_64, c) = n
    <3> HIDE DEF w
    <3> QED BY <2>1 DEF get_remaining_cycles, Divider
  <2> HIDE DEF w, n
  <2>4. OnlyCounter(t, w, is_64, c)
    BY <1>1, <2>1 DEF OnlyCounter
  <2>5. InTime(w, is_64, c)
    <3>1. w.elapsed = 0
      BY <2>4 DEF OnlyCounter
    <3> QED BY <1>3, <2>1, <2>3, <3>1 DEF InTime
  <2>6. w.due \in Nat
    BY <1>3, <2>1
  <2> QED BY <1>1, <2>1, <2>2, <2>4, <2>5, <2>6
<1>5. CASE ~(Armed(v, c) /\ n > 0)
  <2>1. u = v
    BY <1>2, <1>5
  <2>2. t.due \in Nat => u.due \in Nat /\ u.due <= t.due
    BY <1>1, <2>1
  <2>3. is_64 => (Wide(u.compare) > Wide(u.value) => InTime(u, TRUE, c))
    <3> HIDE DEF n
    <3> QED BY <1>3, <1>5, <2>1 DEF InTime
  <2>4. ~is_64 => InTime(u, FALSE, c)
    <3> HIDE DEF n
    <3> QED BY <1>3, <1>5, <2>1 DEF InTime
  <2> QED BY <1>1, <2>1, <2>2, <2>3, <2>4
<1> QED BY <1>4, <1>5

\* Once the state is looked at, the clock event is in time, whatever waited
\* before.
LEMMA CheckedState ==
  ASSUME NEW t \in Timer, t.elapsed = 0
  PROVE  /\ check_state(t) \in Timer
         /\ check_state(t).elapsed = 0
         /\ Punctual(check_state(t))
<1>1. CASE t.is_64
  <2> DEFINE u == check_state_counter(t, TRUE, 0)
  <2>1. /\ OnlyCounter(t, u, TRUE, 0)
        /\ Wide(u.compare) > Wide(u.value) => InTime(u, TRUE, 0)
    <3>1. u = check_state_counter(t, TRUE, 0) /\ 0 \in Counter
      BY DEF Counter
    <3> HIDE DEF u
    <3> QED BY <3>1, CheckedCounter
  <2>2. check_state(t) = u
    BY <1>1 DEF check_state
  <2> HIDE DEF u
  <2> QED BY <1>1, <2>1, <2>2 DEF OnlyCounter, Punctual
<1>2. CASE ~t.is_64
  <2> DEFINE u == check_state_counter(t, FALSE, 0)
             v == check_state_counter(u, FALSE, 1)
  <2>1. OnlyCounter(t, u, FALSE, 0) /\ InTime(u, FALSE, 0)
    <3>1. u = check_state_counter(t, FALSE, 0) /\ 0 \in Counter
      BY DEF Counter
    <3> HIDE DEF u
    <3> QED BY <3>1, CheckedCounter
  <2>2. check_state(t) = v
    BY <1>2 DEF check_state
  <2> HIDE DEF u
  <2>3. /\ OnlyCounter(u, v, FALSE, 1) /\ InTime(v, FALSE, 1)
        /\ u.due \in Nat => v.due \in Nat /\ v.due <= u.due
    <3>1. u \in Timer /\ u.elapsed = 0 /\ 1 \in Counter
      BY <2>1 DEF OnlyCounter, Counter
    <3> QED BY <3>1, CheckedCounter
  <2> HIDE DEF v
  <2>4. /\ Armed(v, 0) = Armed(u, 0)
        /\ get_remaining_cycles(v, FALSE, 0) = get_remaining_cycles(u, FALSE, 0)
    <3>1. u.config[0] = v.config[0] /\ u.value[0] = v.value[0] /\ u.compare = v.compare
      BY <2>3 DEF OnlyCounter, Counter
    <3> QED BY <3>1 DEF Armed, Clocked, get_remaining_cycles, Divider
  <2>5. InTime(v, FALSE, 0)
    <3> SUFFICES ASSUME Armed(v, 0)
                 PROVE  v.due \in 0 .. get_remaining_cycles(v, FALSE, 0) - v.elapsed
      BY DEF InTime
    <3> DEFINE n == get_remaining_cycles(u, FALSE, 0)
    <3>1. u.elapsed = 0 /\ v.elapsed = 0 /\ u \in Timer /\ 0 \in Counter
      BY <2>1, <2>3 DEF OnlyCounter, Counter
    <3>2. n \in Int
      BY <3>1, RemainingType
    <3>3. u.due \in 0 .. n - 0
      BY <2>1, <2>4, <3>1 DEF InTime
    <3> HIDE DEF n
    <3>4. v.due \in 0 .. n - 0
      BY <2>3, <3>2, <3>3
    <3> QED BY <2>4, <3>1, <3>4 DEF n
  <2> QED BY <1>2, <2>1, <2>2, <2>3, <2>5 DEF OnlyCounter, Punctual
<1> QED BY <1>1, <1>2

-----------------------------------------------------------------------------
(***************************************************************************)
(* The reference clock.                                                    *)
(***************************************************************************)

\* u is t but for the counters and the dividers of the reference clock.
OnlyCounted(t, u) ==
    /\ u \in Timer
    /\ u.config = t.config /\ u.is_64 = t.is_64 /\ u.compare = t.compare
    /\ u.due = t.due /\ u.elapsed = t.elapsed

\* The divider of a counter counts an edge.
LEMMA CheckPrescaler ==
  ASSUME NEW t \in Timer, NEW c \in Counter
  PROVE  /\ OnlyCounted(t, check_prescaler(t, c))
         /\ check_prescaler(t, c).value = t.value
         /\ \A d \in Counter \ {c} :
              check_prescaler(t, c).prescaler_current[d] = t.prescaler_current[d]
<1>1. CASE ~t.config[c].prescaler
  BY <1>1 DEF check_prescaler, OnlyCounted
<1>2. CASE t.config[c].prescaler
  <2> DEFINE n == IF Passes(t, c) THEN 0 ELSE (t.prescaler_current[c] + 1) % M
  <2>1. n \in Nat
    <3> DEFINE m == t.prescaler_current[c] + 1
    <3>1. m \in Int
      BY DEF Timer
    <3> HIDE DEF m
    <3>2. m % M \in Nat
      BY <3>1, DivMod, Width
    <3> QED BY <3>2 DEF m
  <2>2. check_prescaler(t, c) = [t EXCEPT !.prescaler_current[c] = n]
    BY <1>2 DEF check_prescaler, Timer
  <2> HIDE DEF n
  <2> QED BY <2>1, <2>2 DEF OnlyCounted, Timer
<1> QED BY <1>1, <1>2

\* An edge, and one that the counter does not see.
LEMMA Edge ==
  ASSUME NEW t \in Timer, NEW c \in Counter
  PROVE  /\ OnlyCounted(t, edge(t, c))
         /\ ~(Edged(t, c) /\ Passes(t, c)) => edge(t, c).value = t.value
         /\ \A d \in Counter \ {c} :
              edge(t, c).prescaler_current[d] = t.prescaler_current[d]
<1> DEFINE u == check_prescaler(t, c)
           n == get_value(u, t.is_64, c) + 1
           v == set_value(u, t.is_64, c, n)
<1>1. /\ OnlyCounted(t, u) /\ u.value = t.value
      /\ \A d \in Counter \ {c} : u.prescaler_current[d] = t.prescaler_current[d]
  BY CheckPrescaler
<1>2. edge(t, c) = IF ~Edged(t, c) THEN t ELSE IF Passes(t, c) THEN v ELSE u
  BY DEF edge
<1> HIDE DEF u
<1>3. n \in Nat
  <2>1. u.value \in [Counter -> Reg]
    BY <1>1 DEF OnlyCounted, Timer
  <2>2. Wide(u.value) \in Nat /\ u.value[c] \in Nat
    BY <2>1, WideRange DEF Reg
  <2> QED BY <2>2 DEF get_value
<1> HIDE DEF n
<1>4. /\ OnlyCounter(u, v, t.is_64, c) /\ v.config = u.config /\ v.due = u.due
      /\ v.prescaler_current = u.prescaler_current
  <2>1. u \in Timer /\ t.is_64 \in BOOLEAN
    BY <1>1 DEF OnlyCounted, Timer
  <2> QED BY <1>3, <2>1, SetValue
<1> HIDE DEF v
<1>5. OnlyCounted(t, v)
  BY <1>1, <1>4 DEF OnlyCounted, OnlyCounter
<1>6. OnlyCounted(t, t)
  BY DEF OnlyCounted
<1> QED BY <1>1, <1>2, <1>4, <1>5, <1>6

\* The edge of the reference clock for both counters.
LEMMA BothEdges ==
  ASSUME NEW t \in Timer, NEW u, u = edge(edge(t, 0), 1)
  PROVE  /\ OnlyCounted(t, u)
         /\ ~(\E c \in Counter : Edged(t, c) /\ Passes(t, c)) => u.value = t.value
<1> DEFINE v == edge(t, 0)
<1>1. 0 \in Counter /\ 1 \in Counter /\ 1 \in Counter \ {0}
  BY DEF Counter
<1>2. /\ OnlyCounted(t, v)
      /\ ~(Edged(t, 0) /\ Passes(t, 0)) => v.value = t.value
      /\ v.prescaler_current[1] = t.prescaler_current[1]
  BY <1>1, Edge
<1> HIDE DEF v
<1>3. /\ OnlyCounted(v, edge(v, 1))
      /\ ~(Edged(v, 1) /\ Passes(v, 1)) => edge(v, 1).value = v.value
  BY <1>1, <1>2, Edge DEF OnlyCounted
<1>4. u = edge(v, 1)
  BY DEF v
<1>5. Edged(v, 1) = Edged(t, 1) /\ Passes(v, 1) = Passes(t, 1)
  BY <1>2 DEF Edged, Passes, OnlyCounted
<1> QED BY <1>1, <1>2, <1>3, <1>4, <1>5 DEF OnlyCounted

\* What an edge makes of the counter that sees it.
Counted(t, c) ==
    IF t.is_64 THEN Halves(Wide(t.value) + 1)
               ELSE [t.value EXCEPT ![c] = (t.value[c] + 1) % M]

\* A counter that runs with the reference clock is not advanced by cycles, so
\* that its edge may be counted before or after them.
LEMMA CountedLate ==
  ASSUME NEW t \in Timer, NEW c \in Counter, Edged(t, c),
         NEW u \in Timer, u.config = t.config, u.is_64 = t.is_64,
         u.elapsed = t.elapsed, u.value = Counted(t, c)
  PROVE  advanced(u, u.elapsed) = Counted(sync(t), c)
<1> DEFINE e == t.elapsed
           a == [d \in Counter |-> (e % M) \div Divider(t, d)]
           s == sync(t)
<1>1. /\ t.value \in [Counter -> Reg] /\ s.value \in [Counter -> Reg]
      /\ s.is_64 = t.is_64 /\ t.is_64 \in BOOLEAN
  BY SyncType DEF Timer
<1>2. ~Clocked(t, c) /\ ~Cascaded(t) /\ (t.is_64 => c = 0)
  BY DEF Edged, Clocked, Cascaded, Counter
<1>3. \A d \in Counter : s.value[d] = IF Clocked(t, d) THEN (t.value[d] + a[d]) % M
                                      ELSE t.value[d]
  BY <1>2, SyncType DEF advanced
<1>4. \A d \in Counter : a[d] \in Int
  <2> TAKE d \in Counter
  <2>1. e % M \in Int
    BY DivMod, Width DEF Timer
  <2>2. (e % M) \div Divider(t, d) \in Int
    BY <2>1, DivMod, DividerType
  <2> QED BY <2>2
<1>5. advanced(u, u.elapsed) =
        [d \in Counter |-> IF Clocked(t, d) THEN (u.value[d] + a[d]) % M ELSE u.value[d]]
  BY <1>2 DEF advanced, Cascaded, Clocked, Divider
<1> HIDE DEF a, e, s
<1>6. CASE ~t.is_64
  <2>1. u.value = [t.value EXCEPT ![c] = (t.value[c] + 1) % M]
    BY <1>6 DEF Counted
  <2>2. Counted(s, c) = [s.value EXCEPT ![c] = (t.value[c] + 1) % M]
    BY <1>1, <1>2, <1>3, <1>6 DEF Counted
  <2>3. Counted(s, c) =
          [d \in Counter |-> IF d = c THEN (t.value[c] + 1) % M ELSE s.value[d]]
    BY <1>1, <2>2
  <2>4. \A d \in Counter : u.value[d] = IF d = c THEN (t.value[c] + 1) % M ELSE t.value[d]
    BY <1>1, <2>1
  <2> QED BY <1>2, <1>3, <1>5, <2>3, <2>4 DEF s
<1>7. CASE t.is_64
  <2> DEFINE j == t.value[0] + 1
             q == j \div M
             h == t.value[1]
             k == a[1]
  <2>1. 0 \in Counter /\ 1 \in Counter /\ \A d \in Counter : d = 0 \/ d = 1
    BY DEF Counter
  <2>2. u.value = [d \in Counter |-> IF d = 0 THEN j % M ELSE (h + q) % M]
    BY <1>1, <1>7, HalvesOfNext DEF Counted
  <2>3. s.value[0] = t.value[0]
    BY <1>2, <1>3, <1>7, <2>1
  <2>4. Counted(s, c) =
          [d \in Counter |-> IF d = 0 THEN j % M ELSE (s.value[1] + q) % M]
    BY <1>1, <1>7, <2>3, HalvesOfNext DEF Counted
  <2>5. h \in Int /\ q \in Int /\ k \in Int
    <3>1. h \in Int /\ j \in Int
      BY <1>1, <2>1 DEF Reg
    <3> HIDE DEF j
    <3>2. q \in Int
      BY <3>1, DivMod, Width
    <3> QED BY <1>4, <2>1, <3>1, <3>2
  <2>6. s.value[1] = IF Clocked(t, 1) THEN (h + k) % M ELSE h
    BY <1>3, <2>1
  <2> HIDE DEF j, q, h
  <2>7. (((h + q) % M) + k) % M = (((h + k) % M) + q) % M
    <3> HIDE DEF k
    <3> QED BY <2>5, ModSwap, Width
  <2>8. advanced(u, u.elapsed) =
          [d \in Counter |-> IF d = 0 THEN j % M
                            ELSE IF Clocked(t, 1) THEN (((h + q) % M) + k) % M
                            ELSE (h + q) % M]
    BY <1>2, <1>5, <1>7, <2>1, <2>2
  <2> QED BY <2>4, <2>6, <2>7, <2>8 DEF s
<1> QED BY <1>1, <1>6, <1>7

\* An edge is counted before or after the cycles of the clock.
LEMMA EdgeLate ==
  ASSUME NEW t \in Timer, NEW c \in Counter
  PROVE  sync(edge(sync(t), c)) = sync(edge(t, c))
<1> DEFINE s == sync(t)
           ct == check_prescaler(t, c)
           cs == check_prescaler(s, c)
<1>1. /\ s \in Timer /\ s.elapsed = 0 /\ s.value = advanced(t, t.elapsed)
      /\ s.config = t.config /\ s.is_64 = t.is_64 /\ s.compare = t.compare
      /\ s.due = t.due
  BY SyncType
<1>2. s.prescaler_current = t.prescaler_current /\ s.irq_state = t.irq_state
  BY DEF sync, Timer
<1> HIDE DEF s
<1>3. (Edged(s, c) <=> Edged(t, c)) /\ (Passes(s, c) <=> Passes(t, c))
  BY <1>1, <1>2 DEF Edged, Passes
<1>4. CASE ~Edged(t, c)
  <2>1. edge(t, c) = t /\ edge(s, c) = s
    BY <1>3, <1>4 DEF edge
  <2> QED BY <2>1, SyncTwice DEF s
<1>5. CASE Edged(t, c)
  <2>1. /\ OnlyCounted(t, ct) /\ ct.value = t.value
        /\ OnlyCounted(s, cs) /\ cs.value = s.value
    BY <1>1, CheckPrescaler
  <2>2. /\ ct.irq_state = t.irq_state /\ cs.irq_state = t.irq_state
        /\ cs.prescaler_current = ct.prescaler_current
    BY <1>1, <1>2, <1>3 DEF check_prescaler, Timer
  <2>3. CASE ~Passes(t, c)
    <3>1. edge(t, c) = ct /\ edge(s, c) = cs
      BY <1>3, <1>5, <2>3 DEF edge
    <3>2. advanced(ct, ct.elapsed) = advanced(t, t.elapsed)
      BY <2>1 DEF OnlyCounted, advanced, Cascaded, Clocked, Divider
    <3>3. advanced(cs, cs.elapsed) = cs.value
      BY <1>1, <2>1, AdvancedByNothing DEF OnlyCounted
    <3> HIDE DEF ct, cs
    <3>4. sync(cs) = sync(ct)
      BY <1>1, <2>1, <2>2, <3>2, <3>3, SyncSame DEF OnlyCounted
    <3> QED BY <3>1, <3>4 DEF s
  <2>4. CASE Passes(t, c)
    <3> DEFINE vt == set_value(ct, t.is_64, c, get_value(ct, t.is_64, c) + 1)
               vs == set_value(cs, s.is_64, c, get_value(cs, s.is_64, c) + 1)
    <3>1. edge(t, c) = vt /\ edge(s, c) = vs
      BY <1>3, <1>5, <2>4 DEF edge
    <3> HIDE DEF ct, cs
    <3>2. vt = [ct EXCEPT !.value = Counted(t, c)]
      BY <2>1 DEF set_value, get_value, Counted, OnlyCounted, Timer
    <3>3. vs = [cs EXCEPT !.value = Counted(s, c)]
      BY <2>1 DEF set_value, get_value, Counted, OnlyCounted, Timer
    <3> HIDE DEF vt, vs
    <3>4. vt \in Timer /\ vs \in Timer
      BY <1>1, <3>1, Edge DEF OnlyCounted
    <3>5. /\ vt.config = t.config /\ vt.is_64 = t.is_64 /\ vt.elapsed = t.elapsed
          /\ vt.compare = t.compare /\ vt.due = t.due /\ vt.value = Counted(t, c)
          /\ vt.prescaler_current = ct.prescaler_current
          /\ vt.irq_state = t.irq_state
      BY <2>1, <2>2, <3>2 DEF OnlyCounted, Timer
    <3>6. /\ vs.config = t.config /\ vs.is_64 = t.is_64 /\ vs.elapsed = 0
          /\ vs.compare = t.compare /\ vs.due = t.due /\ vs.value = Counted(s, c)
          /\ vs.prescaler_current = ct.prescaler_current
          /\ vs.irq_state = t.irq_state
      BY <1>1, <2>1, <2>2, <3>3 DEF OnlyCounted, Timer
    <3>7. advanced(vt, vt.elapsed) = Counted(s, c)
      BY <1>5, <3>4, <3>5, CountedLate DEF s
    <3>8. advanced(vs, vs.elapsed) = Counted(s, c)
      BY <3>4, <3>6, AdvancedByNothing
    <3>9. sync(vs) = sync(vt)
      BY <3>4, <3>5, <3>6, <3>7, <3>8, SyncSame
    <3> QED BY <3>1, <3>9 DEF s
  <2> QED BY <2>3, <2>4
<1> QED BY <1>4, <1>5

\* So are both.
LEMMA EdgesLate ==
  ASSUME NEW t \in Timer
  PROVE  sync(edge(edge(sync(t), 0), 1)) = sync(edge(edge(t, 0), 1))
<1> DEFINE a == edge(sync(t), 0)
           b == edge(t, 0)
<1>1. 0 \in Counter /\ 1 \in Counter
  BY DEF Counter
<1>2. a \in Timer /\ b \in Timer
  BY <1>1, SyncType, Edge DEF OnlyCounted
<1>3. sync(a) = sync(b)
  BY <1>1, EdgeLate
<1> HIDE DEF a, b
<1>4. sync(edge(sync(a), 1)) = sync(edge(a, 1)) /\ sync(edge(sync(b), 1)) = sync(edge(b, 1))
  BY <1>1, <1>2, EdgeLate
<1> QED BY <1>3, <1>4 DEF a, b

-----------------------------------------------------------------------------
(***************************************************************************)
(* Steps.                                                                  *)
(***************************************************************************)

\* The invariant of the timer in terms of its state.
LEMMA InvariantState ==
  /\ TypeOK <=> timer \in Timer /\ ideal \in [Counter -> Reg] /\ writes \in 0 .. MaxWrites
  /\ ArmedInTime <=> Punctual(timer)
BY DEF TypeOK, Timer, ArmedInTime, Punctual, InTime

\* The exact timer is the synchronised one.
LEMMA ExactIs ==
  ASSUME IInv
  PROVE  Exact = sync(timer)
<1> DEFINE v == [c \in Counter |-> IF Prescaled(timer, c)
                                  THEN sync(timer).value[c] ELSE ideal[c]]
<1>1. timer \in Timer /\ sync(timer).value = advanced(timer, timer.elapsed)
  BY InvariantState, SyncType DEF IInv
<1>2. sync(timer).value \in [Counter -> Reg]
  BY <1>1, SyncType DEF Timer
<1>3. \A c \in Counter : v[c] = sync(timer).value[c]
  BY <1>1 DEF IInv, CountsEveryCycle
<1>4. v = sync(timer).value
  BY <1>2, <1>3
<1>5. Exact = [timer EXCEPT !.value = v, !.elapsed = 0]
  BY DEF Exact
<1> HIDE DEF v
<1> QED BY <1>1, <1>4, <1>5 DEF sync

\* A step that synchronises: the history follows the counters.
LEMMA SyncedStep ==
  ASSUME IInv, NEW t \in Timer, t.elapsed = 0, Punctual(t),
         timer' = t, ideal' = t.value, writes' \in 0 .. MaxWrites
  PROVE  IInv'
<1>1. t.value \in [Counter -> Reg]
  BY DEF Timer
<1>2. TypeOK'
  BY <1>1 DEF TypeOK, Timer
<1>3. CountsEveryCycle'
  <2>1. advanced(t, t.elapsed) = t.value
    BY AdvancedByNothing
  <2> QED BY <2>1 DEF CountsEveryCycle
<1>4. ArmedInTime'
  BY DEF ArmedInTime, Punctual, InTime
<1>5. NoWrap(timer)'
  <2>1. Wide(t.value) \in Nat /\ Wide(t.value) < M * M
    BY <1>1, WideRange
  <2> QED BY <2>1 DEF NoWrap
<1> QED BY <1>2, <1>3, <1>4, <1>5 DEF IInv

\* A step that synchronises and looks at the state.
LEMMA CheckedStep ==
  ASSUME IInv, NEW t \in Timer, t.elapsed = 0, Checked(t, t),
         writes' \in 0 .. MaxWrites
  PROVE  IInv'
<1>1. /\ check_state(t) \in Timer /\ check_state(t).elapsed = 0
      /\ Punctual(check_state(t))
  BY CheckedState
<1>2. timer' = check_state(t) /\ ideal' = check_state(t).value
  BY DEF Checked
<1> QED BY <1>1, <1>2, SyncedStep

-----------------------------------------------------------------------------
(***************************************************************************)
(* A read adds the cycles and leaves the clock event as it is.             *)
(***************************************************************************)

\* The way from x to y on a circle of length M, a whole turn if they are one.
Way(x, y) == IF (y - x) % M = 0 THEN M ELSE (y - x) % M

\* The way without its remainders.
LEMMA WayIs ==
  ASSUME NEW x \in 0 .. M - 1, NEW y \in 0 .. M - 1
  PROVE  Way(x, y) = IF x < y THEN y - x ELSE y - x + M
<1> DEFINE n == y - x
<1>1. n \in Int /\ n = y - x /\ M \in Nat \ {0}
  BY Width
<1> HIDE DEF n
<1>2. CASE x < y
  <2>1. n \in 0 .. M - 1
    BY <1>1, <1>2
  <2>2. n % M = n
    BY <1>1, <2>1, ModNear
  <2> QED BY <1>1, <1>2, <2>1, <2>2 DEF Way, n
<1>3. CASE x = y
  <2>1. n = 0 /\ n \in 0 .. M - 1
    BY <1>1, <1>3
  <2>2. n % M = 0
    BY <1>1, <2>1, ModNear
  <2> QED BY <1>1, <1>3, <2>2 DEF Way, n
<1>4. CASE x > y
  <2>1. n \in -M .. -1
    BY <1>1, <1>4
  <2>2. n % M = n + M
    BY <1>1, <2>1, ModNear
  <2> QED BY <1>1, <1>4, <2>1, <2>2 DEF Way, n
<1> QED BY <1>1, <1>2, <1>3, <1>4

\* Steps that do not lead beyond y shorten the way to it.
LEMMA WayShortens ==
  ASSUME NEW x \in 0 .. M - 1, NEW y \in 0 .. M - 1, NEW k \in Nat,
         k <= Way(x, y)
  PROVE  /\ (x + k) % M \in 0 .. M - 1
         /\ k < Way(x, y) => Way((x + k) % M, y) = Way(x, y) - k
<1> DEFINE n == x + k
           z == n % M
<1>1. n \in Nat /\ n \in Int /\ n = x + k /\ M \in Nat \ {0}
  BY Width
<1> HIDE DEF n
<1>2. z \in 0 .. M - 1
  BY <1>1, DivMod
<1>3. Way(x, y) = IF x < y THEN y - x ELSE y - x + M
  BY WayIs
<1>4. n \in 0 .. 2 * M - 1
  BY <1>1, <1>3
<1>5. z = IF n < M THEN n ELSE n - M
  <2>1. CASE n < M
    <3>1. n \in 0 .. M - 1
      BY <1>1, <1>4, <2>1
    <3> QED BY <1>1, <2>1, <3>1, ModNear
  <2>2. CASE n >= M
    <3>1. n \in M .. 2 * M - 1 /\ ~(n < M)
      BY <1>1, <1>4, <2>2
    <3>2. n % M = n - M
      BY <1>1, <3>1, ModNear
    <3> QED BY <3>1, <3>2
  <2> QED BY <1>1, <2>1, <2>2
<1> HIDE DEF z
<1>6. Way(z, y) = IF z < y THEN y - z ELSE y - z + M
  BY <1>2, WayIs
<1>7. k < Way(x, y) => Way(z, y) = Way(x, y) - k
  BY <1>1, <1>2, <1>3, <1>5, <1>6
<1> QED BY <1>2, <1>7 DEF n, z

\* The event stays in time for a counter that runs alone.
LEMMA SyncInTime ==
  ASSUME NEW t \in Timer, NEW c \in Counter, ~t.is_64, InTime(t, FALSE, c)
  PROVE  InTime(sync(t), FALSE, c)
<1> DEFINE s == sync(t)
           D == Divider(t, c)
           x == t.value[c]
           y == t.compare[c]
           w == Way(x, y)
           e == t.elapsed
           m == e % M
           k == m \div D
<1>1. /\ s \in Timer /\ s.elapsed = 0 /\ s.value = advanced(t, e)
      /\ s.config = t.config /\ s.is_64 = t.is_64
      /\ s.compare = t.compare /\ s.due = t.due
  BY SyncType
<1> HIDE DEF s
<1> SUFFICES ASSUME Armed(s, c)
             PROVE  s.due \in 0 .. get_remaining_cycles(s, FALSE, c) - 0
  BY <1>1 DEF InTime, s
<1>2. Armed(t, c) /\ Clocked(t, c)
  BY <1>1 DEF Armed, Clocked
<1>3. /\ x \in 0 .. M - 1 /\ y \in 0 .. M - 1 /\ D \in Nat \ {0} /\ M \in Nat \ {0}
      /\ e \in Nat
  BY DividerType, Width DEF Timer, Reg
<1>4. get_remaining_cycles(t, FALSE, c) = D * w
  BY DEF get_remaining_cycles, Way
<1>5. t.due \in 0 .. D * w - e
  BY <1>2, <1>4 DEF InTime
<1>6. s.value[c] = (x + k) % M
  BY <1>1, <1>2 DEF advanced, Cascaded
<1>7. get_remaining_cycles(s, FALSE, c) = D * Way((x + k) % M, y)
  BY <1>1, <1>6 DEF get_remaining_cycles, Way, Divider
<1>8. w \in 1 .. M
  <2> HIDE DEF x, y
  <2> QED BY <1>3, WayIs
<1> HIDE DEF D, x, y, e
<1>9. m \in Nat /\ m <= e
  BY <1>3, ModSmaller
<1> HIDE DEF m, w
<1>10. D * w \in Nat /\ e <= D * w
  <2>1. D * w \in Nat
    BY <1>3, <1>8
  <2> QED BY <1>3, <1>5, <2>1
<1>11. k \in Nat /\ D * k <= m
  BY <1>3, <1>9, DivNat
<1>12. k <= w
  <2>1. m <= D * w /\ w \in Nat
    BY <1>3, <1>8, <1>9, <1>10
  <2> QED BY <1>3, <1>9, <2>1, DivBound
<1> HIDE DEF k
<1> DEFINE z == (x + k) % M
<1>13. z \in 0 .. M - 1 /\ (k < w => Way(z, y) = w - k)
  BY <1>3, <1>11, <1>12, WayShortens DEF w
<1> HIDE DEF z
<1>14. Way(z, y) \in 1 .. M
  BY <1>3, <1>13, WayIs
<1>15. t.due \in 0 .. D * Way(z, y)
  <2>1. D * Way(z, y) \in Nat /\ D * k \in Nat
    BY <1>3, <1>11, <1>14
  <2>2. CASE k < w
    <3>1. D * (w - k) = D * w - D * k
      BY <1>3, <1>8, <1>11
    <3>2. D * Way(z, y) = D * w - D * k
      BY <1>13, <2>2, <3>1
    <3> QED BY <1>3, <1>5, <1>9, <1>10, <1>11, <2>1, <3>2
  <2>3. CASE k = w
    <3>1. D * k = D * w
      BY <2>3
    <3>2. t.due = 0
      BY <1>3, <1>5, <1>9, <1>10, <1>11, <2>1, <3>1
    <3> QED BY <2>1, <3>2
  <2> QED BY <1>8, <1>11, <1>12, <2>2, <2>3
<1>16. D * Way(z, y) \in Nat
  BY <1>3, <1>14
<1> DEFINE r == D * Way(z, y)
<1>17. get_remaining_cycles(s, FALSE, c) = r
  BY <1>7 DEF z
<1>18. r \in Nat /\ s.due \in 0 .. r
  BY <1>1, <1>15, <1>16
<1> HIDE DEF r
<1>19. r - 0 = r
  BY <1>18
<1> QED BY <1>17, <1>18, <1>19

\* The event stays in time for the cascade.
LEMMA SyncWideInTime ==
  ASSUME NEW t \in Timer, t.is_64, NoWrap(t),
         Wide(t.compare) > Wide(t.value) => InTime(t, TRUE, 0),
         Wide(sync(t).compare) > Wide(sync(t).value)
  PROVE  InTime(sync(t), TRUE, 0)
<1> DEFINE s == sync(t)
           D == Divider(t, 0)
           x == Wide(t.value)
           y == Wide(t.compare)
           e == t.elapsed
           k == e \div D
<1>1. /\ s \in Timer /\ s.elapsed = 0 /\ s.value = advanced(t, e)
      /\ s.config = t.config /\ s.is_64 = t.is_64
      /\ s.compare = t.compare /\ s.due = t.due
  BY SyncType
<1>0. Wide(s.compare) > Wide(s.value)
  OBVIOUS
<1> HIDE DEF s
<1> SUFFICES ASSUME Armed(s, 0)
             PROVE  s.due \in 0 .. get_remaining_cycles(s, TRUE, 0) - 0
  BY <1>1 DEF InTime, s
<1>2. Armed(t, 0) /\ Cascaded(t)
  BY <1>1 DEF Armed, Clocked, Cascaded
<1>3. /\ x \in Nat /\ y \in Nat /\ D \in Nat \ {0} /\ M \in Nat \ {0} /\ e \in Nat
      /\ M * M \in Nat
  <2>1. 0 \in Counter /\ t.value \in [Counter -> Reg] /\ t.compare \in [Counter -> Reg]
    BY DEF Counter, Timer
  <2>2. e \in Nat
    BY DEF Timer
  <2> QED BY <2>1, <2>2, DividerType, Width, WideRange
<1>4. x + e < M * M
  BY <1>2 DEF NoWrap
<1>5. s.value = Halves(x + k)
  BY <1>1, <1>2 DEF advanced
<1>6. get_remaining_cycles(t, TRUE, 0) = D * (y - x)
  BY DEF get_remaining_cycles
<1>7. get_remaining_cycles(s, TRUE, 0) = D * (y - Wide(s.value))
  BY <1>1 DEF get_remaining_cycles, Divider
<1>8. y > x => t.due \in 0 .. D * (y - x) - e
  BY <1>2, <1>6 DEF InTime
<1>9. Wide(s.compare) = y
  BY <1>1
<1> HIDE DEF D, x, y, e
<1>10. k \in Nat /\ k <= e /\ D * k <= e
  BY <1>3, DivNat
<1> HIDE DEF k
<1>11. Wide(s.value) = x + k
  <2> DEFINE n == x + k
  <2>1. n \in Nat /\ n < M * M
    BY <1>3, <1>4, <1>10
  <2>2. s.value = Halves(n)
    BY <1>5
  <2> HIDE DEF n
  <2>3. Wide(s.value) = n
    BY <2>1, <2>2, WideOfHalves
  <2> QED BY <2>3 DEF n
<1>12. y > x + k /\ y > x
  BY <1>0, <1>3, <1>9, <1>10, <1>11
<1>13. D * (y - (x + k)) = D * (y - x) - D * k
  BY <1>3, <1>10
<1>14. D * (y - x) \in Int /\ D * k \in Int
  BY <1>3, <1>10
<1>15. t.due \in 0 .. D * (y - (x + k))
  BY <1>3, <1>8, <1>10, <1>12, <1>13, <1>14
<1>16. D * (y - (x + k)) \in Int
  BY <1>3, <1>10
<1> DEFINE r == D * (y - (x + k))
<1>17. get_remaining_cycles(s, TRUE, 0) = r
  BY <1>7, <1>11
<1>18. r \in Int /\ s.due \in 0 .. r
  BY <1>1, <1>15, <1>16
<1> HIDE DEF r
<1>19. r - 0 = r
  BY <1>18
<1> QED BY <1>17, <1>18, <1>19

\* Synchronising keeps the clock event in time.
LEMMA SyncPunctual ==
  ASSUME NEW t \in Timer, Punctual(t), NoWrap(t)
  PROVE  Punctual(sync(t))
<1>1. sync(t).is_64 = t.is_64
  BY SyncType
<1>2. CASE t.is_64
  BY <1>1, <1>2, SyncWideInTime DEF Punctual
<1>3. CASE ~t.is_64
  <2>1. 0 \in Counter /\ 1 \in Counter
    BY DEF Counter
  <2>2. InTime(t, FALSE, 0) /\ InTime(t, FALSE, 1)
    BY <1>3 DEF Punctual
  <2>3. InTime(sync(t), FALSE, 0) /\ InTime(sync(t), FALSE, 1)
    BY <1>3, <2>1, <2>2, SyncInTime
  <2> QED BY <1>1, <1>3, <2>3 DEF Punctual
<1> QED BY <1>2, <1>3

-----------------------------------------------------------------------------
(***************************************************************************)
(* One cycle more.                                                         *)
(***************************************************************************)

\* A counter that is not prescaled counts a cycle more, alone.
LEMMA AdvancedByOne ==
  ASSUME NEW v \in Reg, NEW n \in Nat
  PROVE  (v + ((n + 1) % M)) % M = (((v + (n % M)) % M) + 1) % M
<1> DEFINE a == n % M
           b == (n + 1) % M
<1>1. M \in Nat \ {0} /\ v \in 0 .. M - 1
  BY Width DEF Reg
<1>2. a \in 0 .. M - 1 /\ b = IF a = M - 1 THEN 0 ELSE a + 1
  <2>1. a \in 0 .. M - 1
    BY <1>1, DivMod
  <2>2. b = IF a = M - 1 THEN 0 ELSE a + 1
    BY <1>1, ModNext
  <2> QED BY <2>1, <2>2
<1> HIDE DEF a, b
<1> DEFINE x == v + a
           z == x % M
<1>3. x \in Nat /\ x \in Int /\ x = v + a
  BY <1>1, <1>2
<1> HIDE DEF x
<1>4. z \in 0 .. M - 1 /\ (x + 1) % M = IF z = M - 1 THEN 0 ELSE z + 1
  <2>1. z \in 0 .. M - 1
    BY <1>1, <1>3, DivMod
  <2>2. (x + 1) % M = IF z = M - 1 THEN 0 ELSE z + 1
    BY <1>1, <1>3, ModNext
  <2> QED BY <2>1, <2>2
<1> HIDE DEF z
<1>5. z \in Nat /\ z \in Int
  BY <1>1, <1>4
<1>6. (z + 1) % M = IF z = M - 1 THEN 0 ELSE z + 1
  <2>1. z % M = z
    BY <1>1, <1>4, <1>5, ModNear
  <2>2. (z + 1) % M = IF z % M = M - 1 THEN 0 ELSE (z % M) + 1
    BY <1>1, <1>5, ModNext
  <2> QED BY <2>1, <2>2
<1>7. (v + b) % M = (x + 1) % M
  <2>1. CASE a # M - 1
    <3>1. v + b = x + 1
      BY <1>1, <1>2, <1>3, <2>1
    <3> QED BY <3>1
  <2>2. CASE a = M - 1
    <3> DEFINE y == x + 1
    <3>1. y \in Int /\ y = v + M /\ y \in M .. 2 * M - 1
      BY <1>1, <1>2, <1>3, <2>2
    <3> HIDE DEF y
    <3>2. y % M = y - M
      BY <1>1, <3>1, ModNear
    <3>3. v % M = v
      BY <1>1, ModNear
    <3>4. v + b = v /\ y - M = v
      BY <1>1, <1>2, <2>2, <3>1
    <3> QED BY <3>2, <3>3, <3>4 DEF y
  <2> QED BY <2>1, <2>2
<1>8. (v + b) % M = (z + 1) % M
  BY <1>4, <1>6, <1>7
<1> QED BY <1>8 DEF a, b, x, z

\* Time passes for counters that run alone.
LEMMA TickAlone ==
  ASSUME NEW t \in Timer, NEW n \in Nat, NEW c \in Counter, ~Cascaded(t),
         ~Prescaled(t, c)
  PROVE  advanced(t, n + 1)[c] =
            IF Clocked(t, c) THEN (advanced(t, n)[c] + 1) % M ELSE advanced(t, n)[c]
<1>1. Divider(t, c) = 1
  BY DEF Prescaled
<1>2. t.value[c] \in Reg
  BY DEF Timer
<1>3. ASSUME NEW m \in Nat, Clocked(t, c)
      PROVE  advanced(t, m)[c] = (t.value[c] + (m % M)) % M
  <2> DEFINE r == m % M
  <2>1. r \in Nat
    BY DivMod, Width
  <2>2. advanced(t, m)[c] = (t.value[c] + r \div 1) % M
    BY <1>1, <1>3 DEF advanced
  <2> HIDE DEF r
  <2>3. r \div 1 = r
    BY <2>1, DivOne
  <2> QED BY <2>2, <2>3 DEF r
<1>4. CASE Clocked(t, c)
  <2> DEFINE k == n + 1
  <2>1. k \in Nat
    OBVIOUS
  <2> HIDE DEF k
  <2>2. advanced(t, k)[c] = (t.value[c] + (k % M)) % M
    BY <1>3, <1>4, <2>1
  <2>3. advanced(t, n)[c] = (t.value[c] + (n % M)) % M
    BY <1>3, <1>4
  <2>4. (t.value[c] + ((n + 1) % M)) % M = (((t.value[c] + (n % M)) % M) + 1) % M
    BY <1>2, AdvancedByOne
  <2> QED BY <1>4, <2>2, <2>3, <2>4 DEF k
<1>5. CASE ~Clocked(t, c)
  BY <1>5 DEF advanced
<1> QED BY <1>4, <1>5

\* Time passes for the cascade.
LEMMA TickCascade ==
  ASSUME NEW t \in Timer, NEW n \in Nat, Cascaded(t), ~Prescaled(t, 0),
         Wide(t.value) + n + 1 < M * M
  PROVE  advanced(t, n + 1) = Halves(Wide(advanced(t, n)) + 1)
<1> DEFINE w == Wide(t.value)
<1>1. w \in Nat
  BY WideRange DEF Timer
<1>2. \A m \in Nat : advanced(t, m) = Halves(w + m)
  <2> TAKE m \in Nat
  <2>1. Divider(t, 0) = 1
    BY DEF Prescaled
  <2>2. m \div 1 = m
    BY DivOne
  <2> QED BY <2>1, <2>2 DEF advanced
<1> HIDE DEF w
<1> DEFINE x == w + n
           k == n + 1
<1>3. x \in Nat /\ x < M * M /\ k \in Nat /\ w + k = x + 1
  <2>1. w + n + 1 < M * M /\ M * M \in Nat
    BY Width DEF w
  <2> QED BY <1>1, <2>1
<1>4. advanced(t, n) = Halves(x) /\ advanced(t, k) = Halves(w + k)
  BY <1>2, <1>3
<1> HIDE DEF x
<1>5. Wide(Halves(x)) = x
  BY <1>3, WideOfHalves
<1> QED BY <1>3, <1>4, <1>5

\* A cycle passes.
LEMMA TickStep ==
  ASSUME IInv, Tick
  PROVE  IInv'
<1> DEFINE t == timer
           u == timer'
           n == timer.elapsed
<1>1. t \in Timer /\ ideal \in [Counter -> Reg] /\ writes \in 0 .. MaxWrites /\ Punctual(t)
  BY InvariantState DEF IInv
<1>2. n \in Nat /\ n + 1 \in 0 .. MaxElapsed
  BY <1>1, TimerAssumption DEF Timer, Tick
<1>3. t.due \in Nat \cup {NoEvent} /\ t.due # 0
  BY <1>1 DEF Timer, Tick
<1> DEFINE d == IF t.due = NoEvent THEN t.due ELSE t.due - 1
<1>4. d \in Nat \cup {NoEvent}
  BY <1>3
<1>5. u = [t EXCEPT !.elapsed = n + 1, !.due = d]
  BY <1>1 DEF Tick, Timer
<1>6. /\ u \in Timer /\ u.elapsed = n + 1 /\ u.due = d /\ u.config = t.config
      /\ u.is_64 = t.is_64 /\ u.value = t.value /\ u.compare = t.compare
  <2> HIDE DEF d, t, u
  <2>1. n + 1 \in 0 .. MaxElapsed
    BY <1>2
  <2> HIDE DEF n
  <2> QED BY <1>1, <1>4, <1>5, <2>1 DEF Timer
<1>7. /\ Cascaded(u) = Cascaded(t)
      /\ \A c \in Counter : /\ Clocked(u, c) = Clocked(t, c)
                            /\ Prescaled(u, c) = Prescaled(t, c)
                            /\ Armed(u, c) = Armed(t, c)
                            /\ Divider(u, c) = Divider(t, c)
  <2>1. u.config = t.config /\ u.is_64 = t.is_64
    BY <1>6
  <2> HIDE DEF t, u
  <2> QED BY <2>1 DEF Cascaded, Clocked, Prescaled, Armed, Divider
<1>8. \A m : advanced(u, m) = advanced(t, m)
  <2>1. u.config = t.config /\ u.is_64 = t.is_64 /\ u.value = t.value
    BY <1>6
  <2> HIDE DEF t, u
  <2> QED BY <2>1 DEF advanced, Cascaded, Clocked, Divider
<1>9. ideal' \in [Counter -> Reg]
  <2>1. Wide(ideal) + 1 \in Nat
    BY <1>1, WideRange
  <2>2. Halves(Wide(ideal) + 1) \in [Counter -> Reg]
    BY <2>1, HalvesType
  <2>3. \A c \in Counter : (ideal[c] + 1) % M \in Reg /\ ideal[c] \in Reg
    <3> TAKE c \in Counter
    <3> DEFINE x == ideal[c] + 1
    <3>1. x \in Int /\ ideal[c] \in Reg
      BY <1>1 DEF Reg
    <3> HIDE DEF x
    <3>2. x % M \in Reg
      BY <3>1, DivMod, Width DEF Reg
    <3> QED BY <3>1, <3>2 DEF x
  <2> QED BY <2>2, <2>3 DEF Tick
<1>10. TypeOK'
  <2>1. timer' \in Timer /\ writes' = writes
    BY <1>6 DEF Tick
  <2> QED BY <1>1, <1>9, <2>1 DEF TypeOK, Timer
<1>11. CountsEveryCycle'
  <2> SUFFICES ASSUME NEW c \in Counter, ~Prescaled(t, c)
               PROVE  advanced(t, n + 1)[c] = ideal'[c]
    BY <1>6, <1>7, <1>8 DEF CountsEveryCycle
  <2>1. CASE Cascaded(t)
    <3>1. ~Prescaled(t, 0) /\ \A b \in Counter : ~Prescaled(t, b)
      BY <2>1 DEF Prescaled
    <3>2. advanced(t, n) \in [Counter -> Reg]
      BY <1>1, <1>2, AdvancedType
    <3>3. \A b \in Counter : advanced(t, n)[b] = ideal[b]
      BY <3>1 DEF IInv, CountsEveryCycle
    <3>4. advanced(t, n) = ideal
      BY <1>1, <3>2, <3>3
    <3>5. Wide(t.value) + n + 1 < M * M
      BY <2>1 DEF Tick
    <3>6. advanced(t, n + 1) = Halves(Wide(advanced(t, n)) + 1)
      BY <1>1, <1>2, <2>1, <3>1, <3>5, TickCascade
    <3> QED BY <2>1, <3>4, <3>6 DEF Tick
  <2>2. CASE ~Cascaded(t)
    <3>1. advanced(t, n)[c] = ideal[c]
      BY DEF IInv, CountsEveryCycle
    <3>2. advanced(t, n + 1)[c] =
            IF Clocked(t, c) THEN (advanced(t, n)[c] + 1) % M ELSE advanced(t, n)[c]
      BY <1>1, <1>2, <2>2, TickAlone
    <3> QED BY <2>2, <3>1, <3>2 DEF Tick
  <2> QED BY <2>1, <2>2
<1>12. ASSUME NEW is_64 \in BOOLEAN, NEW c \in Counter, InTime(t, is_64, c)
       PROVE  InTime(u, is_64, c)
  <2> SUFFICES ASSUME Armed(u, c)
               PROVE  u.due \in 0 .. get_remaining_cycles(u, is_64, c) - u.elapsed
    BY DEF InTime
  <2> DEFINE r == get_remaining_cycles(t, is_64, c)
  <2>1. get_remaining_cycles(u, is_64, c) = r
    <3>1. Divider(u, c) = Divider(t, c) /\ u.value = t.value /\ u.compare = t.compare
      BY <1>6, <1>7
    <3> HIDE DEF t, u
    <3> QED BY <3>1 DEF get_remaining_cycles
  <2>2. r \in Int
    BY <1>1, RemainingType
  <2>3. t.due \in 0 .. r - n
    BY <1>7, <1>12 DEF InTime
  <2> HIDE DEF r
  <2>4. t.due \in Nat
    BY <1>2, <2>2, <2>3
  <2>5. d = t.due - 1
    BY <2>4 DEF NoEvent
  <2>6. d \in 0 .. r - (n + 1)
    <3>1. t.due # 0
      BY <1>3
    <3> HIDE DEF d, t, n
    <3> QED BY <1>2, <2>2, <2>3, <2>4, <2>5, <3>1
  <2> QED BY <1>6, <2>1, <2>6
<1>13. Punctual(u)
  <2>1. 0 \in Counter /\ 1 \in Counter
    BY DEF Counter
  <2> HIDE DEF t, u
  <2> QED BY <1>1, <1>6, <1>12, <2>1 DEF Punctual
<1>14. ArmedInTime'
  BY <1>13 DEF ArmedInTime, Punctual, InTime
<1>15. NoWrap(timer)'
  <2>1. Cascaded(t) => Wide(t.value) + n + 1 < M * M
    BY DEF Tick
  <2>2. Wide(t.value) \in Nat
    BY <1>1, WideRange DEF Timer
  <2>3. Wide(t.value) + (n + 1) = Wide(t.value) + n + 1
    BY <1>2, <2>2
  <2>4. Cascaded(u) => Wide(u.value) + u.elapsed < M * M
    BY <1>6, <1>7, <2>1, <2>3
  <2> QED BY <2>4 DEF NoWrap
<1> QED BY <1>10, <1>11, <1>14, <1>15 DEF IInv

-----------------------------------------------------------------------------
(***************************************************************************)
(* The other steps.                                                        *)
(***************************************************************************)

\* The clock event.
LEMMA EventStep ==
  ASSUME IInv, event_handler
  PROVE  IInv'
<1> DEFINE v == [timer EXCEPT !.due = NoEvent]
           x == [sync(timer) EXCEPT !.due = NoEvent]
<1>1. timer \in Timer /\ writes \in 0 .. MaxWrites
  BY InvariantState DEF IInv
<1>2. /\ v \in Timer /\ v.config = timer.config /\ v.is_64 = timer.is_64
      /\ v.value = timer.value /\ v.elapsed = timer.elapsed
  BY <1>1 DEF Timer
<1>3. Checked(sync(v), sync(x)) /\ writes' = writes
  BY ExactIs DEF event_handler, fired
<1>4. sync(x) = sync(v)
  <2>1. /\ x \in Timer /\ x.elapsed = 0
        /\ x.value = advanced(timer, timer.elapsed)
    BY <1>1, SyncType DEF Timer
  <2>2. advanced(x, x.elapsed) = advanced(v, v.elapsed)
    <3>1. advanced(v, v.elapsed) = advanced(timer, timer.elapsed)
      BY <1>2 DEF advanced, Cascaded, Clocked, Divider
    <3> QED BY <2>1, <3>1, AdvancedByNothing
  <2>3. /\ x.config = v.config /\ x.is_64 = v.is_64 /\ x.compare = v.compare
        /\ x.prescaler_current = v.prescaler_current
        /\ x.irq_state = v.irq_state /\ x.due = v.due
    BY <1>1 DEF sync, Timer
  <2> QED BY <1>2, <2>1, <2>2, <2>3, SyncSame
<1> HIDE DEF v, x
<1>5. sync(v) \in Timer /\ sync(v).elapsed = 0
  BY <1>2, SyncType
<1> QED BY <1>1, <1>3, <1>4, <1>5, CheckedStep

\* An edge of the reference clock.
LEMMA RefClockStep ==
  ASSUME IInv, ref_clock_sync
  PROVE  IInv'
<1> DEFINE u == edge(edge(timer, 0), 1)
           x == edge(edge(sync(timer), 0), 1)
           seen == \E c \in Counter : Edged(timer, c) /\ Passes(timer, c)
<1>1. timer \in Timer /\ writes \in 0 .. MaxWrites /\ ideal \in [Counter -> Reg]
  BY InvariantState DEF IInv
<1>2. OnlyCounted(timer, u) /\ (~seen => u.value = timer.value)
  BY <1>1, BothEdges
<1>3. /\ \/ seen /\ Checked(sync(u), sync(x))
         \/ ~seen /\ timer' = u /\ UNCHANGED ideal
      /\ writes' = writes
  BY ExactIs DEF ref_clock_sync
<1>6. sync(x) = sync(u)
  BY <1>1, EdgesLate
<1> HIDE DEF u, x, seen
<1>4. CASE Checked(sync(u), sync(x))
  <2>1. sync(u) \in Timer /\ sync(u).elapsed = 0
    BY <1>2, SyncType DEF OnlyCounted
  <2> QED BY <1>1, <1>3, <1>4, <1>6, <2>1, CheckedStep
<1>5. CASE ~seen /\ timer' = u /\ ideal' = ideal
  <2>1. /\ u \in Timer
        /\ u.config = timer.config /\ u.is_64 = timer.is_64
        /\ u.compare = timer.compare /\ u.due = timer.due
        /\ u.elapsed = timer.elapsed /\ u.value = timer.value
    BY <1>2, <1>5 DEF OnlyCounted
  <2>2. TypeOK'
    BY <1>1, <1>3, <1>5, <2>1 DEF TypeOK, Timer
  <2>3. CountsEveryCycle'
    <3>1. CountsEveryCycle
      BY DEF IInv
    <3> QED BY <1>5, <2>1, <3>1
        DEF CountsEveryCycle, Prescaled, advanced, Cascaded, Clocked, Divider
  <2>4. Punctual(u)
    <3>1. Punctual(timer)
      BY InvariantState DEF IInv
    <3> QED BY <2>1, <3>1
        DEF Punctual, InTime, Armed, Clocked, get_remaining_cycles, Divider
  <2>5. ArmedInTime'
    BY <1>5, <2>4 DEF ArmedInTime, Punctual, InTime
  <2>6. NoWrap(timer)'
    BY <1>5, <2>1 DEF IInv, NoWrap, Cascaded, Clocked
  <2> QED BY <2>2, <2>3, <2>5, <2>6 DEF IInv
<1> QED BY <1>3, <1>4, <1>5

\* A read.
LEMMA ReadStep ==
  ASSUME IInv, Read
  PROVE  IInv'
<1>1. timer \in Timer /\ writes \in 0 .. MaxWrites /\ Punctual(timer) /\ NoWrap(timer)
  BY InvariantState DEF IInv
<1>2. sync(timer) \in Timer /\ sync(timer).elapsed = 0 /\ Punctual(sync(timer))
  BY <1>1, SyncType, SyncPunctual
<1>3. /\ timer' = sync(timer) /\ ideal' = sync(timer).value
      /\ writes' \in 0 .. MaxWrites
  BY <1>1, ExactIs, SyncTwice DEF Read
<1> QED BY <1>2, <1>3, SyncedStep

\* The writes of software.
LEMMA WriteStep ==
  ASSUME IInv, NEW c \in Counter, Write(c)
  PROVE  IInv'
<1> DEFINE s == sync(timer)
<1>1. timer \in Timer /\ writes \in 0 .. MaxWrites
  BY InvariantState DEF IInv
<1>2. writes' \in 0 .. MaxWrites
  BY <1>1, TimerAssumption DEF Write
<1>3. s \in Timer /\ s.elapsed = 0
  BY <1>1, SyncType
<1>4. /\ s.config \in [Counter -> Config] /\ s.value \in [Counter -> Reg]
      /\ s.compare \in [Counter -> Reg]
      /\ s.prescaler_current \in [Counter -> Nat]
  BY <1>3 DEF Timer
<1>5. ASSUME NEW t \in Timer, t.elapsed = 0, Checked(t, t)
      PROVE  IInv'
  BY <1>2, <1>5, CheckedStep
<1>0. sync(Exact) = s
  BY <1>1, ExactIs, SyncTwice
<1>6. ASSUME NEW cfg \in Configs[c], Checked(cfg_req(timer, c, cfg), cfg_req(Exact, c, cfg))
      PROVE  IInv'
  <2> DEFINE u == depack_config(s, c, cfg)
             w == IF cfg.reset THEN timer_reset(u, c) ELSE u
  <2>1. cfg \in Config /\ cfg.casc \in BOOLEAN
    <3>1. cfg \in Config
      BY TimerAssumption
    <3> QED BY <3>1 DEF Config
  <2>2. u \in Timer /\ u.elapsed = 0
    <3> HIDE DEF s
    <3>1. u = [s EXCEPT !.config = [s.config EXCEPT ![c] = cfg],
                        !.prescaler_current = [s.prescaler_current EXCEPT ![c] = 0],
                        !.is_64 = IF c = 0 THEN cfg.casc ELSE s.is_64]
      BY <1>3, <1>4 DEF depack_config, Timer
    <3>2. s.is_64 \in BOOLEAN
      BY <1>3 DEF Timer
    <3> HIDE DEF u
    <3> QED BY <1>3, <1>4, <2>1, <3>1, <3>2 DEF Timer
  <2>3. Checked(w, w)
    BY <1>6, <1>0 DEF cfg_req
  <2> HIDE DEF u, s
  <2>4. w \in Timer /\ w.elapsed = 0
    BY <2>2, Width DEF timer_reset, Timer
  <2> HIDE DEF w
  <2> QED BY <1>5, <2>3, <2>4
<1>7. ASSUME NEW v \in Reg, Checked(cnt_req(timer, c, v), cnt_req(Exact, c, v))
      PROVE  IInv'
  <2> DEFINE w == [s EXCEPT !.value[c] = v]
  <2>1. Checked(w, w)
    BY <1>7, <1>0 DEF cnt_req
  <2> HIDE DEF s
  <2>2. w \in Timer /\ w.elapsed = 0
    BY <1>3, <1>4 DEF Timer
  <2> HIDE DEF w
  <2> QED BY <1>5, <2>1, <2>2
<1>8. ASSUME NEW v \in Reg, Checked(cmp_req(timer, c, v), cmp_req(Exact, c, v))
      PROVE  IInv'
  <2> DEFINE w == [s EXCEPT !.compare[c] = v]
  <2>1. Checked(w, w)
    BY <1>8, <1>0 DEF cmp_req
  <2> HIDE DEF s
  <2>2. w \in Timer /\ w.elapsed = 0
    BY <1>3, <1>4 DEF Timer
  <2> HIDE DEF w
  <2> QED BY <1>5, <2>1, <2>2
<1>9. ASSUME Checked(reset_req(timer, c), reset_req(Exact, c)) PROVE IInv'
  <2> DEFINE w == timer_reset(s, c)
  <2>1. Checked(w, w)
    BY <1>9, <1>0 DEF reset_req
  <2> HIDE DEF s
  <2>2. w \in Timer /\ w.elapsed = 0
    BY <1>3, <1>4, Width DEF Timer, timer_reset
  <2> HIDE DEF w
  <2> QED BY <1>5, <2>1, <2>2
<1>10. ASSUME Checked(start_req(timer, c), start_req(Exact, c)) PROVE IInv'
  <2> DEFINE w == [s EXCEPT !.config[c].enabled = TRUE]
  <2>1. Checked(w, w)
    BY <1>10, <1>0 DEF start_req
  <2> HIDE DEF s
  <2>2. [s.config[c] EXCEPT !.enabled = TRUE] \in Config
    BY <1>4, ZenonT(60) DEF Config
  <2>3. w \in Timer /\ w.elapsed = 0
    BY <1>3, <1>4, <2>2 DEF Timer
  <2> HIDE DEF w
  <2> QED BY <1>5, <2>1, <2>3
<1> QED BY <1>6, <1>7, <1>8, <1>9, <1>10 DEF Write

\* A reset of the chip, which keeps the clock event.
LEMMA ResetStep ==
  ASSUME IInv, Reset
  PROVE  IInv'
<1> DEFINE z == [c \in Counter |-> 0]
           u == timer'
<1>1. timer \in Timer
  BY InvariantState DEF IInv
<1>2. Off \in Config /\ z \in [Counter -> Reg] /\ 0 \in 0 .. MaxElapsed /\ 0 \in 0 .. MaxWrites
  BY Width, TimerAssumption DEF Off, Config
<1>3. /\ u \in Timer /\ u.config = [c \in Counter |-> Off] /\ u.is_64 = FALSE
      /\ u.value = z /\ u.elapsed = 0 /\ ideal' = z /\ writes' = 0
  BY <1>1, <1>2 DEF Reset, Timer
<1> HIDE DEF z
<1>4. TypeOK'
  BY <1>2, <1>3 DEF TypeOK, Timer
<1>5. CountsEveryCycle'
  <2>1. advanced(u, u.elapsed) = u.value
    BY <1>3, AdvancedByNothing
  <2> QED BY <1>3, <2>1 DEF CountsEveryCycle
<1>6. ArmedInTime'
  <2>1. \A c \in Counter : ~Armed(u, c)
    BY <1>3 DEF Armed, Clocked, Off
  <2>2. ~Armed(u, 0) /\ ~Armed(u, 1)
    BY <2>1 DEF Counter
  <2>3. Punctual(u)
    BY <2>2 DEF Punctual, InTime
  <2> QED BY <2>3 DEF ArmedInTime, Punctual, InTime
<1>7. NoWrap(timer)'
  BY <1>3 DEF NoWrap, Cascaded
<1> QED BY <1>4, <1>5, <1>6, <1>7 DEF IInv

\* A reset state.
LEMMA InitHolds == Init => IInv
<1> SUFFICES ASSUME Init PROVE IInv
  OBVIOUS
<1> DEFINE z == [c \in Counter |-> 0]
<1>1. Off \in Config /\ z \in [Counter -> Reg] /\ 0 \in 0 .. MaxElapsed /\ 0 \in 0 .. MaxWrites
  BY Width, TimerAssumption DEF Off, Config
<1>2. /\ timer \in Timer /\ timer.config = [c \in Counter |-> Off]
      /\ timer.is_64 = FALSE /\ timer.value = z /\ timer.elapsed = 0
      /\ ideal = z /\ writes = 0
  BY <1>1 DEF Init, Timer
<1> HIDE DEF z
<1>3. TypeOK
  BY <1>1, <1>2 DEF TypeOK, Timer
<1>4. CountsEveryCycle
  <2>1. advanced(timer, timer.elapsed) = timer.value
    BY <1>2, AdvancedByNothing
  <2> QED BY <1>2, <2>1 DEF CountsEveryCycle
<1>5. Punctual(timer)
  <2>1. \A c \in Counter : ~Armed(timer, c)
    BY <1>2 DEF Armed, Clocked, Off
  <2>2. ~Armed(timer, 0) /\ ~Armed(timer, 1)
    BY <2>1 DEF Counter
  <2> QED BY <2>2 DEF Punctual, InTime
<1>6. NoWrap(timer)
  BY <1>2 DEF NoWrap, Cascaded
<1> QED BY <1>3, <1>4, <1>5, <1>6, InvariantState DEF IInv

\* A step that changes nothing.
LEMMA StutterStep ==
  ASSUME IInv, UNCHANGED vars
  PROVE  IInv'
BY DEF vars, IInv, TypeOK, CountsEveryCycle, ArmedInTime, NoWrap, Prescaled,
       advanced, Cascaded, Clocked, Divider, Armed, get_remaining_cycles

-----------------------------------------------------------------------------
(***************************************************************************)
(* The theorems.                                                           *)
(***************************************************************************)

\* Every step of the timer keeps the invariant.
THEOREM Invariance == Spec => []IInv
<1>1. Init => IInv
  BY InitHolds
<1>2. IInv /\ [Next]_vars => IInv'
  <2> SUFFICES ASSUME IInv, [Next]_vars PROVE IInv'
    OBVIOUS
  <2>1. CASE Tick
    BY <2>1, TickStep
  <2>2. CASE event_handler
    BY <2>2, EventStep
  <2>3. CASE ref_clock_sync
    BY <2>3, RefClockStep
  <2>4. CASE Read
    BY <2>4, ReadStep
  <2>5. CASE \E c \in Counter : Write(c)
    BY <2>5, WriteStep
  <2>6. CASE Reset
    BY <2>6, ResetStep
  <2>7. CASE UNCHANGED vars
    BY <2>7, StutterStep
  <2> QED BY <2>1, <2>2, <2>3, <2>4, <2>5, <2>6, <2>7 DEF Next
<1> QED BY <1>1, <1>2, PTL DEF Spec

\* The registers of the timer keep their width and the clock event is either
\* waiting for a number of cycles or not enqueued (timer_v2.cpp).
THEOREM TypeCorrect == Spec => []TypeOK
<1>1. IInv => TypeOK
  BY DEF IInv
<1> QED BY <1>1, Invariance, PTL

\* Counting late is counting (sync, timer_v2.cpp): a counter that adds the
\* cycles when it is accessed holds what one that counts every cycle would,
\* for every register width and every sequence of accesses.
THEOREM LateCountIsExact == Spec => []CountsEveryCycle
<1>1. IInv => CountsEveryCycle
  BY DEF IInv
<1> QED BY <1>1, Invariance, PTL

\* The clock event the two counters share (check_state_counter,
\* timer_v2.cpp) is never later than the match of a counter that needs it.
THEOREM ClockEventInTime == Spec => []ArmedInTime
<1>1. IInv => ArmedInTime
  BY DEF IInv
<1> QED BY <1>1, Invariance, PTL

=============================================================================
