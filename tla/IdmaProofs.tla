----------------------------- MODULE IdmaProofs -----------------------------
(***************************************************************************)
(* Proofs about the iDMA, for every set of transfers, every depth of the   *)
(* queues, every page size and every number of ports.                      *)
(*                                                                         *)
(* Four inductive invariants of the record d, one for each theorem:        *)
(*                                                                         *)
(*   DataInv   the lines handed over, the bursts that are cut and the      *)
(*             words in the buffer are consecutive parts of one stream of  *)
(*             words, the same for both sides (WordsCopiedInOrder);        *)
(*   BusyInv   while the busy wire is low every queue is empty and the bus *)
(*             has nothing to answer, and a beat is held only of a read    *)
(*             that is under way (BusyCoversWork);                         *)
(*   DoneInv   the slots of wlast are the write bursts that are not        *)
(*             acknowledged, and their transfers are numbered on from the  *)
(*             ones that are counted (DoneIdCountsInOrder);                *)
(*   WakeInv   a wait has a tick that ends it (IdmaNeverSleeps).           *)
(*                                                                         *)
(* Each is proved operator by operator: what an operator of IdmaFront and  *)
(* IdmaBack leaves alone, then what it does to the parts it touches.  An   *)
(* action is a composition of operators, and its step one of lemmas.       *)
(***************************************************************************)
EXTENDS Idma, SequenceTheorems, WellFoundedInduction, TLAPS

-----------------------------------------------------------------------------
(***************************************************************************)
(* Numbers.                                                                *)
(***************************************************************************)

\* A set of natural numbers that is not empty has a smallest element.
LEMMA NatHasMin ==
  ASSUME NEW A \in SUBSET Nat, A # {}
  PROVE  \E i \in A : \A j \in A : i <= j
<1> DEFINE R == {ss \in Nat \X Nat : ss[1] < ss[2]}
<1>1. PICK i \in A : \A j \in A : ~(<<j, i>> \in R)
  <2>1. IsWellFoundedOn(R, Nat)
    BY NatLessThanWellFounded, Zenon DEF OpToRel
  <2> HIDE DEF R
  <2> QED BY <2>1, WFMin
<1>2. ASSUME NEW j \in A PROVE i <= j
  <2>1. i \in Nat /\ j \in Nat /\ <<j, i>> \notin R
    BY <1>1
  <2>2. <<j, i>> \in Nat \X Nat => ~(<<j, i>>[1] < <<j, i>>[2])
    BY <2>1, Zenon
  <2> QED BY <2>1, <2>2
<1> QED BY <1>2

\* Min is what it says.
LEMMA MinNat ==
  ASSUME NEW A \in SUBSET Nat, A # {}
  PROVE  Min(A) \in A /\ \A j \in A : Min(A) <= j
BY NatHasMin DEF Min

\* The smaller of two numbers.
LEMMA MinOfTwo ==
  ASSUME NEW a \in Nat, NEW b \in Nat
  PROVE  Min({a, b}) = IF a <= b THEN a ELSE b
<1>1. Min({a, b}) \in {a, b} /\ \A j \in {a, b} : Min({a, b}) <= j
  BY MinNat
<1> QED BY <1>1

\* Products grow with their factors.
LEMMA Scaled ==
  ASSUME NEW n \in Nat, NEW a \in Int, NEW b \in Int, a <= b
  PROVE  a * n <= b * n
OBVIOUS

\* One more line.
LEMMA OneMore ==
  ASSUME NEW a \in Int, NEW n \in Int
  PROVE  (a + 1) * n = a * n + n /\ a * n \in Int
OBVIOUS

\* The line and the word of a place are unique.
LEMMA SplitUnique ==
  ASSUME NEW n \in Nat, NEW a \in Nat, NEW b \in Nat,
         NEW x \in 0 .. n - 1, NEW y \in 0 .. n - 1, a * n + x = b * n + y
  PROVE  a = b /\ x = y
<1>1. a * n \in Int /\ b * n \in Int
  OBVIOUS
<1>2. CASE a + 1 <= b
  <2>1. (a + 1) * n <= b * n
    BY <1>2, Scaled
  <2>2. (a + 1) * n = a * n + n
    BY OneMore
  <2> QED BY <1>1, <2>1, <2>2
<1>3. CASE b + 1 <= a
  <2>1. (b + 1) * n <= a * n
    BY <1>3, Scaled
  <2>2. (b + 1) * n = b * n + n
    BY OneMore
  <2> QED BY <1>1, <2>1, <2>2
<1>4. a = b => x = y
  BY <1>1
<1> QED BY <1>2, <1>3, <1>4

\* A burst has at least one word and no more than there are.
LEMMA BurstSize ==
  ASSUME NEW base \in Int, NEW length \in Nat, NEW left \in Nat \ {0}
  PROVE  burst(base, length, left) \in 1 .. left
<1> DEFINE m == (base + length - left) % page_size
           r == page_size - m
<1>1. page_size \in Nat \ {0}
  BY IdmaBackAssumption
<1>2. m \in 0 .. page_size - 1
  BY <1>1
<1> HIDE DEF m
<1>3. r \in Nat \ {0}
  BY <1>1, <1>2
<1> HIDE DEF r
<1>4. Min({left, r}) = IF left <= r THEN left ELSE r
  BY <1>3, MinOfTwo
<1>5. burst(base, length, left) = Min({left, r})
  BY DEF burst, r, m
<1> QED BY <1>3, <1>4, <1>5

-----------------------------------------------------------------------------
(***************************************************************************)
(* The queues between the blocks.                                          *)
(***************************************************************************)

\* An entry pushed is the last one and not yet visible.
LEMMA PushFifo ==
  ASSUME NEW E, NEW f \in FifoType(E), NEW x \in E, NEW w \in Nat
  PROVE  /\ push(f, x, w) \in FifoType(E) /\ push(f, x, w).popped = f.popped
         /\ Len(push(f, x, w).queue) = Len(f.queue) + 1
         /\ \A i \in 1 .. Len(f.queue) : push(f, x, w).queue[i] = f.queue[i]
         /\ push(f, x, w).queue[Len(f.queue) + 1].entry = x
         /\ push(f, x, w).queue[Len(f.queue) + 1].wait = 1 + w
<1> DEFINE S == [entry : E, wait : Nat]
           y == [entry |-> x, wait |-> 1 + w]
<1>1. f.queue \in Seq(S) /\ f.popped \in Nat /\ y \in S
  BY DEF FifoType
<1>2. push(f, x, w).queue = Append(f.queue, y) /\ push(f, x, w).popped = f.popped
  BY DEF push, FifoType
<1> HIDE DEF y
<1>3. /\ Append(f.queue, y) \in Seq(S) /\ Len(Append(f.queue, y)) = Len(f.queue) + 1
      /\ \A i \in 1 .. Len(f.queue) : Append(f.queue, y)[i] = f.queue[i]
      /\ Append(f.queue, y)[Len(f.queue) + 1] = y
  BY <1>1, AppendProperties
<1>4. push(f, x, w) \in FifoType(E)
  <2>1. push(f, x, w) = [f EXCEPT !.queue = Append(f.queue, y)]
    BY DEF push, y
  <2> QED BY <1>1, <1>3, <2>1 DEF FifoType
<1> QED BY <1>2, <1>3, <1>4 DEF y

\* What is left without the head.
LEMMA TailOf ==
  ASSUME NEW S, NEW q \in Seq(S), q # <<>>
  PROVE  /\ Tail(q) \in Seq(S) /\ Len(q) \in Nat \ {0} /\ Len(Tail(q)) = Len(q) - 1
         /\ \A i \in 1 .. Len(q) - 1 : Tail(q)[i] = q[i + 1]
         /\ Head(q) = q[1] /\ Head(q) \in S
<1>1. Len(q) \in Nat \ {0}
  BY EmptySeq, LenProperties
<1> QED BY <1>1, HeadTailProperties

\* The head leaves and the others move up.
LEMMA PopFifo ==
  ASSUME NEW E, NEW f \in FifoType(E), f.queue # <<>>
  PROVE  /\ pop(f) \in FifoType(E) /\ pop(f).popped = f.popped + 1
         /\ Len(f.queue) \in Nat \ {0} /\ Len(pop(f).queue) = Len(f.queue) - 1
         /\ \A i \in 1 .. Len(f.queue) - 1 : pop(f).queue[i] = f.queue[i + 1]
         /\ head(f) = f.queue[1].entry /\ head(f) \in E
<1> DEFINE S == [entry : E, wait : Nat]
<1>1. f.queue \in Seq(S) /\ f.popped \in Nat
  BY DEF FifoType
<1>2. /\ Tail(f.queue) \in Seq(S) /\ Len(f.queue) \in Nat \ {0}
      /\ Len(Tail(f.queue)) = Len(f.queue) - 1
      /\ \A i \in 1 .. Len(f.queue) - 1 : Tail(f.queue)[i] = f.queue[i + 1]
      /\ Head(f.queue) = f.queue[1] /\ Head(f.queue) \in S
  <2> HIDE DEF S
  <2> QED BY <1>1, TailOf
<1> QED BY <1>1, <1>2 DEF pop, head, FifoType

\* A cycle changes how long entries wait, and nothing else.
LEMMA ClockFifo ==
  ASSUME NEW E, NEW f \in FifoType(E)
  PROVE  /\ clocked(f) \in FifoType(E) /\ clocked(f).popped = 0
         /\ Len(clocked(f).queue) = Len(f.queue)
         /\ \A i \in 1 .. Len(f.queue) :
                /\ clocked(f).queue[i].entry = f.queue[i].entry
                /\ clocked(f).queue[i].wait =
                        IF f.queue[i].wait = 0 THEN 0 ELSE f.queue[i].wait - 1
         /\ clocked(f).queue = <<>> <=> f.queue = <<>>
<1> DEFINE S == [entry : E, wait : Nat]
           g == [i \in DOMAIN f.queue |->
                    [f.queue[i] EXCEPT !.wait = IF @ = 0 THEN 0 ELSE @ - 1]]
<1>1. /\ f.queue \in Seq(S) /\ DOMAIN f.queue = 1 .. Len(f.queue)
      /\ Len(f.queue) \in Nat /\ \A i \in 1 .. Len(f.queue) : f.queue[i] \in S
  BY LenProperties, ElementOfSeq DEF FifoType
<1>2. clocked(f).queue = g /\ clocked(f).popped = 0 /\ clocked(f) = [queue |-> g, popped |-> 0]
  BY DEF clocked
<1>3. \A i \in 1 .. Len(f.queue) :
        /\ g[i] \in S /\ g[i].entry = f.queue[i].entry
        /\ g[i].wait = IF f.queue[i].wait = 0 THEN 0 ELSE f.queue[i].wait - 1
  <2> SUFFICES ASSUME NEW i \in 1 .. Len(f.queue)
               PROVE  /\ g[i] \in S /\ g[i].entry = f.queue[i].entry
                      /\ g[i].wait = IF f.queue[i].wait = 0 THEN 0
                                     ELSE f.queue[i].wait - 1
    OBVIOUS
  <2>1. PICK x \in S : x = f.queue[i]
    BY <1>1
  <2>2. g[i] = [x EXCEPT !.wait = IF x.wait = 0 THEN 0 ELSE x.wait - 1]
    BY <1>1, <2>1
  <2> HIDE DEF g
  <2> QED BY <2>1, <2>2
<1>4. g \in [1 .. Len(f.queue) -> S]
  BY <1>1, <1>3
<1> HIDE DEF g, S
<1>5. g \in Seq(S) /\ Len(g) = Len(f.queue)
  <2>1. PICK n \in Nat : n = Len(f.queue)
    BY <1>1
  <2>2. g \in [1 .. n -> S]
    BY <1>4, <2>1
  <2>3. g \in Seq(S)
    BY <2>2, SeqDef
  <2>4. DOMAIN g = 1 .. n
    BY <2>2
  <2> QED BY <2>1, <2>3, <2>4, LenProperties
<1>6. clocked(f).queue = <<>> <=> f.queue = <<>>
  BY <1>1, <1>2, <1>5, EmptySeq
<1> QED BY <1>1, <1>2, <1>3, <1>5, <1>6 DEF FifoType, S

-----------------------------------------------------------------------------
(***************************************************************************)
(* The transfers launched, and the places of their words.                  *)
(***************************************************************************)
Size(tr) == Lines(tr) * tr.length

\* A transfer has lines, and they have words.
LEMMA TransferFacts ==
  ASSUME NEW tr \in Transfers
  PROVE  /\ tr \in Transfer /\ tr.length \in Nat
         /\ reps(tr, 1) \in Nat \ {0} /\ reps(tr, 2) \in Nat \ {0}
         /\ Lines(tr) \in Nat \ {0} /\ Size(tr) \in Nat
<1>1. tr \in Transfer
  BY IdmaAssumption
<1>2. tr.length \in Nat /\ tr.reps \in Nat \X Nat
  BY <1>1 DEF Transfer
<1>3. reps(tr, 1) \in Nat \ {0} /\ reps(tr, 2) \in Nat \ {0}
  BY <1>2 DEF reps
<1>4. Lines(tr) \in Nat \ {0}
  <2>1. PICK a \in Nat \ {0}, b \in Nat \ {0} : a = reps(tr, 1) /\ b = reps(tr, 2)
    BY <1>3
  <2>2. a * b \in Nat \ {0}
    OBVIOUS
  <2> QED BY <2>1, <2>2 DEF Lines
<1> QED BY <1>1, <1>2, <1>3, <1>4 DEF Size

\* The function that counts the words before a transfer exists.
LEMMA WordsExist ==
  ASSUME NEW L, NEW k \in Nat
  PROVE  \E f : f = [n \in 1 .. k + 1 |->
                        IF n = 1 THEN 0 ELSE f[n - 1] + Lines(L[n - 1]) * L[n - 1].length]
<1> DEFINE P(m) == \E f : f = [n \in 1 .. m + 1 |->
                        IF n = 1 THEN 0 ELSE f[n - 1] + Lines(L[n - 1]) * L[n - 1].length]
           Bad == {m \in Nat : ~P(m)}
<1> SUFFICES ASSUME Bad # {} PROVE FALSE
  <2>1. SUFFICES P(k)
    OBVIOUS
  <2> HIDE DEF P
  <2> QED OBVIOUS
<1>1. PICK m \in Bad : \A j \in Bad : m <= j
  <2> HIDE DEF P
  <2> QED BY NatHasMin
<1>2. P(0)
  <2> DEFINE g == [n \in 1 .. 1 |-> 0]
  <2>1. g = [n \in 1 .. 0 + 1 |->
                IF n = 1 THEN 0 ELSE g[n - 1] + Lines(L[n - 1]) * L[n - 1].length]
    OBVIOUS
  <2> QED BY <2>1
<1>3. m \in Nat \ {0}
  <2> HIDE DEF P
  <2>1. m \in Nat /\ ~P(m)
    BY <1>1
  <2>2. m # 0
    BY <1>2, <2>1, Zenon
  <2> QED BY <2>1, <2>2
<1>4. P(m - 1)
  <2> HIDE DEF P
  <2> QED BY <1>1, <1>3
<1>5. PICK f : f = [n \in 1 .. m |->
                IF n = 1 THEN 0 ELSE f[n - 1] + Lines(L[n - 1]) * L[n - 1].length]
  <2>1. (m - 1) + 1 = m
    BY <1>3
  <2> QED BY <1>4, <2>1
<1> DEFINE g == [n \in 1 .. m + 1 |-> IF n <= m THEN f[n]
                    ELSE f[n - 1] + Lines(L[n - 1]) * L[n - 1].length]
<1>6. ASSUME NEW n \in 1 .. m + 1
      PROVE  g[n] = IF n = 1 THEN 0 ELSE g[n - 1] + Lines(L[n - 1]) * L[n - 1].length
  <2>1. n # 1 => g[n - 1] = f[n - 1]
    BY <1>3
  <2>2. CASE n <= m
    <3>1. n \in 1 .. m /\ g[n] = f[n]
      BY <1>3, <2>2
    <3>2. f[n] = IF n = 1 THEN 0 ELSE f[n - 1] + Lines(L[n - 1]) * L[n - 1].length
      BY <1>5, <3>1
    <3> QED BY <2>1, <3>1, <3>2
  <2>3. CASE ~(n <= m)
    BY <1>3, <2>1, <2>3
  <2> QED BY <2>2, <2>3
<1>7. g = [n \in 1 .. m + 1 |->
                IF n = 1 THEN 0 ELSE g[n - 1] + Lines(L[n - 1]) * L[n - 1].length]
  <2> DEFINE h == [n \in 1 .. m + 1 |->
                IF n = 1 THEN 0 ELSE g[n - 1] + Lines(L[n - 1]) * L[n - 1].length]
  <2>1. \A n \in 1 .. m + 1 : g[n] = h[n]
    BY <1>6
  <2>2. DOMAIN g = 1 .. m + 1 /\ DOMAIN h = 1 .. m + 1
    OBVIOUS
  <2>3. g = [n \in DOMAIN g |-> g[n]] /\ h = [n \in DOMAIN h |-> h[n]]
    OBVIOUS
  <2> HIDE DEF g, h
  <2>4. g = h
    BY <2>1, <2>2, <2>3
  <2> QED BY <2>4 DEF h
<1>8. P(m)
  <2> HIDE DEF g
  <2> QED BY <1>7
<1> QED BY <1>1, <1>8

\* Each transfer has its words before the next one.
LEMMA WordsBeforeDef ==
  ASSUME NEW L \in Seq(Transfers)
  PROVE  /\ WordsBefore(L)[1] = 0
         /\ \A n \in 1 .. Len(L) : WordsBefore(L)[n + 1] = WordsBefore(L)[n] + Size(L[n])
<1> DEFINE W == WordsBefore(L)
<1>1. Len(L) \in Nat
  OBVIOUS
<1>2. W = [n \in 1 .. Len(L) + 1 |->
                IF n = 1 THEN 0 ELSE W[n - 1] + Lines(L[n - 1]) * L[n - 1].length]
  BY <1>1, WordsExist DEF WordsBefore
<1> HIDE DEF W
<1>3. W[1] = 0
  BY <1>1, <1>2
<1>4. ASSUME NEW n \in 1 .. Len(L) PROVE W[n + 1] = W[n] + Size(L[n])
  <2>1. PICK m : m = n + 1
    OBVIOUS
  <2>2. m \in 1 .. Len(L) + 1 /\ m # 1 /\ m - 1 = n
    BY <1>1, <2>1
  <2>3. W[m] = W[m - 1] + Lines(L[m - 1]) * L[m - 1].length
    BY <1>2, <2>2
  <2> QED BY <2>1, <2>2, <2>3 DEF Size
<1> QED BY <1>3, <1>4 DEF W

\* The words before a transfer are a number, and do not become fewer.
LEMMA WordsBeforeNat ==
  ASSUME NEW L \in Seq(Transfers), NEW n \in 1 .. Len(L) + 1
  PROVE  WordsBefore(L)[n] \in Nat
<1> DEFINE W == WordsBefore(L)
           Bad == {k \in Nat : k \in 1 .. Len(L) + 1 /\ W[k] \notin Nat}
<1> SUFFICES ASSUME Bad # {} PROVE FALSE
  OBVIOUS
<1>1. /\ W[1] = 0 /\ Len(L) \in Nat
      /\ \A k \in 1 .. Len(L) : W[k + 1] = W[k] + Size(L[k])
  BY WordsBeforeDef
<1> HIDE DEF W
<1>2. PICK m \in Bad : \A j \in Bad : m <= j
  BY NatHasMin
<1>3. PICK k \in Int : k = m - 1
  BY <1>2
<1>4. k \in 1 .. Len(L) /\ k \notin Bad /\ m = k + 1
  BY <1>1, <1>2, <1>3
<1>5. Size(L[k]) \in Nat
  <2>1. L[k] \in Transfers
    BY <1>4, ElementOfSeq
  <2> QED BY <2>1, TransferFacts
<1>6. W[k] \in Nat
  BY <1>1, <1>4
<1> QED BY <1>1, <1>2, <1>4, <1>5, <1>6

\* The words before a transfer do not become fewer.
LEMMA WordsBeforeGrows ==
  ASSUME NEW L \in Seq(Transfers), NEW m \in 1 .. Len(L) + 1,
         NEW n \in 1 .. Len(L) + 1, m <= n
  PROVE  WordsBefore(L)[m] <= WordsBefore(L)[n]
<1> DEFINE W == WordsBefore(L)
           Bad == {k \in Nat : k \in m .. Len(L) + 1 /\ ~(W[m] <= W[k])}
<1> SUFFICES ASSUME Bad # {} PROVE FALSE
  <2>1. n \in Nat /\ n \in m .. Len(L) + 1
    OBVIOUS
  <2> QED BY <2>1
<1>1. \A k \in 1 .. Len(L) : W[k + 1] = W[k] + Size(L[k])
  BY WordsBeforeDef
<1>2. Len(L) \in Nat /\ \A k \in 1 .. Len(L) + 1 : W[k] \in Nat
  BY WordsBeforeNat
<1> HIDE DEF W
<1>3. PICK b \in Bad : \A j \in Bad : b <= j
  BY NatHasMin
<1>4. PICK k \in Int : k = b - 1
  BY <1>3
<1>5. b # m
  BY <1>2, <1>3
<1>6. k \in m .. Len(L) /\ k \in 1 .. Len(L) /\ k \notin Bad /\ b = k + 1
  BY <1>2, <1>3, <1>4, <1>5
<1>7. Size(L[k]) \in Nat
  <2>1. L[k] \in Transfers
    BY <1>6, ElementOfSeq
  <2> QED BY <2>1, TransferFacts
<1>8. W[m] <= W[k] /\ W[k] \in Nat /\ W[m] \in Nat
  BY <1>2, <1>6
<1> QED BY <1>1, <1>3, <1>6, <1>7, <1>8

\* A launch does not move what was launched before.
LEMMA WordsBeforeLaunch ==
  ASSUME NEW L \in Seq(Transfers), NEW tr \in Transfers, NEW n \in 1 .. Len(L) + 1
  PROVE  WordsBefore(Append(L, tr))[n] = WordsBefore(L)[n]
<1>1. PICK M : M = Append(L, tr)
  OBVIOUS
<1>2. /\ M \in Seq(Transfers) /\ Len(M) = Len(L) + 1 /\ Len(L) \in Nat
      /\ \A i \in 1 .. Len(L) : M[i] = L[i]
  BY <1>1, AppendProperties
<1> DEFINE W == WordsBefore(L)
           V == WordsBefore(M)
           Bad == {k \in Nat : k \in 1 .. Len(L) + 1 /\ V[k] # W[k]}
<1> SUFFICES ASSUME Bad # {} PROVE FALSE
  BY <1>1
<1>3. W[1] = 0 /\ \A k \in 1 .. Len(L) : W[k + 1] = W[k] + Size(L[k])
  BY WordsBeforeDef
<1>4. V[1] = 0 /\ \A k \in 1 .. Len(M) : V[k + 1] = V[k] + Size(M[k])
  BY <1>2, WordsBeforeDef
<1> HIDE DEF W, V
<1>5. PICK b \in Bad : \A j \in Bad : b <= j
  BY NatHasMin
<1>6. PICK k \in Int : k = b - 1
  BY <1>5
<1>7. k \in 1 .. Len(L) /\ k \in 1 .. Len(M) /\ k \notin Bad /\ b = k + 1
  BY <1>2, <1>3, <1>4, <1>5, <1>6
<1>8. V[k] = W[k] /\ M[k] = L[k]
  BY <1>2, <1>7
<1> QED BY <1>3, <1>4, <1>5, <1>7, <1>8

-----------------------------------------------------------------------------
(***************************************************************************)
(* Lines, bursts and words.                                                *)
(***************************************************************************)
\* The line r is one of a transfer that was launched.
IsLine(L, r) ==
    /\ r.nr \in 1 .. Len(L) /\ r.line \in 0 .. Lines(L[r.nr]) - 1
    /\ r = build_1d([nr |-> r.nr, req |-> L[r.nr]], r.line)

\* How many words come before the line.
LineStart(L, r) == WordsBefore(L)[r.nr] + r.line * L[r.nr].length

\* A line is of its transfer, and is inside of it.
LEMMA LineFacts ==
  ASSUME NEW L \in Seq(Transfers), NEW r, IsLine(L, r)
  PROVE  /\ L[r.nr] \in Transfers /\ r.nr \in Nat \ {0} /\ r.line \in Nat
         /\ r.length = L[r.nr].length /\ r.length \in Nat
         /\ r.src \in Int /\ r.dst \in Int
         /\ r.super_last = (r.line + 1 >= Lines(L[r.nr]))
         /\ LineStart(L, r) \in Nat
         /\ WordsBefore(L)[r.nr] <= LineStart(L, r)
         /\ LineStart(L, r) + r.length <= WordsBefore(L)[r.nr + 1]
<1>1. L[r.nr] \in Transfers /\ r.nr \in Nat \ {0} /\ Len(L) \in Nat
  BY ElementOfSeq DEF IsLine
<1>2. PICK tr \in Transfers : tr = L[r.nr]
  BY <1>1
<1>3. /\ tr \in Transfer /\ tr.length \in Nat /\ Lines(tr) \in Nat \ {0}
      /\ reps(tr, 1) \in Nat \ {0}
  BY TransferFacts
<1>4. /\ r.line \in 0 .. Lines(tr) - 1 /\ r.nr \in 1 .. Len(L)
      /\ r = build_1d([nr |-> r.nr, req |-> tr], r.line)
  BY <1>2 DEF IsLine
<1>5. PICK l \in Nat, n \in Nat : l = r.line /\ n = r.nr
  BY <1>1, <1>3, <1>4
<1>6. r = build_1d([nr |-> n, req |-> tr], l)
  BY <1>4, <1>5
<1>7. r.length = tr.length /\ r.super_last = (l + 1 >= Lines(tr))
  BY <1>6 DEF build_1d, Lines
<1>8. r.src \in Int /\ r.dst \in Int
  <2>1. /\ tr.src \in Nat /\ tr.dst \in Nat
        /\ tr.src_stride \in Int \X Int /\ tr.dst_stride \in Int \X Int
    BY <1>3 DEF Transfer
  <2>2. PICK a \in Int, b \in Int, x \in Int, y \in Int :
            /\ a = tr.src_stride[1] /\ b = tr.src_stride[2]
            /\ x = tr.dst_stride[1] /\ y = tr.dst_stride[2]
    BY <2>1
  <2>3. PICK k \in Int : k = l \div reps(tr, 1)
    BY <1>3
  <2>4. tr.src + (l - k) * a + k * b \in Int /\ tr.dst + (l - k) * x + k * y \in Int
    <3>1. PICK i \in Int, j \in Int, m \in Int : i = tr.src /\ j = tr.dst /\ m = l - k
      BY <2>1
    <3>2. m * a \in Int /\ k * b \in Int /\ m * x \in Int /\ k * y \in Int
      OBVIOUS
    <3>3. i + m * a + k * b \in Int /\ j + m * x + k * y \in Int
      BY <3>2
    <3> QED BY <3>1, <3>3
  <2>5. /\ r.src = line_addr(tr, tr.src, tr.src_stride, l)
        /\ r.dst = line_addr(tr, tr.dst, tr.dst_stride, l)
    BY <1>6 DEF build_1d
  <2> QED BY <2>2, <2>3, <2>4, <2>5 DEF line_addr
<1>9. /\ WordsBefore(L)[n] \in Nat
      /\ WordsBefore(L)[n + 1] = WordsBefore(L)[n] + Lines(tr) * tr.length
  BY <1>1, <1>2, <1>4, <1>5, WordsBeforeDef, WordsBeforeNat DEF Size
<1>10. PICK len \in Nat, nl \in Nat : len = tr.length /\ nl = Lines(tr)
  BY <1>3
<1>11. PICK p \in Nat, q \in Nat : p = l * len /\ q = nl * len
  OBVIOUS
<1>12. p + len <= q
  <2>1. (l + 1) * len <= nl * len
    <3>1. l + 1 \in Int /\ nl \in Int /\ l + 1 <= nl
      BY <1>3, <1>4, <1>5, <1>10
    <3> QED BY <3>1, Scaled
  <2>2. (l + 1) * len = l * len + len
    OBVIOUS
  <2> QED BY <1>11, <2>1, <2>2
<1>13. LineStart(L, r) = WordsBefore(L)[n] + p
  BY <1>2, <1>5, <1>10, <1>11 DEF LineStart
<1>14. WordsBefore(L)[n + 1] = WordsBefore(L)[n] + q
  BY <1>9, <1>10, <1>11
<1>15. LineStart(L, r) \in Nat /\ WordsBefore(L)[n] <= LineStart(L, r)
       /\ LineStart(L, r) + len <= WordsBefore(L)[n + 1]
  BY <1>9, <1>12, <1>13, <1>14
<1> QED BY <1>1, <1>2, <1>3, <1>5, <1>7, <1>8, <1>10, <1>15

\* A word is inside of its transfer.
LEMMA WordFacts ==
  ASSUME NEW L \in Seq(Transfers), NEW x \in [nr : Nat, line : Nat, word : Nat],
         IsWord(L, x)
  PROVE  /\ WordsBefore(L)[x.nr] \in Nat /\ WordsBefore(L)[x.nr + 1] \in Nat
         /\ Place(L, x) \in Nat /\ x.nr \in 1 .. Len(L)
         /\ WordsBefore(L)[x.nr] <= Place(L, x)
         /\ Place(L, x) < WordsBefore(L)[x.nr + 1]
<1>1. x.nr \in 1 .. Len(L) /\ Len(L) \in Nat
  BY LenProperties DEF IsWord
<1>2. PICK tr \in Transfers : tr = L[x.nr]
  BY <1>1, ElementOfSeq
<1>3. tr.length \in Nat /\ Lines(tr) \in Nat \ {0}
  BY TransferFacts
<1>4. PICK n \in Nat, l \in Nat, k \in Nat : n = x.nr /\ l = x.line /\ k = x.word
  OBVIOUS
<1>6. PICK len \in Nat, nl \in Nat : len = tr.length /\ nl = Lines(tr)
  BY <1>3
<1>5. l + 1 <= nl /\ k < len
  BY <1>2, <1>4, <1>6 DEF IsWord
<1>7. PICK p \in Nat, q \in Nat : p = l * len /\ q = nl * len
  OBVIOUS
<1>8. p + len <= q
  <2>1. (l + 1) * len <= nl * len
    BY <1>5, Scaled
  <2>2. (l + 1) * len = l * len + len
    OBVIOUS
  <2> QED BY <1>7, <2>1, <2>2
<1>9. PICK u \in Nat, v \in Nat :
        u = WordsBefore(L)[n] /\ v = WordsBefore(L)[n + 1]
  BY <1>1, <1>4, WordsBeforeNat
<1>12. v = u + q
  <2>1. n \in 1 .. Len(L) /\ n + 1 \in 1 .. Len(L) + 1 /\ n \in 1 .. Len(L) + 1
    BY <1>1, <1>4
  <2>2. WordsBefore(L)[n + 1] = WordsBefore(L)[n] + Size(L[n])
    BY <2>1, WordsBeforeDef
  <2> QED BY <1>2, <1>4, <1>6, <1>7, <1>9, <2>2 DEF Size
<1>10. Place(L, x) = u + p + k
  BY <1>2, <1>4, <1>6, <1>7, <1>9 DEF Place
<1>11. u + p + k \in Nat /\ u <= u + p + k /\ u + p + k < v
  BY <1>5, <1>8, <1>12
<1> QED BY <1>1, <1>4, <1>9, <1>10, <1>11

\* A word has one place.
LEMMA PlaceInjective ==
  ASSUME NEW L \in Seq(Transfers),
         NEW v \in [nr : Nat, line : Nat, word : Nat],
         NEW w \in [nr : Nat, line : Nat, word : Nat],
         IsWord(L, v), IsWord(L, w), Place(L, v) = Place(L, w)
  PROVE  v = w
<1>2. v.nr = w.nr
  <2>1. ASSUME NEW x \in [nr : Nat, line : Nat, word : Nat], IsWord(L, x),
               NEW y \in [nr : Nat, line : Nat, word : Nat], IsWord(L, y),
               Place(L, x) = Place(L, y), x.nr + 1 <= y.nr
        PROVE  FALSE
    <3>1. /\ x.nr \in 1 .. Len(L) /\ Place(L, x) \in Nat
          /\ WordsBefore(L)[x.nr + 1] \in Nat
          /\ Place(L, x) < WordsBefore(L)[x.nr + 1]
      BY <2>1, WordFacts
    <3>2. /\ y.nr \in 1 .. Len(L) /\ WordsBefore(L)[y.nr] \in Nat
          /\ WordsBefore(L)[y.nr] <= Place(L, y)
      BY <2>1, WordFacts
    <3>3. PICK m \in Nat, n \in Nat : m = x.nr + 1 /\ n = y.nr
      OBVIOUS
    <3>4. m \in 1 .. Len(L) + 1 /\ n \in 1 .. Len(L) + 1 /\ m <= n
      <4>1. m <= n
        BY <2>1, <3>3
      <4>2. PICK h \in Nat : h = Len(L)
        OBVIOUS
      <4>3. PICK c \in 1 .. h : m = c + 1
        BY <3>1, <3>3, <4>2
      <4>4. m \in 1 .. h + 1
        BY <4>3
      <4>5. n \in 1 .. h + 1
        BY <3>2, <3>3, <4>2
      <4> QED BY <4>1, <4>2, <4>4, <4>5
    <3>5. WordsBefore(L)[m] <= WordsBefore(L)[n]
      BY <3>4, WordsBeforeGrows
    <3>6. PICK e \in Nat, f \in Nat, g \in Nat :
            /\ e = Place(L, x) /\ f = WordsBefore(L)[m] /\ g = WordsBefore(L)[n]
            /\ e < f /\ f <= g /\ g <= e
      BY <2>1, <3>1, <3>2, <3>3, <3>5
    <3>7. e < f /\ f <= g /\ g <= e
      BY <3>6
    <3> QED BY <3>7
  <2>2. ~(v.nr + 1 <= w.nr) /\ ~(w.nr + 1 <= v.nr)
    BY <2>1
  <2> QED BY <2>2
<1>3. PICK n \in Nat, a \in Nat, b \in Nat :
        n = L[v.nr].length /\ a = v.line /\ b = w.line
  <2>1. L[v.nr] \in Transfers
    BY ElementOfSeq DEF IsWord
  <2>2. L[v.nr].length \in Nat
    BY <2>1, TransferFacts
  <2> QED BY <2>2
<1>4. PICK x \in 0 .. n - 1, y \in 0 .. n - 1 : x = v.word /\ y = w.word
  BY <1>2, <1>3 DEF IsWord
<1>5. PICK u \in Nat : u = WordsBefore(L)[v.nr]
  BY WordFacts
<1>6. PICK p \in Nat, q \in Nat : p = a * n /\ q = b * n
  OBVIOUS
<1>7. u + p + x = u + q + y
  <2>1. Place(L, v) = u + p + x
    BY <1>3, <1>4, <1>5, <1>6 DEF Place
  <2>2. Place(L, w) = u + q + y
    BY <1>2, <1>3, <1>4, <1>5, <1>6 DEF Place
  <2> QED BY <2>1, <2>2
<1>8. p + x = q + y
  BY <1>7
<1>9. a * n + x = b * n + y
  BY <1>6, <1>8
<1>10. a = b /\ x = y
  BY <1>9, SplitUnique
<1>11. v.line = w.line /\ v.word = w.word
  BY <1>3, <1>4, <1>10
<1> QED BY <1>2, <1>11

-----------------------------------------------------------------------------
(***************************************************************************)
(* A side of the back-end copies a stream of words.  The bursts that wait  *)
(* in its queue follow each other without a gap or an overlap: the first   *)
(* one is at word idx, the from-th of all words, and the last one ends     *)
(* where the legalizer has stopped cutting.                                *)
(***************************************************************************)
Words == [nr : Nat, line : Nat, word : Nat]

IsBurst(L, s) ==
    /\ IsLine(L, s.req) /\ s.first \in Nat /\ s.beats \in Nat \ {0}
    /\ s.first + s.beats <= s.req.length
Start(L, s) == LineStart(L, s.req) + s.first
End(L, s) == Start(L, s) + s.beats

Stream(L, q, idx, from, to) ==
    /\ \A i \in 1 .. Len(q) : IsBurst(L, q[i].entry)
    /\ \A i \in 1 .. Len(q) - 1 : Start(L, q[i + 1].entry) = End(L, q[i].entry)
    /\ \A i, j \in 1 .. Len(q) : i < j => End(L, q[i].entry) <= Start(L, q[j].entry)
    /\ Len(q) = 0 => idx = 0 /\ from = to
    /\ Len(q) > 0 => /\ idx \in 0 .. q[1].entry.beats - 1
                     /\ Start(L, q[1].entry) + idx = from
                     /\ End(L, q[Len(q)].entry) = to

\* A burst has a start and an end.
LEMMA BurstFacts ==
  ASSUME NEW L \in Seq(Transfers), NEW s, IsBurst(L, s)
  PROVE  /\ Start(L, s) \in Nat /\ End(L, s) \in Nat /\ s.beats \in Nat \ {0}
         /\ End(L, s) = Start(L, s) + s.beats
         /\ WordsBefore(L)[s.req.nr] <= Start(L, s)
         /\ End(L, s) <= WordsBefore(L)[s.req.nr + 1]
<1>1. IsLine(L, s.req) /\ s.first \in Nat /\ s.beats \in Nat \ {0}
      /\ s.first + s.beats <= s.req.length
  BY DEF IsBurst
<1>2. /\ s.req.length \in Nat /\ LineStart(L, s.req) \in Nat
      /\ WordsBefore(L)[s.req.nr] <= LineStart(L, s.req)
      /\ LineStart(L, s.req) + s.req.length <= WordsBefore(L)[s.req.nr + 1]
      /\ s.req.nr \in 1 .. Len(L)
  <2>1. PICK r : r = s.req
    OBVIOUS
  <2>2. IsLine(L, r)
    BY <1>1, <2>1
  <2>3. /\ r.length \in Nat /\ LineStart(L, r) \in Nat
        /\ WordsBefore(L)[r.nr] <= LineStart(L, r)
        /\ LineStart(L, r) + r.length <= WordsBefore(L)[r.nr + 1]
    BY <2>2, LineFacts
  <2> QED BY <2>1, <2>2, <2>3 DEF IsLine
<1>3. WordsBefore(L)[s.req.nr] \in Nat /\ WordsBefore(L)[s.req.nr + 1] \in Nat
  BY <1>2, WordsBeforeNat
<1>4. PICK f \in Nat, b \in Nat, n \in Nat, t \in Nat, u \in Nat, v \in Nat :
        /\ f = s.first /\ b = s.beats /\ n = s.req.length
        /\ t = LineStart(L, s.req)
        /\ u = WordsBefore(L)[s.req.nr] /\ v = WordsBefore(L)[s.req.nr + 1]
  BY <1>1, <1>2, <1>3
<1>5. u <= t /\ t + n <= v /\ f + b <= n
  BY <1>1, <1>2, <1>4
<1>6. Start(L, s) = t + f /\ End(L, s) = t + f + b
  BY <1>4 DEF Start, End
<1>7. t + f \in Nat /\ t + f + b \in Nat /\ u <= t + f /\ t + f + b <= v
  BY <1>5
<1> QED BY <1>1, <1>4, <1>6, <1>7

\* The legalizer pushes the burst that is next.
LEMMA StreamPush ==
  ASSUME NEW L \in Seq(Transfers), NEW q, NEW idx, NEW from, NEW to,
         Stream(L, q, idx, from, to), Len(q) \in Nat,
         NEW s, IsBurst(L, s), Start(L, s) = to,
         NEW r, Len(r) = Len(q) + 1, r[Len(q) + 1].entry = s,
         \A i \in 1 .. Len(q) : r[i].entry = q[i].entry
  PROVE  Stream(L, r, idx, from, to + s.beats)
<1>1. PICK n \in Nat : n = Len(q)
  OBVIOUS
<1>2. /\ \A i \in 1 .. n : IsBurst(L, q[i].entry) /\ r[i].entry = q[i].entry
      /\ \A i \in 1 .. n : /\ Start(L, q[i].entry) \in Nat /\ End(L, q[i].entry) \in Nat
                           /\ Start(L, q[i].entry) <= End(L, q[i].entry)
      /\ \A i \in 1 .. n - 1 : Start(L, q[i + 1].entry) = End(L, q[i].entry)
      /\ \A i, j \in 1 .. n : i < j => End(L, q[i].entry) <= Start(L, q[j].entry)
      /\ n > 0 => End(L, q[n].entry) = to
      /\ r[n + 1].entry = s /\ Len(r) = n + 1
  <2>1. \A i \in 1 .. n : IsBurst(L, q[i].entry)
    BY <1>1 DEF Stream
  <2>2. \A i \in 1 .. n : /\ Start(L, q[i].entry) \in Nat /\ End(L, q[i].entry) \in Nat
                          /\ Start(L, q[i].entry) <= End(L, q[i].entry)
    <3> SUFFICES ASSUME NEW i \in 1 .. n
                 PROVE  /\ Start(L, q[i].entry) \in Nat /\ End(L, q[i].entry) \in Nat
                        /\ Start(L, q[i].entry) <= End(L, q[i].entry)
      OBVIOUS
    <3>1. PICK t : t = q[i].entry /\ IsBurst(L, t)
      BY <2>1
    <3>2. /\ Start(L, t) \in Nat /\ End(L, t) \in Nat /\ t.beats \in Nat
          /\ End(L, t) = Start(L, t) + t.beats
      BY <3>1, BurstFacts
    <3>3. Start(L, t) <= End(L, t)
      BY <3>2
    <3> QED BY <3>1, <3>2, <3>3
  <2> QED BY <1>1, <2>1, <2>2 DEF Stream
<1>3. Start(L, s) \in Nat /\ s.beats \in Nat \ {0} /\ End(L, s) = to + s.beats
  BY BurstFacts
<1>4. \A i \in 1 .. n + 1 : IsBurst(L, r[i].entry)
  BY <1>2
<1>5. ASSUME NEW i \in 1 .. n PROVE End(L, q[i].entry) <= to
  <2>1. n \in 1 .. n /\ to = End(L, q[n].entry) /\ to \in Nat
    BY <1>2
  <2>2. CASE i = n
    BY <2>1, <2>2
  <2>3. CASE i < n
    <3>1. End(L, q[i].entry) <= Start(L, q[n].entry)
      BY <1>2, <2>1, <2>3
    <3>2. /\ End(L, q[i].entry) \in Nat /\ Start(L, q[n].entry) \in Nat
          /\ Start(L, q[n].entry) <= to
      BY <1>2, <2>1
    <3> QED BY <2>1, <3>1, <3>2
  <2> QED BY <2>2, <2>3
<1>6. \A i \in 1 .. (n + 1) - 1 : Start(L, r[i + 1].entry) = End(L, r[i].entry)
  <2> SUFFICES ASSUME NEW i \in 1 .. n
               PROVE  Start(L, r[i + 1].entry) = End(L, r[i].entry)
    OBVIOUS
  <2>1. CASE i = n
    <3>1. r[i + 1].entry = s /\ r[i].entry = q[n].entry
      BY <1>2, <2>1
    <3>2. End(L, q[n].entry) = to
      BY <1>2
    <3> QED BY <3>1, <3>2, Zenon
  <2>2. CASE i # n
    <3>1. i \in 1 .. n - 1 /\ i + 1 \in 1 .. n
      BY <2>2
    <3>2. r[i + 1].entry = q[i + 1].entry /\ r[i].entry = q[i].entry
      BY <1>2, <3>1, Zenon
    <3>3. Start(L, q[i + 1].entry) = End(L, q[i].entry)
      BY <1>2, <3>1, Zenon
    <3> QED BY <3>2, <3>3, Zenon
  <2> QED BY <2>1, <2>2
<1>7. \A i, j \in 1 .. n + 1 : i < j => End(L, r[i].entry) <= Start(L, r[j].entry)
  <2> SUFFICES ASSUME NEW i \in 1 .. n + 1, NEW j \in 1 .. n + 1, i < j
               PROVE  End(L, r[i].entry) <= Start(L, r[j].entry)
    OBVIOUS
  <2>1. i \in 1 .. n /\ r[i].entry = q[i].entry
    BY <1>2
  <2>2. CASE j = n + 1
    BY <1>2, <1>5, <2>1, <2>2
  <2>3. CASE j # n + 1
    <3>1. j \in 1 .. n
      BY <2>3
    <3>2. r[j].entry = q[j].entry
      BY <1>2, <3>1
    <3>3. End(L, q[i].entry) <= Start(L, q[j].entry)
      BY <1>2, <2>1, <3>1
    <3> QED BY <2>1, <3>2, <3>3
  <2> QED BY <2>2, <2>3
<1>8. n = 0 => /\ idx = 0 /\ from = to /\ r[1].entry = s
  BY <1>1, <1>2 DEF Stream
<1>9. n > 0 => /\ idx \in 0 .. q[1].entry.beats - 1
               /\ Start(L, q[1].entry) + idx = from /\ r[1].entry = q[1].entry
  BY <1>1, <1>2 DEF Stream
<1>10. idx \in 0 .. r[1].entry.beats - 1 /\ Start(L, r[1].entry) + idx = from
  <2>1. CASE n = 0
    BY <1>3, <1>8, <2>1
  <2>2. CASE n > 0
    BY <1>9, <2>2
  <2> QED BY <2>1, <2>2
<1>11. Len(r) = n + 1 /\ End(L, r[Len(r)].entry) = to + s.beats
  BY <1>2, <1>3
<1>12. /\ \A i \in 1 .. Len(r) : IsBurst(L, r[i].entry)
       /\ \A i \in 1 .. Len(r) - 1 : Start(L, r[i + 1].entry) = End(L, r[i].entry)
  BY <1>4, <1>6, <1>11, Zenon
<1>13. \A i, j \in 1 .. Len(r) : i < j => End(L, r[i].entry) <= Start(L, r[j].entry)
  BY <1>7, <1>11, Zenon
<1>14. Len(r) # 0
  BY <1>11
<1> QED BY <1>10, <1>11, <1>12, <1>13, <1>14, Zenon DEF Stream

\* A word of the first burst is done, and it is not the last of the burst.
LEMMA StreamBeat ==
  ASSUME NEW L \in Seq(Transfers), NEW q, NEW idx, NEW from \in Int, NEW to,
         Stream(L, q, idx, from, to), Len(q) \in Nat \ {0},
         idx + 1 # q[1].entry.beats
  PROVE  Stream(L, q, idx + 1, from + 1, to)
<1>1. IsBurst(L, q[1].entry)
  BY DEF Stream
<1>2. Start(L, q[1].entry) \in Nat /\ q[1].entry.beats \in Nat
  BY <1>1, BurstFacts
<1>3. idx \in 0 .. q[1].entry.beats - 1 /\ Start(L, q[1].entry) + idx = from
  BY DEF Stream
<1>4. idx + 1 \in 0 .. q[1].entry.beats - 1
  BY <1>2, <1>3
<1>5. Start(L, q[1].entry) + (idx + 1) = from + 1
  BY <1>2, <1>3
<1> QED BY <1>4, <1>5 DEF Stream

\* The last word of the first burst is done.
LEMMA StreamPop ==
  ASSUME NEW L \in Seq(Transfers), NEW q, NEW idx, NEW from \in Int, NEW to,
         Stream(L, q, idx, from, to), Len(q) \in Nat \ {0},
         idx + 1 = q[1].entry.beats,
         NEW r, Len(r) = Len(q) - 1,
         \A i \in 1 .. Len(q) - 1 : r[i].entry = q[i + 1].entry
  PROVE  Stream(L, r, 0, from + 1, to)
<1>1. PICK n \in Nat : n = Len(q) - 1
  OBVIOUS
<1>2. /\ \A i \in 1 .. n + 1 : IsBurst(L, q[i].entry)
      /\ \A i \in 1 .. n : Start(L, q[i + 1].entry) = End(L, q[i].entry)
      /\ \A i, j \in 1 .. n + 1 : i < j => End(L, q[i].entry) <= Start(L, q[j].entry)
      /\ idx \in 0 .. q[1].entry.beats - 1
      /\ Start(L, q[1].entry) + idx = from /\ End(L, q[n + 1].entry) = to
      /\ Len(r) = n /\ \A i \in 1 .. n : r[i].entry = q[i + 1].entry
  BY <1>1 DEF Stream
<1>3. \A i \in 1 .. n : i + 1 \in 1 .. n + 1
  OBVIOUS
<1>4. \A i \in 1 .. n : IsBurst(L, r[i].entry)
  BY <1>2, <1>3
<1>5. \A i \in 1 .. n - 1 : Start(L, r[i + 1].entry) = End(L, r[i].entry)
  <2> SUFFICES ASSUME NEW i \in 1 .. n - 1
               PROVE  Start(L, r[i + 1].entry) = End(L, r[i].entry)
    OBVIOUS
  <2>1. PICK k \in Nat : k = i + 1
    OBVIOUS
  <2>2. k \in 1 .. n /\ i \in 1 .. n
    BY <2>1
  <2>3. r[k].entry = q[k + 1].entry /\ r[i].entry = q[k].entry
    BY <1>2, <2>1, <2>2
  <2>4. Start(L, q[k + 1].entry) = End(L, q[k].entry)
    BY <1>2, <2>2
  <2> QED BY <2>1, <2>3, <2>4
<1>6. \A i, j \in 1 .. n : i < j => End(L, r[i].entry) <= Start(L, r[j].entry)
  <2> SUFFICES ASSUME NEW i \in 1 .. n, NEW j \in 1 .. n, i < j
               PROVE  End(L, r[i].entry) <= Start(L, r[j].entry)
    OBVIOUS
  <2>1. PICK k \in Nat, l \in Nat : k = i + 1 /\ l = j + 1
    OBVIOUS
  <2>2. k \in 1 .. n + 1 /\ l \in 1 .. n + 1 /\ k < l
    BY <2>1
  <2>3. r[i].entry = q[k].entry /\ r[j].entry = q[l].entry
    BY <1>2, <2>1
  <2> QED BY <1>2, <2>2, <2>3
<1>7. End(L, q[1].entry) = from + 1
  <2>1. IsBurst(L, q[1].entry)
    BY <1>2
  <2>2. /\ Start(L, q[1].entry) \in Nat /\ q[1].entry.beats \in Nat
        /\ End(L, q[1].entry) = Start(L, q[1].entry) + q[1].entry.beats
    BY <2>1, BurstFacts
  <2> QED BY <1>2, <2>2
<1>8. n = 0 => from + 1 = to
  BY <1>2, <1>7
<1>9. ASSUME n > 0
      PROVE  /\ 0 \in 0 .. r[1].entry.beats - 1
             /\ Start(L, r[1].entry) + 0 = from + 1
             /\ End(L, r[n].entry) = to
  <2>1. r[1].entry = q[2].entry /\ r[n].entry = q[n + 1].entry /\ IsBurst(L, q[2].entry)
    BY <1>2, <1>9
  <2>2. Start(L, q[2].entry) = End(L, q[1].entry)
    BY <1>2, <1>9
  <2>3. q[2].entry.beats \in Nat \ {0}
    BY <2>1 DEF IsBurst
  <2> QED BY <1>2, <1>7, <2>1, <2>2, <2>3
<1> QED BY <1>2, <1>4, <1>5, <1>6, <1>8, <1>9 DEF Stream

\* Only how long bursts wait changes.
LEMMA StreamSame ==
  ASSUME NEW L, NEW q, NEW idx, NEW from, NEW to,
         Stream(L, q, idx, from, to), Len(q) \in Nat,
         NEW r, Len(r) = Len(q), \A i \in 1 .. Len(q) : r[i].entry = q[i].entry
  PROVE  Stream(L, r, idx, from, to)
<1>1. PICK n \in Nat : n = Len(q)
  OBVIOUS
<1>2. /\ \A i \in 1 .. n : IsBurst(L, q[i].entry)
      /\ \A i \in 1 .. n - 1 : Start(L, q[i + 1].entry) = End(L, q[i].entry)
      /\ \A i, j \in 1 .. n : i < j => End(L, q[i].entry) <= Start(L, q[j].entry)
      /\ n = 0 => idx = 0 /\ from = to
      /\ n > 0 => /\ idx \in 0 .. q[1].entry.beats - 1
                  /\ Start(L, q[1].entry) + idx = from
                  /\ End(L, q[n].entry) = to
      /\ Len(r) = n /\ \A i \in 1 .. n : r[i].entry = q[i].entry
  BY <1>1 DEF Stream
<1>3. \A i \in 1 .. n : IsBurst(L, r[i].entry)
  BY <1>2
<1>4. \A i \in 1 .. n - 1 : Start(L, r[i + 1].entry) = End(L, r[i].entry)
  BY <1>2
<1>5. \A i, j \in 1 .. n : i < j => End(L, r[i].entry) <= Start(L, r[j].entry)
  BY <1>2
<1>6. n > 0 => /\ idx \in 0 .. r[1].entry.beats - 1
               /\ Start(L, r[1].entry) + idx = from
               /\ End(L, r[n].entry) = to
  BY <1>2
<1> QED BY <1>2, <1>3, <1>4, <1>5, <1>6 DEF Stream

\* A launch does not touch the bursts.
LEMMA StreamLaunch ==
  ASSUME NEW L \in Seq(Transfers), NEW tr \in Transfers, NEW q, NEW idx, NEW from, NEW to,
         Stream(L, q, idx, from, to), Len(q) \in Nat
  PROVE  Stream(Append(L, tr), q, idx, from, to)
<1>1. PICK M : M = Append(L, tr)
  OBVIOUS
<1>2. /\ M \in Seq(Transfers) /\ Len(M) = Len(L) + 1 /\ Len(L) \in Nat
      /\ \A i \in 1 .. Len(L) : M[i] = L[i]
  BY <1>1, AppendProperties
<1>3. ASSUME NEW s, IsBurst(L, s)
      PROVE  IsBurst(M, s) /\ Start(M, s) = Start(L, s) /\ End(M, s) = End(L, s)
  <2>1. /\ s.req.nr \in 1 .. Len(L) /\ s.req.nr \in 1 .. Len(M)
        /\ M[s.req.nr] = L[s.req.nr] /\ s.req.nr \in 1 .. Len(L) + 1
    BY <1>2, <1>3 DEF IsBurst, IsLine
  <2>2. WordsBefore(M)[s.req.nr] = WordsBefore(L)[s.req.nr]
    BY <1>1, <2>1, WordsBeforeLaunch
  <2>3. IsBurst(M, s)
    BY <1>3, <2>1 DEF IsBurst, IsLine
  <2> QED BY <2>1, <2>2, <2>3 DEF Start, End, LineStart
<1>4. PICK n \in Nat : n = Len(q)
  OBVIOUS
<1>5. \A i \in 1 .. n : /\ IsBurst(L, q[i].entry) /\ IsBurst(M, q[i].entry)
                        /\ Start(M, q[i].entry) = Start(L, q[i].entry)
                        /\ End(M, q[i].entry) = End(L, q[i].entry)
  BY <1>3, <1>4 DEF Stream
<1>6. Stream(M, q, idx, from, to)
  <2>1. /\ \A i \in 1 .. n - 1 : Start(L, q[i + 1].entry) = End(L, q[i].entry)
        /\ \A i, j \in 1 .. n : i < j => End(L, q[i].entry) <= Start(L, q[j].entry)
        /\ n = 0 => idx = 0 /\ from = to
        /\ n > 0 => /\ idx \in 0 .. q[1].entry.beats - 1
                    /\ Start(L, q[1].entry) + idx = from
                    /\ End(L, q[n].entry) = to
    BY <1>4 DEF Stream
  <2>2. \A i \in 1 .. n - 1 : Start(M, q[i + 1].entry) = End(M, q[i].entry)
    BY <1>5, <2>1
  <2>3. \A i, j \in 1 .. n : i < j => End(M, q[i].entry) <= Start(M, q[j].entry)
    BY <1>5, <2>1
  <2>4. n > 0 => /\ Start(M, q[1].entry) + idx = from /\ End(M, q[n].entry) = to
    BY <1>5, <2>1
  <2> QED BY <1>4, <1>5, <2>1, <2>2, <2>3, <2>4 DEF Stream
<1> QED BY <1>1, <1>6

\* The word the first burst is at is the from-th one, and there is something
\* of every burst left.
LEMMA StreamWord ==
  ASSUME NEW L \in Seq(Transfers), NEW q, NEW idx, NEW from \in Int, NEW to,
         Stream(L, q, idx, from, to), Len(q) \in Nat \ {0},
         NEW w \in Words, w.nr = q[1].entry.req.nr, w.line = q[1].entry.req.line,
         w.word = q[1].entry.first + idx
  PROVE  IsWord(L, w) /\ Place(L, w) = from
<1>1. PICK s : s = q[1].entry
  OBVIOUS
<1>2. IsBurst(L, s) /\ idx \in 0 .. s.beats - 1 /\ Start(L, s) + idx = from
  BY <1>1 DEF Stream
<1>3. PICK r : r = s.req
  OBVIOUS
<1>4. /\ IsLine(L, r) /\ s.first \in Nat /\ s.beats \in Nat \ {0}
      /\ s.first + s.beats <= r.length
  BY <1>2, <1>3 DEF IsBurst
<1>5. r.length = L[r.nr].length /\ r.length \in Nat /\ LineStart(L, r) \in Nat
  BY <1>4, LineFacts
<1>6. w.nr = r.nr /\ w.line = r.line /\ w.word = s.first + idx
  BY <1>1, <1>3
<1>7. s.first + idx \in 0 .. r.length - 1
  <2>1. PICK f \in Nat, b \in Nat, n \in Nat, k \in Nat :
            f = s.first /\ b = s.beats /\ n = r.length /\ k = idx
    BY <1>2, <1>4, <1>5
  <2>2. f + b <= n /\ k < b
    BY <1>2, <1>4, <2>1
  <2>3. f + k \in 0 .. n - 1
    BY <2>2
  <2> QED BY <2>1, <2>3
<1>8. DOMAIN L = 1 .. Len(L)
  BY LenProperties
<1>9. IsWord(L, w)
  BY <1>4, <1>5, <1>6, <1>7, <1>8 DEF IsLine, IsWord
<1>10. Place(L, w) = LineStart(L, r) + w.word
  BY <1>6 DEF Place, LineStart
<1>11. Start(L, s) = LineStart(L, r) + s.first
  BY <1>3 DEF Start
<1>12. LineStart(L, r) + s.first + idx = from
  BY <1>2, <1>11
<1>13. LineStart(L, r) + (s.first + idx) = from
  BY <1>2, <1>4, <1>5, <1>12
<1> QED BY <1>6, <1>9, <1>10, <1>13

\* Nothing that waits is behind the word the stream is at.
LEMMA StreamAhead ==
  ASSUME NEW L \in Seq(Transfers), NEW q, NEW idx, NEW from \in Int, NEW to \in Int,
         Stream(L, q, idx, from, to), Len(q) \in Nat
  PROVE  /\ \A i \in 1 .. Len(q) : from < End(L, q[i].entry)
         /\ from <= to
<1>1. ASSUME NEW i \in 1 .. Len(q) PROVE from < End(L, q[i].entry)
  <2>1. PICK s, t : s = q[1].entry /\ t = q[i].entry
    OBVIOUS
  <2>2. /\ IsBurst(L, s) /\ IsBurst(L, t) /\ idx \in 0 .. s.beats - 1
        /\ Start(L, s) + idx = from
        /\ i # 1 => End(L, s) <= Start(L, t)
    BY <1>1, <2>1 DEF Stream
  <2>3. /\ Start(L, s) \in Nat /\ s.beats \in Nat \ {0}
        /\ End(L, s) = Start(L, s) + s.beats
    BY <2>2, BurstFacts
  <2>4. /\ Start(L, t) \in Nat /\ t.beats \in Nat \ {0}
        /\ End(L, t) = Start(L, t) + t.beats
    BY <2>2, BurstFacts
  <2>5. PICK a \in Nat, b \in Nat \ {0}, c \in Nat, e \in Nat \ {0} :
            a = Start(L, s) /\ b = s.beats /\ c = Start(L, t) /\ e = t.beats
    BY <2>3, <2>4
  <2>6. /\ End(L, s) = a + b /\ End(L, t) = c + e
        /\ idx \in 0 .. b - 1 /\ a + idx = from
    <3>1. End(L, s) = a + b
      BY <2>3, <2>5
    <3>2. End(L, t) = c + e
      BY <2>4, <2>5
    <3>3. idx \in 0 .. b - 1 /\ a + idx = from
      BY <2>2, <2>5
    <3> QED BY <3>1, <3>2, <3>3
  <2>7. CASE i = 1
    <3>1. c = a /\ e = b
      BY <2>1, <2>5, <2>7
    <3> QED BY <2>1, <2>6, <3>1
  <2>8. CASE i # 1
    <3>1. a + b <= c
      BY <2>2, <2>5, <2>6, <2>8
    <3>2. from < c + e
      BY <2>6, <3>1
    <3> QED BY <2>1, <2>6, <3>2
  <2> QED BY <2>7, <2>8
<1>2. CASE Len(q) = 0
  BY <1>2 DEF Stream
<1>3. CASE Len(q) > 0
  <2>1. from < End(L, q[Len(q)].entry) /\ End(L, q[Len(q)].entry) = to
    BY <1>1, <1>3 DEF Stream
  <2> QED BY <1>1, <2>1
<1> QED BY <1>1, <1>2, <1>3

-----------------------------------------------------------------------------
(***************************************************************************)
(* What holds of the state of the iDMA.                                    *)
(***************************************************************************)
HasFields(e) == DOMAIN e =
    {"next_id", "done_id", "pending_done", "launch_pending", "rr_port",
     "busy", "tick", "ready", "done", "wake_targets", "queue", "line", "req",
     "r_left", "w_left", "took", "r_fifo", "w_fifo", "wlast", "r_beat_idx",
     "w_beat_idx", "buffer", "pushed", "held_ar", "reads", "held_resp",
     "data_queue", "aw_credits", "held_beat", "acks", "launched", "counted",
     "written"}

Entry == [nr : Nat, req : Transfers]
Line == {build_1d(x, l) : x \in Entry, l \in Nat}
Burst == [req : Line, first : Nat, beats : Nat]
Slot == [req : Line, last : BOOLEAN]

\* The number of the transfer whose line is next, and how many words are in
\* the lines handed to the legalizer, with n transfers queued.
NextNr(L, n) == Len(L) - n + 1
Handed(L, n, line) ==
    WordsBefore(L)[NextNr(L, n)] +
        (IF line = 0 THEN 0 ELSE line * L[NextNr(L, n)].length)

\* The queue holds the last transfers launched.
Queued(L, q, line) ==
    /\ L \in Seq(Transfers) /\ q \in FifoType(Entry) /\ line \in Nat
    /\ Len(q.queue) <= Len(L)
    /\ \A i \in 1 .. Len(q.queue) :
            q.queue[i].entry = [nr |-> Len(L) - Len(q.queue) + i,
                                req |-> L[Len(L) - Len(q.queue) + i]]
    /\ q.queue = <<>> => line = 0
    /\ q.queue # <<>> => line < Lines(q.queue[1].entry.req)

\* The legalizer works on the line handed over last.
Cutting(L, req, r_left, w_left, handed) ==
    /\ r_left \in Nat /\ w_left \in Nat /\ req \in Line \cup {None}
    /\ req = None => r_left = 0 /\ w_left = 0
    /\ req # None => /\ IsLine(L, req) /\ r_left <= req.length /\ w_left <= req.length
                     /\ LineStart(L, req) + req.length = handed

\* The words in the buffer are the ones after those written.
Buffered(L, buffer, n) ==
    /\ buffer \in Seq(Words)
    /\ \A i \in 1 .. Len(buffer) :
            IsWord(L, buffer[i]) /\ Place(L, buffer[i]) = n + i - 1

Written(L, written) ==
    /\ written \in Seq([data : Words, at : Words])
    /\ \A i \in 1 .. Len(written) :
            /\ written[i].data = written[i].at
            /\ IsWord(L, written[i].at) /\ Place(L, written[i].at) = i - 1

CopyInv(e) ==
    LET handed == Handed(e.launched, Len(e.queue.queue), e.line)
    IN  /\ Queued(e.launched, e.queue, e.line)
        /\ Cutting(e.launched, e.req, e.r_left, e.w_left, handed)
        /\ e.r_fifo \in FifoType(Burst) /\ e.w_fifo \in FifoType(Burst)
        /\ Stream(e.launched, e.r_fifo.queue, e.r_beat_idx,
                  Len(e.written) + Len(e.buffer), handed - e.r_left)
        /\ Stream(e.launched, e.w_fifo.queue, e.w_beat_idx,
                  Len(e.written), handed - e.w_left)
        /\ Buffered(e.launched, e.buffer, Len(e.written))
        /\ Written(e.launched, e.written)

-----------------------------------------------------------------------------
(***************************************************************************)
(* What the operators leave alone.                                         *)
(***************************************************************************)
Ports(e) ==
    /\ HasFields(e) /\ e.rr_port \in Port
    /\ e.launch_pending \in [Port -> Transfers \cup {None}]

\* The transfers, lines, bursts and words are the same.
SameCopy(a, b) ==
    /\ b.launched = a.launched /\ b.queue = a.queue /\ b.line = a.line
    /\ b.req = a.req /\ b.r_left = a.r_left /\ b.w_left = a.w_left
    /\ b.r_fifo = a.r_fifo /\ b.w_fifo = a.w_fifo
    /\ b.r_beat_idx = a.r_beat_idx /\ b.w_beat_idx = a.w_beat_idx
    /\ b.buffer = a.buffer /\ b.written = a.written
SamePorts(a, b) ==
    /\ HasFields(b) /\ b.rr_port = a.rr_port /\ b.launch_pending = a.launch_pending

\* Asking for an event leaves the copying alone.
LEMMA WakeQuiet ==
  ASSUME NEW e, HasFields(e), NEW n
  PROVE  /\ SameCopy(e, wake(e, n)) /\ SamePorts(e, wake(e, n))
         /\ SameCopy(e, enqueue(e, "tick", n)) /\ SamePorts(e, enqueue(e, "tick", n))
         /\ SameCopy(e, enqueue(e, "ready", n)) /\ SamePorts(e, enqueue(e, "ready", n))
         /\ SameCopy(e, enqueue(e, "done", n)) /\ SamePorts(e, enqueue(e, "done", n))
BY DEF wake, enqueue, HasFields, SameCopy, SamePorts

\* So does the end of a line.
LEMMA CompleteQuiet ==
  ASSUME NEW e, HasFields(e), NEW r, NEW force
  PROVE  SameCopy(e, complete_1d(e, r, force)) /\ SamePorts(e, complete_1d(e, r, force))
BY DEF complete_1d, enqueue, HasFields, SameCopy, SamePorts

\* Leaving alone composes.
LEMMA SameTwice ==
  ASSUME NEW a, NEW b, NEW c, SameCopy(a, b), SameCopy(b, c), SamePorts(a, b), SamePorts(b, c)
  PROVE  SameCopy(a, c) /\ SamePorts(a, c)
BY DEF SameCopy, SamePorts

\* So does the end of a write burst.
LEMMA BurstDoneQuiet ==
  ASSUME NEW e, HasFields(e)
  PROVE  SameCopy(e, write_burst_done(e)) /\ SamePorts(e, write_burst_done(e))
<1> DEFINE f == [e EXCEPT !.wlast = pop(@)]
           g == IF head(e.wlast).last THEN complete_1d(f, head(e.wlast).req, FALSE) ELSE f
<1>1. SameCopy(e, f) /\ SamePorts(e, f) /\ HasFields(f)
  BY DEF HasFields, SameCopy, SamePorts
<1>2. write_burst_done(e) = wake(g, 1)
  BY DEF write_burst_done
<1> HIDE DEF f
<1>3. SameCopy(e, g) /\ SamePorts(e, g)
  <2>1. CASE head(e.wlast).last
    <3>1. g = complete_1d(f, head(e.wlast).req, FALSE)
      BY <2>1
    <3> HIDE DEF g
    <3> QED BY <1>1, <3>1, CompleteQuiet, SameTwice
  <2>2. CASE ~head(e.wlast).last
    BY <1>1, <2>2
  <2> QED BY <2>1, <2>2
<1> HIDE DEF g
<1>4. HasFields(g)
  BY <1>3 DEF SamePorts
<1> QED BY <1>2, <1>3, <1>4, WakeQuiet, SameTwice

\* So does the answer to a beat.
LEMMA SendQuiet ==
  ASSUME NEW e, HasFields(e), NEW last, NEW answer
  PROVE  SameCopy(e, send_beat(e, last, answer)) /\ SamePorts(e, send_beat(e, last, answer))
<1>1. CASE send_beat(e, last, answer) = write_burst_done(e)
  BY <1>1, BurstDoneQuiet
<1>2. CASE send_beat(e, last, answer) # write_burst_done(e)
  <2>1. \/ send_beat(e, last, answer) = e
        \/ send_beat(e, last, answer) = [e EXCEPT !.held_beat = "last"]
        \/ send_beat(e, last, answer) = [e EXCEPT !.held_beat = "beat"]
        \/ send_beat(e, last, answer) = [e EXCEPT !.acks = @ + 1]
    BY <1>2 DEF send_beat
  <2> QED BY <2>1 DEF HasFields, SameCopy, SamePorts
<1> QED BY <1>1, <1>2

\* So do the addresses that go to the bus.
LEMMA IssueQuiet ==
  ASSUME NEW e, HasFields(e), NEW n, NEW answer, NEW decouple
  PROVE  /\ SameCopy(e, issue_ar(e, n, answer)) /\ SamePorts(e, issue_ar(e, n, answer))
         /\ SameCopy(e, issue_aw(e, decouple)) /\ SamePorts(e, issue_aw(e, decouple))
BY DEF issue_ar, issue_aw, HasFields, SameCopy, SamePorts

\* So does the credit of a first beat.
LEMMA CreditQuiet ==
  ASSUME NEW e, HasFields(e)
  PROVE  SameCopy(e, on_read_first_beat(e)) /\ SamePorts(e, on_read_first_beat(e))
<1> DEFINE f == [e EXCEPT !.data_queue[Min(aw_waiting(e))] = TRUE]
<1>1. SameCopy(e, f) /\ SamePorts(e, f) /\ HasFields(f)
  BY DEF HasFields, SameCopy, SamePorts
<1>2. \/ on_read_first_beat(e) = e
      \/ on_read_first_beat(e) = [e EXCEPT !.aw_credits = @ + 1]
      \/ on_read_first_beat(e) = wake(f, 1)
  BY DEF on_read_first_beat
<1>3. SameCopy(e, wake(f, 1)) /\ SamePorts(e, wake(f, 1))
  <2> HIDE DEF f
  <2> QED BY <1>1, WakeQuiet, SameTwice
<1> HIDE DEF f
<1> QED BY <1>2, <1>3 DEF HasFields, SameCopy, SamePorts

\* So does the end of a tick.
LEMMA RearmQuiet ==
  ASSUME NEW e, HasFields(e), NEW active
  PROVE  SameCopy(e, rearm(e, active)) /\ SamePorts(e, rearm(e, active))
<1> DEFINE f == IF active THEN enqueue(e, "tick", 1) ELSE e
<1>1. SameCopy(e, f) /\ SamePorts(e, f) /\ HasFields(f)
  BY WakeQuiet DEF SameCopy, SamePorts
<1>2. rearm(e, active) = f \/ rearm(e, active) = enqueue(f, "tick", Min(f.wake_targets))
  BY DEF rearm
<1> HIDE DEF f
<1> QED BY <1>1, <1>2, WakeQuiet, SameTwice

\* What is left alone stays as it should be.
LEMMA CopyFrame ==
  ASSUME NEW a, NEW b, SameCopy(a, b), SamePorts(a, b), CopyInv(a), Ports(a)
  PROVE  CopyInv(b) /\ Ports(b)
BY DEF SameCopy, SamePorts, CopyInv, Ports

-----------------------------------------------------------------------------
(***************************************************************************)
(* The mid-end hands over lines in order.                                  *)
(***************************************************************************)

\* The queue is not longer than the transfers launched, and its head is the
\* transfer that is next.
LEMMA QueueFacts ==
  ASSUME NEW L, NEW q, NEW line, Queued(L, q, line)
  PROVE  /\ Len(L) \in Nat /\ Len(q.queue) \in Nat
         /\ NextNr(L, Len(q.queue)) \in 1 .. Len(L) + 1
         /\ q.queue = <<>> <=> Len(q.queue) = 0
         /\ q.queue # <<>> =>
                /\ NextNr(L, Len(q.queue)) \in 1 .. Len(L)
                /\ L[NextNr(L, Len(q.queue))] \in Transfers
                /\ head(q) = [nr |-> NextNr(L, Len(q.queue)),
                              req |-> L[NextNr(L, Len(q.queue))]]
                /\ line < Lines(L[NextNr(L, Len(q.queue))])
<1>1. /\ L \in Seq(Transfers) /\ q.queue \in Seq([entry : Entry, wait : Nat])
      /\ Len(q.queue) <= Len(L)
  BY DEF Queued, FifoType
<1>2. Len(L) \in Nat /\ Len(q.queue) \in Nat /\ (q.queue = <<>> <=> Len(q.queue) = 0)
  BY <1>1, LenProperties, EmptySeq
<1>3. PICK n \in Nat, m \in Nat : n = Len(q.queue) /\ m = Len(L)
  BY <1>2
<1>4. n <= m /\ m - n + 1 \in 1 .. m + 1
  <2>1. n <= m
    BY <1>1, <1>3
  <2> QED BY <2>1
<1>5. ASSUME n # 0
      PROVE  /\ m - n + 1 \in 1 .. m /\ head(q) = [nr |-> m - n + 1, req |-> L[m - n + 1]]
             /\ L[m - n + 1] \in Transfers /\ line < Lines(L[m - n + 1])
  <2>1. m - n + 1 \in 1 .. m /\ 1 \in 1 .. n
    BY <1>4, <1>5
  <2>2. q.queue[1].entry = [nr |-> m - n + 1, req |-> L[m - n + 1]]
    BY <1>3, <2>1 DEF Queued
  <2>3. head(q) = q.queue[1].entry
    BY <1>1, <1>2, <1>3, <1>5, TailOf DEF head
  <2>4. L[m - n + 1] \in Transfers
    BY <1>1, <1>3, <2>1, ElementOfSeq
  <2>5. line < Lines(q.queue[1].entry.req)
    BY <1>2, <1>3, <1>5 DEF Queued
  <2> QED BY <2>1, <2>2, <2>3, <2>4, <2>5
<1> QED BY <1>2, <1>3, <1>4, <1>5 DEF NextNr

\* The next line begins where the lines handed over end; handing it over
\* adds its words.
LEMMA HandOver ==
  ASSUME NEW L, NEW q, NEW line, Queued(L, q, line), q.queue # <<>>,
         NEW r, r = build_1d(head(q), line)
  PROVE  /\ IsLine(L, r) /\ r \in Line
         /\ LineStart(L, r) = Handed(L, Len(q.queue), line)
         /\ r.super_last =>
                /\ Queued(L, pop(q), 0)
                /\ Handed(L, Len(pop(q).queue), 0) =
                        Handed(L, Len(q.queue), line) + r.length
                /\ NextNr(L, Len(pop(q).queue)) = r.nr + 1
         /\ ~r.super_last =>
                /\ Queued(L, q, line + 1)
                /\ Handed(L, Len(q.queue), line + 1) =
                        Handed(L, Len(q.queue), line) + r.length
         /\ NextNr(L, Len(q.queue)) = r.nr
<1>1. L \in Seq(Transfers) /\ line \in Nat /\ q \in FifoType(Entry)
  BY DEF Queued
<1>2. PICK n \in Nat \ {0}, m \in Nat, k \in Nat :
        n = Len(q.queue) /\ m = Len(L) /\ k = NextNr(L, n)
  BY QueueFacts
<1>3. /\ k = m - n + 1 /\ k \in 1 .. m /\ n <= m
      /\ L[k] \in Transfers /\ head(q) = [nr |-> k, req |-> L[k]]
      /\ line \in 0 .. Lines(L[k]) - 1
  <2>1. k = m - n + 1
    BY <1>2 DEF NextNr
  <2>2. /\ k \in 1 .. m /\ L[k] \in Transfers /\ head(q) = [nr |-> k, req |-> L[k]]
        /\ line < Lines(L[k])
    BY <1>2, QueueFacts
  <2>3. Lines(L[k]) \in Nat
    BY <2>2, TransferFacts
  <2>4. n <= m
    BY <1>2 DEF Queued
  <2> QED BY <1>1, <2>1, <2>2, <2>3, <2>4
<1>4. r.nr = k /\ r.line = line
  BY <1>3 DEF build_1d
<1>5. IsLine(L, r)
  BY <1>2, <1>3, <1>4 DEF IsLine
<1>6. r \in Line
  <2>1. head(q) \in Entry
    BY <1>3 DEF Entry
  <2> QED BY <1>1, <2>1 DEF Line
<1>7. PICK a \in Nat, l \in Nat, s \in Nat \ {0} :
        a = WordsBefore(L)[k] /\ l = L[k].length /\ s = Lines(L[k])
  <2>1. k \in 1 .. Len(L) + 1
    <3>1. k \in 1 .. m
      BY <1>3
    <3>2. k \in 1 .. m + 1
      BY <3>1
    <3> QED BY <1>2, <3>2
  <2>2. WordsBefore(L)[k] \in Nat
    BY <1>1, <2>1, WordsBeforeNat
  <2> QED BY <1>3, <2>2, TransferFacts
<1>8. LineStart(L, r) = a + line * l /\ r.length = l
  BY <1>1, <1>4, <1>5, <1>7, LineFacts DEF LineStart
<1>9. Handed(L, n, line) = a + line * l
  <2>1. line = 0 => line * l = 0
    BY <1>1
  <2>2. Handed(L, n, line) = a + (IF line = 0 THEN 0 ELSE line * l)
    BY <1>2, <1>7 DEF Handed
  <2> QED BY <2>1, <2>2
<1>10. r.super_last <=> line + 1 >= s
  BY <1>1, <1>4, <1>5, <1>7, LineFacts
<1>11. (line + 1) * l = line * l + l /\ line * l \in Int
  BY <1>1, OneMore
<1>12. ASSUME r.super_last
       PROVE  /\ Queued(L, pop(q), 0)
              /\ Handed(L, Len(pop(q).queue), 0) = Handed(L, n, line) + l
              /\ NextNr(L, Len(pop(q).queue)) = k + 1
  <2>1. /\ pop(q) \in FifoType(Entry) /\ Len(pop(q).queue) = n - 1
        /\ \A i \in 1 .. n - 1 : pop(q).queue[i] = q.queue[i + 1]
    BY <1>1, <1>2, PopFifo
  <2>2. ASSUME NEW i \in 1 .. n - 1
        PROVE  pop(q).queue[i].entry = [nr |-> m - (n - 1) + i, req |-> L[m - (n - 1) + i]]
    <3>1. i + 1 \in 1 .. n /\ m - n + (i + 1) = m - (n - 1) + i
      OBVIOUS
    <3>2. q.queue[i + 1].entry = [nr |-> m - n + (i + 1), req |-> L[m - n + (i + 1)]]
      BY <1>2, <3>1 DEF Queued
    <3> QED BY <2>1, <3>1, <3>2
  <2>3. pop(q).queue # <<>> => 0 < Lines(pop(q).queue[1].entry.req)
    <3> SUFFICES ASSUME pop(q).queue # <<>> PROVE 0 < Lines(pop(q).queue[1].entry.req)
      OBVIOUS
    <3>1. pop(q).queue \in Seq([entry : Entry, wait : Nat])
      BY <2>1 DEF FifoType
    <3>2. n - 1 # 0
      BY <2>1, <3>1, EmptySeq
    <3>3. 1 \in 1 .. n - 1
      BY <3>2
    <3>4. pop(q).queue[1].entry.req = L[m - (n - 1) + 1]
      <4>1. pop(q).queue[1].entry =
                [nr |-> m - (n - 1) + 1, req |-> L[m - (n - 1) + 1]]
        BY <2>2, <3>3
      <4> QED BY <4>1
    <3>5. m - (n - 1) + 1 \in 1 .. m
      BY <1>3, <3>2
    <3>6. L[m - (n - 1) + 1] \in Transfers
      BY <1>1, <1>2, <3>5, ElementOfSeq
    <3> QED BY <3>4, <3>6, TransferFacts
  <2>4. Queued(L, pop(q), 0)
    <3>1. PICK p : p = pop(q)
      OBVIOUS
    <3>2. /\ p \in FifoType(Entry) /\ Len(p.queue) = n - 1 /\ n - 1 <= m
          /\ \A i \in 1 .. n - 1 :
                p.queue[i].entry = [nr |-> m - (n - 1) + i, req |-> L[m - (n - 1) + i]]
      <4>1. p \in FifoType(Entry) /\ Len(p.queue) = n - 1
        BY <2>1, <3>1, Zenon
      <4>2. n - 1 <= m
        BY <1>3
      <4>3. \A i \in 1 .. n - 1 :
                p.queue[i].entry = [nr |-> m - (n - 1) + i, req |-> L[m - (n - 1) + i]]
        BY <2>2, <3>1, Zenon
      <4> QED BY <4>1, <4>2, <4>3, Zenon
    <3>3. p.queue # <<>> => 0 < Lines(p.queue[1].entry.req)
      BY <2>3, <3>1
    <3>4. Queued(L, p, 0)
      BY <1>1, <1>2, <3>2, <3>3 DEF Queued
    <3> QED BY <3>1, <3>4
  <2>5. NextNr(L, Len(pop(q).queue)) = k + 1
    BY <1>2, <1>3, <2>1 DEF NextNr
  <2>6. WordsBefore(L)[k + 1] = WordsBefore(L)[k] + Size(L[k])
    BY <1>1, <1>2, <1>3, WordsBeforeDef
  <2>7. Size(L[k]) = s * l /\ s = line + 1
    BY <1>3, <1>7, <1>10, <1>12 DEF Size
  <2>8. Handed(L, Len(pop(q).queue), 0) = WordsBefore(L)[k + 1]
    <3>1. k + 1 \in 1 .. Len(L) + 1
      <4>1. k \in 1 .. m
        BY <1>3
      <4>2. k + 1 \in 1 .. m + 1
        BY <4>1
      <4> QED BY <1>2, <4>2
    <3>2. WordsBefore(L)[k + 1] \in Nat
      BY <1>1, <3>1, WordsBeforeNat
    <3> QED BY <2>5, <3>2 DEF Handed
  <2>9. WordsBefore(L)[k + 1] = a + (line * l + l)
    BY <1>7, <1>11, <2>6, <2>7
  <2> QED BY <1>9, <1>11, <2>4, <2>5, <2>8, <2>9
<1>13. ASSUME ~r.super_last
       PROVE  /\ Queued(L, q, line + 1)
              /\ Handed(L, n, line + 1) = Handed(L, n, line) + l
  <2>1. q.queue[1].entry.req = L[k]
    <3>1. head(q) = q.queue[1].entry
      BY <1>1, PopFifo
    <3>2. head(q).req = L[k]
      BY <1>3
    <3> QED BY <3>1, <3>2
  <2>2. line + 1 < Lines(L[k]) /\ line + 1 \in Nat /\ line + 1 # 0
    BY <1>1, <1>7, <1>10, <1>13
  <2>3. Queued(L, q, line + 1)
    BY <2>1, <2>2 DEF Queued
  <2>4. Handed(L, n, line + 1) = a + (line + 1) * l
    BY <1>2, <1>7, <2>2 DEF Handed
  <2> QED BY <1>9, <1>11, <2>3, <2>4
<1> QED BY <1>2, <1>4, <1>5, <1>6, <1>8, <1>9, <1>12, <1>13

\* The bursts and words are the same.
SameBursts(a, b) ==
    /\ b.launched = a.launched /\ b.r_fifo = a.r_fifo /\ b.w_fifo = a.w_fifo
    /\ b.r_beat_idx = a.r_beat_idx /\ b.w_beat_idx = a.w_beat_idx
    /\ b.buffer = a.buffer /\ b.written = a.written

\* The next line was handed over.
TookLine(a, b) ==
    /\ b.queue = IF peek_1d(a).super_last THEN pop(a.queue) ELSE a.queue
    /\ b.line = IF peek_1d(a).super_last THEN 0 ELSE a.line + 1

\* A line is handed over by changing the queue or the number of the line.
LEMMA TakeFrame ==
  ASSUME NEW e, HasFields(e), NEW t, t = [take_1d(e) EXCEPT !.took = TRUE]
  PROVE  /\ SamePorts(e, t) /\ SameBursts(e, t) /\ TookLine(e, t)
         /\ t.req = e.req /\ t.r_left = e.r_left /\ t.w_left = e.w_left
BY DEF take_1d, enqueue, HasFields, SamePorts, SameBursts, TookLine

\* There is a line to take when a transfer is queued.
LEMMA PeekFacts ==
  ASSUME NEW e, Queued(e.launched, e.queue, e.line), peek_1d(e) # None
  PROVE  e.queue.queue # <<>> /\ peek_1d(e) = build_1d(head(e.queue), e.line)
BY DEF Queued, peek_1d, head_visible, is_empty

\* A line is no None.
LEMMA LineSome ==
  ASSUME NEW x, NEW line
  PROVE  build_1d(x, line) # None
BY DEF build_1d, None

\* The numbers CopyInv is about.
LEMMA CopyNumbers ==
  ASSUME NEW e, CopyInv(e)
  PROVE  /\ Handed(e.launched, Len(e.queue.queue), e.line) \in Nat
         /\ e.r_left \in Nat /\ e.w_left \in Nat
         /\ Len(e.buffer) \in Nat /\ Len(e.written) \in Nat
         /\ Len(e.r_fifo.queue) \in Nat /\ Len(e.w_fifo.queue) \in Nat
         /\ e.launched \in Seq(Transfers)
<1>1. PICK L, q, line : L = e.launched /\ q = e.queue /\ line = e.line
  OBVIOUS
<1>2. Queued(L, q, line)
  BY <1>1 DEF CopyInv
<1>3. /\ e.r_left \in Nat /\ e.w_left \in Nat
      /\ Len(e.buffer) \in Nat /\ Len(e.written) \in Nat
      /\ Len(e.r_fifo.queue) \in Nat /\ Len(e.w_fifo.queue) \in Nat
  <2>1. e.r_left \in Nat /\ e.w_left \in Nat
    BY DEF CopyInv, Cutting
  <2>2. e.buffer \in Seq(Words) /\ e.written \in Seq([data : Words, at : Words])
    BY DEF CopyInv, Buffered, Written
  <2>3. /\ e.r_fifo.queue \in Seq([entry : Burst, wait : Nat])
        /\ e.w_fifo.queue \in Seq([entry : Burst, wait : Nat])
    BY DEF CopyInv, FifoType
  <2> QED BY <2>1, <2>2, <2>3, LenProperties
<1>4. PICK k \in Nat : k = NextNr(L, Len(q.queue)) /\ k \in 1 .. Len(L) + 1
  BY <1>2, QueueFacts
<1>5. L \in Seq(Transfers) /\ line \in Nat
  BY <1>2 DEF Queued
<1>6. WordsBefore(L)[k] \in Nat
  BY <1>4, <1>5, WordsBeforeNat
<1>7. line # 0 => L[k].length \in Nat
  <2>1. line # 0 => q.queue # <<>>
    BY <1>2 DEF Queued
  <2>2. line # 0 => L[k] \in Transfers
    BY <1>2, <1>4, <2>1, QueueFacts
  <2> QED BY <2>2, TransferFacts
<1>8. Handed(L, Len(q.queue), line) \in Nat
  <2>1. Handed(L, Len(q.queue), line) =
            WordsBefore(L)[k] + (IF line = 0 THEN 0 ELSE line * L[k].length)
    BY <1>4 DEF Handed
  <2>2. CASE line = 0
    BY <1>6, <2>1, <2>2
  <2>3. CASE line # 0
    <3>1. PICK n \in Nat : n = L[k].length
      BY <1>7, <2>3
    <3>2. line * n \in Nat
      BY <1>5
    <3> QED BY <1>6, <2>1, <2>3, <3>1, <3>2
  <2> QED BY <2>2, <2>3
<1> QED BY <1>1, <1>3, <1>5, <1>8

\* A line handed over is the one to be cut, or it has no words.
LEMMA NewLine ==
  ASSUME NEW a, NEW b, CopyInv(a), peek_1d(a) # None, SameBursts(a, b), TookLine(a, b),
         \/ /\ all_cut(a) /\ b.req = peek_1d(a)
            /\ b.r_left = peek_1d(a).length /\ b.w_left = peek_1d(a).length
         \/ /\ peek_1d(a).length = 0
            /\ b.req = a.req /\ b.r_left = a.r_left /\ b.w_left = a.w_left
  PROVE  CopyInv(b)
<1>1. PICK L, q, line, r : L = a.launched /\ q = a.queue /\ line = a.line /\ r = peek_1d(a)
  OBVIOUS
<1>2. Queued(L, q, line)
  BY <1>1 DEF CopyInv
<1>3. q.queue # <<>> /\ r = build_1d(head(q), line)
  BY <1>1, <1>2, PeekFacts
<1>4. PICK h \in Nat : h = Handed(L, Len(q.queue), line)
  BY <1>1, CopyNumbers
<1>5. IsLine(L, r) /\ r \in Line /\ LineStart(L, r) = h
  BY <1>2, <1>3, <1>4, HandOver
<1>6. r.length \in Nat
  BY <1>1, <1>5, CopyNumbers, LineFacts
<1>7. /\ b.launched = L /\ Queued(L, b.queue, b.line)
      /\ Handed(L, Len(b.queue.queue), b.line) = h + r.length
  <2>1. CASE r.super_last
    <3>1. b.queue = pop(q) /\ b.line = 0
      BY <1>1, <2>1 DEF TookLine
    <3> QED BY <1>1, <1>2, <1>3, <1>4, <2>1, <3>1, HandOver DEF SameBursts
  <2>2. CASE ~r.super_last
    <3>1. b.queue = q /\ b.line = line + 1
      BY <1>1, <2>2 DEF TookLine
    <3>2. Queued(L, q, line + 1) /\ Handed(L, Len(q.queue), line + 1) = h + r.length
      <4>1. /\ Queued(L, q, line + 1)
            /\ Handed(L, Len(q.queue), line + 1) =
                    Handed(L, Len(q.queue), line) + r.length
        <5>1. line \in Nat
          BY <1>2 DEF Queued
        <5> QED BY <1>2, <1>3, <2>2, <5>1, HandOver
      <4> QED BY <1>4, <4>1
    <3> QED BY <1>1, <3>1, <3>2 DEF SameBursts
  <2> QED BY <2>1, <2>2
<1>8. Cutting(L, b.req, b.r_left, b.w_left, h + r.length)
  <2>1. CASE /\ all_cut(a) /\ b.req = r /\ b.r_left = r.length /\ b.w_left = r.length
    <3>1. r # None
      BY <1>3, LineSome
    <3> QED BY <1>5, <1>6, <2>1, <3>1 DEF Cutting
  <2>2. CASE /\ r.length = 0 /\ b.req = a.req /\ b.r_left = a.r_left /\ b.w_left = a.w_left
    <3>1. Cutting(L, a.req, a.r_left, a.w_left, h)
      BY <1>1, <1>4 DEF CopyInv
    <3>2. h + r.length = h
      BY <2>2
    <3> QED BY <2>2, <3>1, <3>2
  <2> QED BY <1>1, <2>1, <2>2
<1>9. PICK x \in Nat, y \in Nat, u \in Nat, v \in Nat, n \in Nat :
        x = a.r_left /\ y = a.w_left /\ u = b.r_left /\ v = b.w_left /\ n = r.length
  <2>1. b.r_left \in Nat /\ b.w_left \in Nat
    BY <1>8 DEF Cutting
  <2> QED BY <1>6, <2>1, CopyNumbers
<1>10. PICK g \in Nat : g = h + n
  OBVIOUS
<1>11. g - u = h - x /\ g - v = h - y
  <2>1. (x = 0 /\ y = 0 /\ u = n /\ v = n) \/ (n = 0 /\ u = x /\ v = y)
    BY <1>1, <1>9 DEF all_cut
  <2> QED BY <1>10, <2>1
<1>12. PICK s, t : s = h - x /\ t = h - y
  OBVIOUS
<1>13. /\ a.r_fifo \in FifoType(Burst) /\ a.w_fifo \in FifoType(Burst)
       /\ Stream(L, a.r_fifo.queue, a.r_beat_idx, Len(a.written) + Len(a.buffer), s)
       /\ Stream(L, a.w_fifo.queue, a.w_beat_idx, Len(a.written), t)
       /\ Buffered(L, a.buffer, Len(a.written)) /\ Written(L, a.written)
  BY <1>1, <1>4, <1>9, <1>12 DEF CopyInv
<1>14. g - b.r_left = s /\ g - b.w_left = t
  BY <1>9, <1>11, <1>12
<1>15. g = Handed(b.launched, Len(b.queue.queue), b.line) /\ b.launched = L
  BY <1>7, <1>9, <1>10
<1>16. Queued(L, b.queue, b.line) /\ Cutting(L, b.req, b.r_left, b.w_left, g)
  BY <1>7, <1>8, <1>9, <1>10
<1> QED BY <1>13, <1>14, <1>15, <1>16 DEF CopyInv, SameBursts

\* Taking a request keeps the copying in order.
LEMMA TakeCopy ==
  ASSUME NEW e, Ports(e), CopyInv(e), all_cut(e)
  PROVE  /\ CopyInv(take_request(e)) /\ SamePorts(e, take_request(e))
<1>1. HasFields(e)
  BY DEF Ports
<1>2. CASE e.took \/ peek_1d(e) = None
  BY <1>1, <1>2 DEF take_request, SamePorts
<1>3. CASE ~e.took /\ peek_1d(e) # None
  <2>1. PICK r, t : r = peek_1d(e) /\ t = [take_1d(e) EXCEPT !.took = TRUE]
    OBVIOUS
  <2>2. /\ SamePorts(e, t) /\ SameBursts(e, t) /\ TookLine(e, t) /\ HasFields(t)
        /\ t.req = e.req /\ t.r_left = e.r_left /\ t.w_left = e.w_left
    <3>1. /\ SamePorts(e, t) /\ SameBursts(e, t) /\ TookLine(e, t)
          /\ t.req = e.req /\ t.r_left = e.r_left /\ t.w_left = e.w_left
      BY <1>1, <2>1, TakeFrame
    <3> QED BY <3>1 DEF SamePorts
  <2>3. CASE r.length = 0
    <3>1. PICK b : b = complete_1d(t, r, TRUE)
      OBVIOUS
    <3>2. take_request(e) = b
      BY <1>3, <2>1, <2>3, <3>1 DEF take_request
    <3>3. SameCopy(t, b) /\ SamePorts(t, b)
      BY <2>2, <3>1, CompleteQuiet
    <3>4. /\ SameBursts(e, b) /\ TookLine(e, b) /\ SamePorts(e, b)
          /\ b.req = e.req /\ b.r_left = e.r_left /\ b.w_left = e.w_left
      BY <2>2, <3>3 DEF SameCopy, SamePorts, SameBursts, TookLine
    <3>5. CopyInv(b)
      BY <1>3, <2>1, <2>3, <3>4, NewLine
    <3> QED BY <3>2, <3>4, <3>5
  <2>4. CASE r.length # 0
    <3>1. PICK b : b = [t EXCEPT !.req = r, !.r_left = r.length, !.w_left = r.length]
      OBVIOUS
    <3>2. take_request(e) = b
      BY <1>3, <2>1, <2>4, <3>1 DEF take_request
    <3>3. /\ SameBursts(t, b) /\ SamePorts(t, b) /\ b.queue = t.queue /\ b.line = t.line
          /\ b.req = r /\ b.r_left = r.length /\ b.w_left = r.length
      BY <2>2, <3>1 DEF HasFields, SameBursts, SamePorts
    <3>4. SameBursts(e, b) /\ TookLine(e, b) /\ SamePorts(e, b)
      BY <2>2, <3>3 DEF SamePorts, SameBursts, TookLine
    <3>5. CopyInv(b)
      BY <1>3, <2>1, <3>3, <3>4, NewLine
    <3> QED BY <3>2, <3>4, <3>5
  <2> QED BY <2>3, <2>4
<1> QED BY <1>2, <1>3

\* So does taking a line of no length ahead of its turn.
LEMMA BypassCopy ==
  ASSUME NEW e, Ports(e), CopyInv(e)
  PROVE  /\ CopyInv(bypass(e)) /\ SamePorts(e, bypass(e))
         /\ bypass(e).req = e.req /\ bypass(e).r_left = e.r_left
         /\ bypass(e).w_left = e.w_left
<1>1. HasFields(e)
  BY DEF Ports
<1>2. PICK r, t : r = peek_1d(e) /\ t = [take_1d(e) EXCEPT !.took = TRUE]
  OBVIOUS
<1>3. CASE ~(r # None /\ ~e.took /\ r.length = 0)
  BY <1>1, <1>2, <1>3 DEF bypass, SamePorts
<1>4. CASE r # None /\ ~e.took /\ r.length = 0
  <2>1. /\ SamePorts(e, t) /\ SameBursts(e, t) /\ TookLine(e, t)
        /\ t.req = e.req /\ t.r_left = e.r_left /\ t.w_left = e.w_left
    BY <1>1, <1>2, TakeFrame
  <2>2. PICK b : b = complete_1d(t, r, TRUE)
    OBVIOUS
  <2>3. bypass(e) = b
    BY <1>2, <1>4, <2>2 DEF bypass
  <2>4. SameCopy(t, b) /\ SamePorts(t, b)
    BY <2>1, <2>2, CompleteQuiet DEF SamePorts
  <2>5. /\ SameBursts(e, b) /\ TookLine(e, b) /\ SamePorts(e, b)
        /\ b.req = e.req /\ b.r_left = e.r_left /\ b.w_left = e.w_left
    BY <2>1, <2>4 DEF SameCopy, SamePorts, SameBursts, TookLine
  <2>6. CopyInv(b)
    BY <1>2, <1>4, <2>5, NewLine
  <2> QED BY <2>3, <2>5, <2>6
<1> QED BY <1>3, <1>4

-----------------------------------------------------------------------------
(***************************************************************************)
(* The legalizer cuts lines into bursts.                                   *)
(***************************************************************************)

\* What is cut of a side is there to be cut.
LEMMA CutSize ==
  ASSUME NEW e, CopyInv(e)
  PROVE  /\ r_go(e) => coupled_to(e, r_burst(e)) \in 1 .. e.r_left
         /\ w_go(e) => coupled_to(e, w_burst(e)) \in 1 .. e.w_left
<1>1. PICK h : Cutting(e.launched, e.req, e.r_left, e.w_left, h)
  BY DEF CopyInv
<1>2. PICK x \in Nat, y \in Nat : x = e.r_left /\ y = e.w_left
  BY <1>1 DEF Cutting
<1>3. ASSUME x # 0 \/ y # 0
      PROVE  /\ e.req.src \in Int /\ e.req.dst \in Int /\ e.req.length \in Nat
  <2>1. IsLine(e.launched, e.req)
    BY <1>1, <1>2, <1>3 DEF Cutting
  <2>2. PICK r : r = e.req
    OBVIOUS
  <2> QED BY <2>1, <2>2, CopyNumbers, LineFacts
<1>4. ASSUME x # 0 PROVE r_burst(e) \in 1 .. x
  <2>1. r_burst(e) = burst(e.req.src, e.req.length, x)
    BY <1>2, <1>4 DEF r_burst
  <2> QED BY <1>3, <1>4, <2>1, BurstSize
<1>5. ASSUME y # 0 PROVE w_burst(e) \in 1 .. y
  <2>1. w_burst(e) = burst(e.req.dst, e.req.length, y)
    BY <1>2, <1>5 DEF w_burst
  <2> QED BY <1>3, <1>5, <2>1, BurstSize
<1>6. /\ r_go(e) => x # 0 /\ (e.req.decouple_rw \/ y # 0)
      /\ w_go(e) => y # 0 /\ (e.req.decouple_rw \/ x # 0)
  BY <1>2 DEF r_go, w_go, r_ready, w_ready
<1>7. ASSUME x # 0, y # 0
      PROVE  Min({r_burst(e), w_burst(e)}) \in 1 .. x /\ Min({r_burst(e), w_burst(e)}) \in 1 .. y
  <2>1. PICK a \in Nat, b \in Nat : a = r_burst(e) /\ b = w_burst(e)
    BY <1>4, <1>5, <1>7
  <2>2. a \in 1 .. x /\ b \in 1 .. y
    BY <1>4, <1>5, <1>7, <2>1
  <2>3. Min({a, b}) = IF a <= b THEN a ELSE b
    BY MinOfTwo
  <2> QED BY <2>1, <2>2, <2>3
<1>8. CASE e.req.decouple_rw
  BY <1>2, <1>4, <1>5, <1>6, <1>8 DEF coupled_to
<1>9. CASE ~e.req.decouple_rw
  BY <1>2, <1>6, <1>7, <1>9 DEF coupled_to
<1> QED BY <1>8, <1>9

\* The next burst of a side follows the ones cut before.
LEMMA NextBurst ==
  ASSUME NEW L \in Seq(Transfers), NEW f \in FifoType(Burst), NEW idx, NEW from,
         NEW h \in Nat, NEW left \in Nat, NEW r \in Line, IsLine(L, r), left <= r.length,
         LineStart(L, r) + r.length = h, NEW n \in 1 .. left,
         Stream(L, f.queue, idx, from, h - left),
         NEW s, s = [req |-> r, first |-> r.length - left, beats |-> n]
  PROVE  /\ push(f, s, 0) \in FifoType(Burst)
         /\ Stream(L, push(f, s, 0).queue, idx, from, h - (left - n))
<1>1. PICK l \in Nat, a \in Nat : l = r.length /\ a = LineStart(L, r)
  BY LineFacts
<1>2. left <= l /\ a + l = h
  BY <1>1
<1>3. l - left \in Nat /\ n \in Nat \ {0} /\ (l - left) + n <= l
  BY <1>2
<1>4. s.req = r /\ s.first = l - left /\ s.beats = n
  BY <1>1
<1>5. s \in Burst
  BY <1>1, <1>3 DEF Burst
<1>6. IsBurst(L, s)
  BY <1>1, <1>3, <1>4 DEF IsBurst
<1>7. Start(L, s) = h - left
  <2>1. Start(L, s) = a + (l - left)
    BY <1>1, <1>4 DEF Start
  <2> QED BY <1>2, <2>1
<1>8. PICK q : q = push(f, s, 0)
  OBVIOUS
<1>9. /\ q \in FifoType(Burst) /\ Len(q.queue) = Len(f.queue) + 1
      /\ \A i \in 1 .. Len(f.queue) : q.queue[i] = f.queue[i]
      /\ q.queue[Len(f.queue) + 1].entry = s
  BY <1>5, <1>8, PushFifo
<1>10. Len(f.queue) \in Nat /\ q.queue[Len(f.queue) + 1].entry = s
  <2>1. f.queue \in Seq([entry : Burst, wait : Nat])
    BY DEF FifoType
  <2> QED BY <1>9, <2>1, LenProperties
<1>11. PICK to : to = h - left
  OBVIOUS
<1>12. Stream(L, q.queue, idx, from, to + s.beats)
  <2>1. Stream(L, f.queue, idx, from, to) /\ Start(L, s) = to
    BY <1>7, <1>11
  <2>2. \A i \in 1 .. Len(f.queue) : q.queue[i].entry = f.queue[i].entry
    BY <1>9
  <2> QED BY <1>6, <1>9, <1>10, <2>1, <2>2, StreamPush
<1>13. to + s.beats = h - (left - n)
  BY <1>4, <1>11
<1> QED BY <1>8, <1>9, <1>12, <1>13

\* A read burst is cut.
LEMMA ReadSplitCopy ==
  ASSUME NEW e, Ports(e), CopyInv(e), NEW answer, r_go(e)
  PROVE  /\ CopyInv(read_split(e, answer)) /\ SamePorts(e, read_split(e, answer))
         /\ read_split(e, answer).req = e.req /\ read_split(e, answer).w_left = e.w_left
<1>1. PICK n \in 1 .. e.r_left : n = coupled_to(e, r_burst(e))
  BY CutSize
<1>2. PICK f, s, b : /\ f = issue_ar(e, n, answer) /\ b = read_split(e, answer)
                     /\ s = [req |-> e.req, first |-> e.req.length - e.r_left, beats |-> n]
  OBVIOUS
<1>3. SameCopy(e, f) /\ SamePorts(e, f) /\ HasFields(f)
  <2>1. SameCopy(e, f) /\ SamePorts(e, f)
    BY <1>2, IssueQuiet DEF Ports
  <2> QED BY <2>1 DEF SamePorts
<1>4. b = [f EXCEPT !.r_fifo = push(@, s, 0), !.r_left = @ - n]
  BY <1>1, <1>2 DEF read_split
<1>5. /\ SamePorts(f, b) /\ b.launched = f.launched /\ b.queue = f.queue
      /\ b.line = f.line /\ b.req = f.req /\ b.w_left = f.w_left /\ b.w_fifo = f.w_fifo
      /\ b.r_beat_idx = f.r_beat_idx /\ b.w_beat_idx = f.w_beat_idx
      /\ b.buffer = f.buffer /\ b.written = f.written
      /\ b.r_fifo = push(f.r_fifo, s, 0) /\ b.r_left = f.r_left - n
  BY <1>3, <1>4 DEF HasFields, SamePorts
<1>6. /\ SamePorts(e, b) /\ b.launched = e.launched /\ b.queue = e.queue
      /\ b.line = e.line /\ b.req = e.req /\ b.w_left = e.w_left /\ b.w_fifo = e.w_fifo
      /\ b.r_beat_idx = e.r_beat_idx /\ b.w_beat_idx = e.w_beat_idx
      /\ b.buffer = e.buffer /\ b.written = e.written
      /\ b.r_fifo = push(e.r_fifo, s, 0) /\ b.r_left = e.r_left - n
  BY <1>3, <1>5 DEF SameCopy, SamePorts
<1>7. PICK L \in Seq(Transfers), h \in Nat, x \in Nat :
        /\ L = e.launched /\ h = Handed(e.launched, Len(e.queue.queue), e.line)
        /\ x = e.r_left
  BY CopyNumbers
<1>8. n \in 1 .. x /\ n \in Nat \ {0}
  BY <1>1, <1>7
<1>9. Cutting(L, e.req, x, e.w_left, h)
  BY <1>7 DEF CopyInv
<1>10. e.req # None /\ e.req \in Line /\ IsLine(L, e.req) /\ x <= e.req.length
       /\ LineStart(L, e.req) + e.req.length = h
  BY <1>8, <1>9 DEF Cutting
<1>11. /\ e.r_fifo \in FifoType(Burst)
       /\ Stream(L, e.r_fifo.queue, e.r_beat_idx, Len(e.written) + Len(e.buffer), h - x)
  BY <1>7 DEF CopyInv
<1>12. /\ push(e.r_fifo, s, 0) \in FifoType(Burst)
       /\ Stream(L, push(e.r_fifo, s, 0).queue, e.r_beat_idx,
                 Len(e.written) + Len(e.buffer), h - (x - n))
  <2>1. PICK r, from : r = e.req /\ from = Len(e.written) + Len(e.buffer)
    OBVIOUS
  <2>2. s = [req |-> r, first |-> r.length - x, beats |-> n]
    BY <1>2, <1>7, <2>1
  <2> QED BY <1>8, <1>10, <1>11, <2>1, <2>2, NextBurst
<1>13. Cutting(L, b.req, b.r_left, b.w_left, h)
  <2>1. b.r_left \in Nat /\ b.r_left <= x
    BY <1>6, <1>7, <1>8
  <2>2. e.req.length \in Nat
    BY <1>10, LineFacts
  <2>3. b.r_left <= e.req.length
    BY <1>10, <2>1, <2>2
  <2> QED BY <1>6, <1>9, <1>10, <2>1, <2>3 DEF Cutting
<1>14. h - b.r_left = h - (x - n) /\ h = Handed(b.launched, Len(b.queue.queue), b.line)
  BY <1>6, <1>7
<1>15. Stream(L, b.r_fifo.queue, b.r_beat_idx, Len(b.written) + Len(b.buffer), h - b.r_left)
  BY <1>6, <1>12, <1>14
<1>16. /\ Queued(L, b.queue, b.line) /\ b.launched = L
       /\ b.r_fifo \in FifoType(Burst) /\ b.w_fifo \in FifoType(Burst)
       /\ Stream(L, b.w_fifo.queue, b.w_beat_idx, Len(b.written), h - b.w_left)
       /\ Buffered(L, b.buffer, Len(b.written)) /\ Written(L, b.written)
  BY <1>6, <1>7, <1>12 DEF CopyInv
<1>17. CopyInv(b)
  BY <1>13, <1>14, <1>15, <1>16 DEF CopyInv
<1> QED BY <1>2, <1>6, <1>17

\* A write burst is cut.
LEMMA WriteSplitCopy ==
  ASSUME NEW e, Ports(e), CopyInv(e), NEW n \in 1 .. e.w_left
  PROVE  CopyInv(write_split(e, n)) /\ SamePorts(e, write_split(e, n))
<1>1. PICK f, s, b : /\ f = issue_aw(e, e.req.decouple_aw) /\ b = write_split(e, n)
                     /\ s = [req |-> e.req, first |-> e.req.length - e.w_left, beats |-> n]
  OBVIOUS
<1>3. SameCopy(e, f) /\ SamePorts(e, f) /\ HasFields(f)
  <2>1. SameCopy(e, f) /\ SamePorts(e, f)
    BY <1>1, IssueQuiet DEF Ports
  <2> QED BY <2>1 DEF SamePorts
<1>4. b = [f EXCEPT !.w_fifo = push(@, s, 0),
                    !.wlast = push(@, [req |-> e.req, last |-> n = e.w_left], 0),
                    !.w_left = @ - n]
  BY <1>1 DEF write_split
<1>5. /\ SamePorts(f, b) /\ b.launched = f.launched /\ b.queue = f.queue
      /\ b.line = f.line /\ b.req = f.req /\ b.r_left = f.r_left /\ b.r_fifo = f.r_fifo
      /\ b.r_beat_idx = f.r_beat_idx /\ b.w_beat_idx = f.w_beat_idx
      /\ b.buffer = f.buffer /\ b.written = f.written
      /\ b.w_fifo = push(f.w_fifo, s, 0) /\ b.w_left = f.w_left - n
  BY <1>3, <1>4 DEF HasFields, SamePorts
<1>6. /\ SamePorts(e, b) /\ b.launched = e.launched /\ b.queue = e.queue
      /\ b.line = e.line /\ b.req = e.req /\ b.r_left = e.r_left /\ b.r_fifo = e.r_fifo
      /\ b.r_beat_idx = e.r_beat_idx /\ b.w_beat_idx = e.w_beat_idx
      /\ b.buffer = e.buffer /\ b.written = e.written
      /\ b.w_fifo = push(e.w_fifo, s, 0) /\ b.w_left = e.w_left - n
  BY <1>3, <1>5 DEF SameCopy, SamePorts
<1>7. PICK L \in Seq(Transfers), h \in Nat, x \in Nat :
        /\ L = e.launched /\ h = Handed(e.launched, Len(e.queue.queue), e.line)
        /\ x = e.w_left
  BY CopyNumbers
<1>8. n \in 1 .. x /\ n \in Nat \ {0}
  BY <1>7
<1>9. Cutting(L, e.req, e.r_left, x, h)
  BY <1>7 DEF CopyInv
<1>10. e.req # None /\ e.req \in Line /\ IsLine(L, e.req) /\ x <= e.req.length
       /\ LineStart(L, e.req) + e.req.length = h
  BY <1>8, <1>9 DEF Cutting
<1>11. /\ e.w_fifo \in FifoType(Burst)
       /\ Stream(L, e.w_fifo.queue, e.w_beat_idx, Len(e.written), h - x)
  BY <1>7 DEF CopyInv
<1>12. /\ push(e.w_fifo, s, 0) \in FifoType(Burst)
       /\ Stream(L, push(e.w_fifo, s, 0).queue, e.w_beat_idx, Len(e.written), h - (x - n))
  <2>1. PICK r : r = e.req
    OBVIOUS
  <2>2. s = [req |-> r, first |-> r.length - x, beats |-> n]
    BY <1>1, <1>7, <2>1
  <2> QED BY <1>8, <1>10, <1>11, <2>1, <2>2, NextBurst
<1>13. Cutting(L, b.req, b.r_left, b.w_left, h)
  <2>1. b.w_left \in Nat /\ b.w_left <= x
    BY <1>6, <1>7, <1>8
  <2>2. e.req.length \in Nat
    BY <1>10, LineFacts
  <2>3. b.w_left <= e.req.length
    BY <1>10, <2>1, <2>2
  <2> QED BY <1>6, <1>9, <1>10, <2>1, <2>3 DEF Cutting
<1>14. h - b.w_left = h - (x - n) /\ h = Handed(b.launched, Len(b.queue.queue), b.line)
  BY <1>6, <1>7
<1>15. Stream(L, b.w_fifo.queue, b.w_beat_idx, Len(b.written), h - b.w_left)
  BY <1>6, <1>12, <1>14
<1>16. /\ Queued(L, b.queue, b.line) /\ b.launched = L
       /\ b.r_fifo \in FifoType(Burst) /\ b.w_fifo \in FifoType(Burst)
       /\ Stream(L, b.r_fifo.queue, b.r_beat_idx,
                 Len(b.written) + Len(b.buffer), h - b.r_left)
       /\ Buffered(L, b.buffer, Len(b.written)) /\ Written(L, b.written)
  BY <1>6, <1>7, <1>12 DEF CopyInv
<1>17. CopyInv(b)
  BY <1>13, <1>14, <1>15, <1>16 DEF CopyInv
<1> QED BY <1>1, <1>6, <1>17

\* The legalizer has a request while it has something to cut.
Tidy(e) == all_cut(e) => e.req = None

\* The splits of one cycle.
LEMMA CutCopy ==
  ASSUME NEW e, Ports(e), CopyInv(e), NEW answer
  PROVE  CopyInv(cut(e, answer)) /\ SamePorts(e, cut(e, answer))
<1>1. PICK n, f : n = coupled_to(e, w_burst(e))
                  /\ f = IF r_go(e) THEN read_split(e, answer) ELSE e
  OBVIOUS
<1>2. CopyInv(f) /\ SamePorts(e, f) /\ f.w_left = e.w_left
  <2>1. CASE r_go(e)
    BY <1>1, <2>1, ReadSplitCopy
  <2>2. CASE ~r_go(e)
    BY <1>1, <2>2 DEF SamePorts, Ports
  <2> QED BY <2>1, <2>2
<1>3. Ports(f)
  BY <1>2 DEF Ports, SamePorts
<1>4. CASE w_go(e)
  <2>1. n \in 1 .. f.w_left
    BY <1>1, <1>2, <1>4, CutSize
  <2>2. cut(e, answer) = write_split(f, n)
    BY <1>1, <1>4 DEF cut
  <2>3. CopyInv(write_split(f, n)) /\ SamePorts(f, write_split(f, n))
    BY <1>2, <1>3, <2>1, WriteSplitCopy
  <2> QED BY <1>2, <2>2, <2>3 DEF SamePorts
<1>5. CASE ~w_go(e)
  <2>1. cut(e, answer) = f
    BY <1>1, <1>5 DEF cut
  <2> QED BY <1>2, <2>1
<1> QED BY <1>4, <1>5

\* A request that was taken is to be cut.
LEMMA TakeTidy ==
  ASSUME NEW e, HasFields(e), all_cut(e), e.req = None
  PROVE  Tidy(take_request(e))
<1>1. PICK r, t : r = peek_1d(e) /\ t = [take_1d(e) EXCEPT !.took = TRUE]
  OBVIOUS
<1>2. HasFields(t) /\ t.req = None
  <2>1. SamePorts(e, t) /\ t.req = e.req
    BY <1>1, TakeFrame
  <2> QED BY <2>1 DEF SamePorts
<1>3. CASE e.took \/ r = None
  BY <1>1, <1>3 DEF take_request, Tidy
<1>4. CASE ~(e.took \/ r = None) /\ r.length = 0
  <2>1. take_request(e) = complete_1d(t, r, TRUE)
    BY <1>1, <1>4 DEF take_request
  <2>2. SameCopy(t, complete_1d(t, r, TRUE))
    BY <1>2, CompleteQuiet
  <2> QED BY <1>2, <2>1, <2>2 DEF SameCopy, Tidy
<1>5. CASE ~(e.took \/ r = None) /\ r.length # 0
  <2>1. take_request(e) = [t EXCEPT !.req = r, !.r_left = r.length, !.w_left = r.length]
    BY <1>1, <1>5 DEF take_request
  <2>2. take_request(e).r_left = r.length
    BY <1>2, <2>1 DEF HasFields
  <2> QED BY <1>5, <2>2 DEF Tidy, all_cut
<1> QED BY <1>3, <1>4, <1>5

\* The legalizer keeps the copying in order.
LEMMA StepCopy ==
  ASSUME NEW e, Ports(e), CopyInv(e), Tidy(e), NEW answer
  PROVE  CopyInv(step(e, answer)) /\ SamePorts(e, step(e, answer)) /\ Tidy(step(e, answer))
<1>1. CASE all_cut(e)
  <2>1. step(e, answer) = take_request(e)
    BY <1>1 DEF step
  <2>2. CopyInv(take_request(e)) /\ SamePorts(e, take_request(e))
    BY <1>1, TakeCopy
  <2>3. Tidy(take_request(e))
    <3>1. HasFields(e) /\ e.req = None
      BY <1>1 DEF Tidy, Ports
    <3> QED BY <1>1, <3>1, TakeTidy
  <2> QED BY <2>1, <2>2, <2>3
<1>2. CASE ~all_cut(e)
  <2>1. PICK b, c, f : b = bypass(e) /\ c = cut(b, answer) /\ f = [c EXCEPT !.req = None]
    OBVIOUS
  <2>2. CopyInv(b) /\ SamePorts(e, b) /\ Ports(b)
    <3>1. CopyInv(b) /\ SamePorts(e, b)
      BY <2>1, BypassCopy
    <3> QED BY <3>1 DEF Ports, SamePorts
  <2>3. CopyInv(c) /\ SamePorts(e, c) /\ Ports(c)
    <3>1. CopyInv(c) /\ SamePorts(b, c)
      BY <2>1, <2>2, CutCopy
    <3> QED BY <2>2, <3>1 DEF Ports, SamePorts
  <2>4. CASE ~all_cut(c)
    <3>1. step(e, answer) = c
      BY <1>2, <2>1, <2>4 DEF step
    <3> QED BY <2>3, <2>4, <3>1 DEF Tidy
  <2>5. CASE all_cut(c)
    <3>1. step(e, answer) = take_request(f)
      BY <1>2, <2>1, <2>5 DEF step
    <3>2. /\ f.req = None /\ f.r_left = c.r_left /\ f.w_left = c.w_left /\ f.queue = c.queue
          /\ f.line = c.line /\ SameBursts(c, f) /\ SamePorts(c, f)
      BY <2>1, <2>3 DEF HasFields, Ports, SameBursts, SamePorts
    <3>3. all_cut(f) /\ Ports(f) /\ SamePorts(e, f)
      BY <2>3, <2>5, <3>2 DEF all_cut, Ports, SamePorts
    <3>4. CopyInv(f)
      <4>1. PICK h : h = Handed(c.launched, Len(c.queue.queue), c.line)
        OBVIOUS
      <4>2. Cutting(f.launched, f.req, f.r_left, f.w_left, h)
        BY <3>2, <3>3 DEF Cutting, all_cut
      <4>3. h = Handed(f.launched, Len(f.queue.queue), f.line)
        BY <3>2, <4>1 DEF SameBursts
      <4> QED BY <2>3, <3>2, <4>1, <4>2, <4>3 DEF CopyInv, SameBursts
    <3>5. CopyInv(take_request(f)) /\ SamePorts(f, take_request(f))
      BY <3>3, <3>4, TakeCopy
    <3>6. Tidy(take_request(f))
      <4>1. HasFields(f)
        BY <3>3 DEF Ports
      <4> QED BY <3>2, <3>3, <4>1, TakeTidy
    <3> QED BY <3>1, <3>3, <3>5, <3>6 DEF SamePorts
  <2> QED BY <2>4, <2>5
<1> QED BY <1>1, <1>2

-----------------------------------------------------------------------------
(***************************************************************************)
(* The beats of the two sides.                                             *)
(***************************************************************************)

\* The word of a beat, and what the beat leaves of the bursts.
BeatWord(f, idx) == [nr |-> head(f).req.nr, line |-> head(f).req.line,
                     word |-> head(f).first + idx]
BeatFifo(f, idx) == IF idx + 1 = head(f).beats THEN pop(f) ELSE f
BeatIdx(f, idx) == IF idx + 1 = head(f).beats THEN 0 ELSE idx + 1

\* A beat is for the word its side is at, and moves the side on by one.
LEMMA Beat ==
  ASSUME NEW L \in Seq(Transfers), NEW f \in FifoType(Burst), f.queue # <<>>,
         NEW idx, NEW from \in Nat, NEW to, Stream(L, f.queue, idx, from, to)
  PROVE  /\ BeatFifo(f, idx) \in FifoType(Burst)
         /\ Stream(L, BeatFifo(f, idx).queue, BeatIdx(f, idx), from + 1, to)
         /\ BeatWord(f, idx) \in Words /\ IsWord(L, BeatWord(f, idx))
         /\ Place(L, BeatWord(f, idx)) = from
<1>0. PICK w, g, j : w = BeatWord(f, idx) /\ g = BeatFifo(f, idx) /\ j = BeatIdx(f, idx)
  OBVIOUS
<1>1. /\ pop(f) \in FifoType(Burst) /\ Len(f.queue) \in Nat \ {0}
      /\ Len(pop(f).queue) = Len(f.queue) - 1
      /\ \A i \in 1 .. Len(f.queue) - 1 : pop(f).queue[i] = f.queue[i + 1]
      /\ head(f) = f.queue[1].entry
  BY PopFifo
<1>2. PICK s : s = f.queue[1].entry
  OBVIOUS
<1>3. IsBurst(L, s) /\ idx \in 0 .. s.beats - 1
  BY <1>1, <1>2 DEF Stream
<1>4. IsLine(L, s.req) /\ s.first \in Nat /\ s.beats \in Nat
  BY <1>3 DEF IsBurst
<1>5. s.req.nr \in Nat /\ s.req.line \in Nat
  <2>1. PICK r : r = s.req
    OBVIOUS
  <2> QED BY <1>4, <2>1, LineFacts
<1>6. idx \in Nat
  BY <1>3, <1>4
<1>7. w \in Words
  <2>1. PICK a \in Nat, b \in Nat, c \in Nat :
          a = s.req.nr /\ b = s.req.line /\ c = s.first + idx
    BY <1>4, <1>5, <1>6
  <2>2. w = [nr |-> a, line |-> b, word |-> c]
    BY <1>0, <1>1, <1>2, <2>1 DEF BeatWord
  <2> QED BY <2>2 DEF Words
<1>8. IsWord(L, w) /\ Place(L, w) = from
  <2>1. /\ w.nr = f.queue[1].entry.req.nr /\ w.line = f.queue[1].entry.req.line
        /\ w.word = f.queue[1].entry.first + idx
    BY <1>0, <1>1 DEF BeatWord
  <2>2. PICK q : q = f.queue
    OBVIOUS
  <2>3. /\ Stream(L, q, idx, from, to) /\ Len(q) \in Nat \ {0}
        /\ w.nr = q[1].entry.req.nr /\ w.line = q[1].entry.req.line
        /\ w.word = q[1].entry.first + idx
    BY <1>1, <2>1, <2>2, Zenon
  <2>4. from \in Int
    OBVIOUS
  <2> QED BY <1>7, <2>3, <2>4, StreamWord, ZenonT(30)
<1>9. CASE idx + 1 = s.beats
  <2>1. g = pop(f) /\ j = 0
    BY <1>0, <1>1, <1>2, <1>9 DEF BeatFifo, BeatIdx
  <2>2. \A i \in 1 .. Len(f.queue) - 1 : pop(f).queue[i].entry = f.queue[i + 1].entry
    BY <1>1
  <2>3. PICK q, r : q = f.queue /\ r = pop(f).queue
    OBVIOUS
  <2>4. Stream(L, r, 0, from + 1, to)
    <3>1. /\ Stream(L, q, idx, from, to) /\ Len(q) \in Nat \ {0} /\ Len(r) = Len(q) - 1
          /\ idx + 1 = q[1].entry.beats
          /\ \A i \in 1 .. Len(q) - 1 : r[i].entry = q[i + 1].entry
      BY <1>1, <1>2, <1>9, <2>2, <2>3
    <3>2. from \in Int
      OBVIOUS
    <3> QED BY <1>6, <3>1, <3>2, StreamPop, ZenonT(30)
  <2> QED BY <1>0, <1>1, <1>7, <1>8, <2>1, <2>3, <2>4
<1>10. CASE idx + 1 # s.beats
  <2>1. g = f /\ j = idx + 1
    BY <1>0, <1>1, <1>2, <1>10 DEF BeatFifo, BeatIdx
  <2>2. Stream(L, f.queue, idx + 1, from + 1, to)
    BY <1>1, <1>2, <1>10, StreamBeat
  <2> QED BY <1>0, <1>7, <1>8, <2>1, <2>2
<1> QED BY <1>9, <1>10

\* A word written is the one its address is for.
LEMMA WriteTakeCopy ==
  ASSUME NEW e, Ports(e), CopyInv(e), write_beat_ready(e)
  PROVE  /\ CopyInv(write_beat_take(e)) /\ SamePorts(e, write_beat_take(e))
         /\ write_beat_take(e).req = e.req /\ write_beat_take(e).r_left = e.r_left
         /\ write_beat_take(e).w_left = e.w_left
<1>1. PICK L \in Seq(Transfers), h \in Nat, m \in Nat, k \in Nat :
        /\ L = e.launched /\ h = Handed(e.launched, Len(e.queue.queue), e.line)
        /\ m = Len(e.written) /\ k = Len(e.buffer)
  BY CopyNumbers
<1>2. PICK w, f, j, x :
        /\ w = BeatWord(e.w_fifo, e.w_beat_idx) /\ f = BeatFifo(e.w_fifo, e.w_beat_idx)
        /\ j = BeatIdx(e.w_fifo, e.w_beat_idx)
        /\ x = [data |-> Head(e.buffer), at |-> w]
  OBVIOUS
<1>3. PICK b, c : /\ b = write_beat_take(e) /\ b = wake(c, 1)
                  /\ c = [buffer_pop(e) EXCEPT !.written = Append(@, x),
                                               !.w_beat_idx = j, !.w_fifo = f]
  <2> DEFINE c == [buffer_pop(e) EXCEPT !.written = Append(@, x),
                                        !.w_beat_idx = j, !.w_fifo = f]
  <2>1. HasFields(e)
    BY DEF Ports
  <2>2. write_beat_take(e) = wake(c, 1)
    BY <1>2, <2>1 DEF write_beat_take, buffer_pop, HasFields, BeatWord, BeatFifo, BeatIdx
  <2> QED BY <2>2
<1>4. /\ SamePorts(e, c) /\ c.launched = e.launched /\ c.queue = e.queue
      /\ c.line = e.line /\ c.req = e.req /\ c.r_left = e.r_left /\ c.w_left = e.w_left
      /\ c.r_fifo = e.r_fifo /\ c.r_beat_idx = e.r_beat_idx
      /\ c.w_fifo = f /\ c.w_beat_idx = j
      /\ c.buffer = Tail(e.buffer) /\ c.written = Append(e.written, x)
  BY <1>3 DEF Ports, buffer_pop, HasFields, SamePorts
<1>5. SameCopy(c, b) /\ SamePorts(c, b)
  <2>1. HasFields(c)
    BY <1>4 DEF SamePorts
  <2> QED BY <1>3, <2>1, WakeQuiet
<1>6. /\ e.w_fifo \in FifoType(Burst) /\ e.w_fifo.queue # <<>>
      /\ Stream(L, e.w_fifo.queue, e.w_beat_idx, m, h - e.w_left)
  BY <1>1 DEF CopyInv, write_beat_ready, head_visible, is_empty
<1>7. /\ f \in FifoType(Burst) /\ Stream(L, f.queue, j, m + 1, h - e.w_left)
      /\ w \in Words /\ IsWord(L, w) /\ Place(L, w) = m
  <2>1. PICK q, idx, to : q = e.w_fifo /\ idx = e.w_beat_idx /\ to = h - e.w_left
    OBVIOUS
  <2>2. w = BeatWord(q, idx) /\ f = BeatFifo(q, idx) /\ j = BeatIdx(q, idx)
    BY <1>2, <2>1
  <2>3. q \in FifoType(Burst) /\ q.queue # <<>> /\ Stream(L, q.queue, idx, m, to)
    BY <1>6, <2>1
  <2>4. /\ f \in FifoType(Burst) /\ Stream(L, f.queue, j, m + 1, to)
        /\ w \in Words /\ IsWord(L, w) /\ Place(L, w) = m
    BY <2>2, <2>3, Beat
  <2> QED BY <2>1, <2>4
<1>8. k # 0 /\ e.buffer # <<>>
  <2>1. k - (IF e.pushed THEN 1 ELSE 0) > 0
    BY <1>1 DEF write_beat_ready, buffer_can_pop
  <2>2. k > 0
    BY <2>1
  <2> QED BY <1>1, <2>2
<1>9. /\ e.buffer \in Seq(Words)
      /\ \A i \in 1 .. k : IsWord(L, e.buffer[i]) /\ Place(L, e.buffer[i]) = m + i - 1
  BY <1>1 DEF CopyInv, Buffered
<1>10. /\ Tail(e.buffer) \in Seq(Words) /\ Len(Tail(e.buffer)) = k - 1
       /\ \A i \in 1 .. k - 1 : Tail(e.buffer)[i] = e.buffer[i + 1]
       /\ Head(e.buffer) = e.buffer[1] /\ Head(e.buffer) \in Words
  BY <1>1, <1>8, <1>9, TailOf
<1>11. Head(e.buffer) = w
  <2>1. PICK v \in Words : v = Head(e.buffer)
    BY <1>10
  <2>2. IsWord(L, v) /\ Place(L, v) = m
    <3>1. 1 \in 1 .. k
      BY <1>8
    <3>2. IsWord(L, v) /\ Place(L, v) = m + 1 - 1
      BY <1>9, <1>10, <2>1, <3>1
    <3> QED BY <3>2
  <2>3. v = w
    BY <1>7, <2>2, PlaceInjective DEF Words
  <2> QED BY <2>1, <2>3
<1>12. Buffered(L, Tail(e.buffer), m + 1)
  <2>1. ASSUME NEW i \in 1 .. k - 1
        PROVE  /\ IsWord(L, Tail(e.buffer)[i])
               /\ Place(L, Tail(e.buffer)[i]) = (m + 1) + i - 1
    <3>1. i + 1 \in 1 .. k /\ Tail(e.buffer)[i] = e.buffer[i + 1]
      BY <1>10
    <3>2. IsWord(L, e.buffer[i + 1]) /\ Place(L, e.buffer[i + 1]) = m + (i + 1) - 1
      BY <1>9, <3>1
    <3>3. m + (i + 1) - 1 = (m + 1) + i - 1
      OBVIOUS
    <3>4. PICK v : v = e.buffer[i + 1]
      OBVIOUS
    <3> QED BY <3>1, <3>2, <3>3, <3>4
  <2> QED BY <1>10, <2>1 DEF Buffered
<1>13. Written(L, Append(e.written, x)) /\ Len(Append(e.written, x)) = m + 1
  <2>1. PICK y : y = Append(e.written, x)
    OBVIOUS
  <2>2. e.written \in Seq([data : Words, at : Words]) /\ x \in [data : Words, at : Words]
    BY <1>2, <1>7, <1>10 DEF CopyInv, Written
  <2>3. /\ y \in Seq([data : Words, at : Words]) /\ Len(y) = m + 1 /\ y[m + 1] = x
        /\ \A i \in 1 .. m : y[i] = e.written[i]
    BY <1>1, <2>1, <2>2, AppendProperties
  <2>4. \A i \in 1 .. m : /\ e.written[i].data = e.written[i].at
                          /\ IsWord(L, e.written[i].at) /\ Place(L, e.written[i].at) = i - 1
    BY <1>1 DEF CopyInv, Written
  <2>5. x.data = x.at /\ IsWord(L, x.at) /\ Place(L, x.at) = m
    BY <1>2, <1>7, <1>11
  <2>6. ASSUME NEW i \in 1 .. m + 1
        PROVE  y[i].data = y[i].at /\ IsWord(L, y[i].at) /\ Place(L, y[i].at) = i - 1
    <3>1. CASE i = m + 1
      BY <2>3, <2>5, <3>1
    <3>2. CASE i \in 1 .. m
      BY <2>3, <2>4, <3>2
    <3> QED BY <3>1, <3>2
  <2> QED BY <2>1, <2>3, <2>6 DEF Written
<1>14. /\ Queued(L, c.queue, c.line) /\ Cutting(L, c.req, c.r_left, c.w_left, h)
       /\ Stream(L, c.r_fifo.queue, c.r_beat_idx, m + k, h - c.r_left)
       /\ c.r_fifo \in FifoType(Burst)
  BY <1>1, <1>4 DEF CopyInv
<1>15. /\ c.launched = L /\ h = Handed(c.launched, Len(c.queue.queue), c.line)
       /\ Len(c.written) = m + 1 /\ Len(c.written) + Len(c.buffer) = m + k
  <2>1. c.launched = L /\ h = Handed(c.launched, Len(c.queue.queue), c.line)
    BY <1>1, <1>4
  <2>2. Len(c.written) = m + 1 /\ Len(c.buffer) = k - 1
    BY <1>4, <1>10, <1>13
  <2>3. (m + 1) + (k - 1) = m + k
    OBVIOUS
  <2> QED BY <2>1, <2>2, <2>3
<1>16. CopyInv(c)
  <2>1. /\ Stream(L, c.w_fifo.queue, c.w_beat_idx, Len(c.written), h - c.w_left)
        /\ c.w_fifo \in FifoType(Burst)
        /\ Buffered(L, c.buffer, Len(c.written)) /\ Written(L, c.written)
    BY <1>4, <1>7, <1>12, <1>13, <1>15
  <2>2. Stream(L, c.r_fifo.queue, c.r_beat_idx,
               Len(c.written) + Len(c.buffer), h - c.r_left)
    BY <1>14, <1>15
  <2> QED BY <1>14, <1>15, <2>1, <2>2 DEF CopyInv
<1>17. Ports(c)
  BY <1>4 DEF Ports, SamePorts
<1>18. CopyInv(b)
  BY <1>5, <1>16, <1>17, CopyFrame
<1> QED BY <1>3, <1>4, <1>5, <1>18 DEF SameCopy, SamePorts

\* The request of the legalizer and what is left of it are the same.
SameCut(a, b) == b.req = a.req /\ b.r_left = a.r_left /\ b.w_left = a.w_left

\* A word read follows the ones in the buffer.
LEMMA ReadTakeCopy ==
  ASSUME NEW e, Ports(e), CopyInv(e), read_beat_can_accept(e)
  PROVE  /\ CopyInv(read_beat_accept(e)) /\ SamePorts(e, read_beat_accept(e))
         /\ SameCut(e, read_beat_accept(e))
<1>1. PICK L \in Seq(Transfers), h \in Nat, m \in Nat, k \in Nat :
        /\ L = e.launched /\ h = Handed(e.launched, Len(e.queue.queue), e.line)
        /\ m = Len(e.written) /\ k = Len(e.buffer)
  BY CopyNumbers
<1>2. PICK w, f, j :
        /\ w = BeatWord(e.r_fifo, e.r_beat_idx) /\ f = BeatFifo(e.r_fifo, e.r_beat_idx)
        /\ j = BeatIdx(e.r_fifo, e.r_beat_idx)
  OBVIOUS
<1>3. PICK g, o : /\ g = buffer_push(e, w)
                  /\ o = IF e.r_beat_idx = 0 /\ ~head(e.r_fifo).req.decouple_aw
                         THEN on_read_first_beat(g) ELSE g
  OBVIOUS
<1>4. /\ SamePorts(e, g) /\ HasFields(g) /\ g.launched = e.launched /\ g.queue = e.queue
      /\ g.line = e.line /\ g.req = e.req /\ g.r_left = e.r_left /\ g.w_left = e.w_left
      /\ g.r_fifo = e.r_fifo /\ g.r_beat_idx = e.r_beat_idx
      /\ g.w_fifo = e.w_fifo /\ g.w_beat_idx = e.w_beat_idx
      /\ g.buffer = Append(e.buffer, w) /\ g.written = e.written
  BY <1>3 DEF Ports, buffer_push, HasFields, SamePorts
<1>5. SameCopy(g, o) /\ SamePorts(g, o) /\ HasFields(o)
  <2>1. SameCopy(g, o) /\ SamePorts(g, o)
    BY <1>3, <1>4, CreditQuiet DEF SameCopy, SamePorts
  <2> QED BY <2>1 DEF SamePorts
<1>6. PICK b, c, reads : /\ b = read_beat_accept(e) /\ b = wake(c, 1)
                         /\ c = [o EXCEPT !.r_beat_idx = j, !.r_fifo = f, !.reads = reads]
  <2> DEFINE reads == IF Head(e.reads) = 1 THEN Tail(e.reads)
                      ELSE [e.reads EXCEPT ![1] = @ - 1]
             c == [o EXCEPT !.r_beat_idx = j, !.r_fifo = f, !.reads = reads]
  <2>1. o.r_fifo = e.r_fifo /\ o.r_beat_idx = e.r_beat_idx
    BY <1>4, <1>5 DEF SameCopy
  <2> DEFINE last == e.r_beat_idx + 1 = head(e.r_fifo).beats
             v == [o EXCEPT !.r_beat_idx = IF last THEN 0 ELSE @ + 1,
                            !.r_fifo = IF last THEN pop(@) ELSE @,
                            !.reads = reads]
  <2>2. read_beat_accept(e) = wake(v, 1)
    BY <1>2, <1>3 DEF read_beat_accept, BeatWord
  <2>3. /\ j = IF last THEN 0 ELSE o.r_beat_idx + 1
        /\ f = IF last THEN pop(o.r_fifo) ELSE o.r_fifo
    BY <1>2, <2>1 DEF BeatFifo, BeatIdx
  <2>4. v = c
    BY <2>3
  <2> HIDE DEF c, v
  <2>5. read_beat_accept(e) = wake(c, 1)
    BY <2>2, <2>4
  <2> QED BY <2>5 DEF c
<1>7. /\ SamePorts(o, c) /\ HasFields(c) /\ c.launched = o.launched /\ c.queue = o.queue
      /\ c.line = o.line /\ c.req = o.req /\ c.r_left = o.r_left /\ c.w_left = o.w_left
      /\ c.w_fifo = o.w_fifo /\ c.w_beat_idx = o.w_beat_idx
      /\ c.r_fifo = f /\ c.r_beat_idx = j
      /\ c.buffer = o.buffer /\ c.written = o.written
  BY <1>5, <1>6 DEF HasFields, SamePorts
<1>8. /\ SamePorts(e, c) /\ c.launched = e.launched /\ c.queue = e.queue
      /\ c.line = e.line /\ c.req = e.req /\ c.r_left = e.r_left /\ c.w_left = e.w_left
      /\ c.w_fifo = e.w_fifo /\ c.w_beat_idx = e.w_beat_idx
      /\ c.r_fifo = f /\ c.r_beat_idx = j
      /\ c.buffer = Append(e.buffer, w) /\ c.written = e.written
  BY <1>4, <1>5, <1>7 DEF SameCopy, SamePorts
<1>9. SameCopy(c, b) /\ SamePorts(c, b)
  BY <1>6, <1>7, WakeQuiet
<1>10. /\ e.r_fifo \in FifoType(Burst) /\ e.r_fifo.queue # <<>>
       /\ Stream(L, e.r_fifo.queue, e.r_beat_idx, m + k, h - e.r_left)
  BY <1>1 DEF CopyInv, read_beat_can_accept, head_visible, is_empty
<1>11. PICK n \in Nat : n = m + k
  OBVIOUS
<1>12. /\ f \in FifoType(Burst) /\ Stream(L, f.queue, j, n + 1, h - e.r_left)
       /\ w \in Words /\ IsWord(L, w) /\ Place(L, w) = n
  <2>1. PICK q, idx, to : q = e.r_fifo /\ idx = e.r_beat_idx /\ to = h - e.r_left
    OBVIOUS
  <2>2. w = BeatWord(q, idx) /\ f = BeatFifo(q, idx) /\ j = BeatIdx(q, idx)
    BY <1>2, <2>1
  <2>3. q \in FifoType(Burst) /\ q.queue # <<>> /\ Stream(L, q.queue, idx, n, to)
    BY <1>10, <1>11, <2>1
  <2>4. /\ f \in FifoType(Burst) /\ Stream(L, f.queue, j, n + 1, to)
        /\ w \in Words /\ IsWord(L, w) /\ Place(L, w) = n
    BY <2>2, <2>3, Beat
  <2> QED BY <2>1, <2>4
<1>13. PICK y : y = Append(e.buffer, w)
  OBVIOUS
<1>14. e.buffer \in Seq(Words)
  BY DEF CopyInv, Buffered
<1>15. /\ y \in Seq(Words) /\ Len(y) = k + 1 /\ y[k + 1] = w
       /\ \A i \in 1 .. k : y[i] = e.buffer[i]
  BY <1>1, <1>12, <1>13, <1>14, AppendProperties
<1>16. Buffered(L, y, m)
  <2>1. \A i \in 1 .. k : IsWord(L, e.buffer[i]) /\ Place(L, e.buffer[i]) = m + i - 1
    BY <1>1 DEF CopyInv, Buffered
  <2>2. ASSUME NEW i \in 1 .. k + 1
        PROVE  IsWord(L, y[i]) /\ Place(L, y[i]) = m + i - 1
    <3>1. CASE i = k + 1
      <4>1. n = m + i - 1
        BY <1>11, <3>1
      <4> QED BY <1>12, <1>15, <3>1, <4>1
    <3>2. CASE i \in 1 .. k
      BY <1>15, <2>1, <3>2
    <3> QED BY <3>1, <3>2
  <2> QED BY <1>15, <2>2 DEF Buffered
<1>17. /\ Queued(L, c.queue, c.line) /\ Cutting(L, c.req, c.r_left, c.w_left, h)
       /\ c.w_fifo \in FifoType(Burst)
       /\ Stream(L, c.w_fifo.queue, c.w_beat_idx, Len(c.written), h - c.w_left)
       /\ Written(L, c.written)
  BY <1>1, <1>8 DEF CopyInv
<1>18. /\ c.launched = L /\ h = Handed(c.launched, Len(c.queue.queue), c.line)
       /\ Len(c.written) + Len(c.buffer) = n + 1
  <2>1. c.launched = L /\ h = Handed(c.launched, Len(c.queue.queue), c.line)
    BY <1>1, <1>8
  <2>2. Len(c.written) = m /\ Len(c.buffer) = k + 1
    BY <1>1, <1>8, <1>13, <1>15
  <2>3. m + (k + 1) = n + 1
    BY <1>11
  <2> QED BY <2>1, <2>2, <2>3
<1>19. CopyInv(c)
  <2>1. /\ Stream(L, c.r_fifo.queue, c.r_beat_idx,
                  Len(c.written) + Len(c.buffer), h - c.r_left)
        /\ c.r_fifo \in FifoType(Burst) /\ Buffered(L, c.buffer, Len(c.written))
    BY <1>1, <1>8, <1>12, <1>13, <1>16, <1>18
  <2> QED BY <1>17, <1>18, <2>1 DEF CopyInv
<1>20. Ports(c)
  BY <1>8 DEF Ports, SamePorts
<1>21. CopyInv(b)
  BY <1>9, <1>19, <1>20, CopyFrame
<1> QED BY <1>6, <1>8, <1>9, <1>21 DEF SameCopy, SamePorts, SameCut

\* A beat that is written keeps the copying in order.
LEMMA WriteTickCopy ==
  ASSUME NEW e, Ports(e), CopyInv(e), NEW answer
  PROVE  /\ CopyInv(write_tick(e, answer)) /\ SamePorts(e, write_tick(e, answer))
         /\ SameCut(e, write_tick(e, answer))
<1>1. HasFields(e) /\ SameCut(e, e) /\ SamePorts(e, e)
  BY DEF Ports, SameCut, SamePorts
<1>2. CASE write_can_tick(e)
  <2>1. PICK last, f, g : /\ last = (e.w_beat_idx + 1 = head(e.w_fifo).beats)
                          /\ f = write_beat_take(e)
                          /\ g = [f EXCEPT !.data_queue = IF last THEN Tail(@) ELSE @]
    OBVIOUS
  <2>2. PICK b : b = send_beat(g, last, answer)
    OBVIOUS
  <2>3. write_tick(e, answer) = b
    BY <1>2, <2>1, <2>2 DEF write_tick
  <2>4. CopyInv(f) /\ SamePorts(e, f) /\ SameCut(e, f)
    BY <1>2, <2>1, WriteTakeCopy DEF write_can_tick, SameCut
  <2>5. SameCopy(f, g) /\ SamePorts(f, g) /\ HasFields(g)
    BY <2>1, <2>4 DEF SameCopy, SamePorts, HasFields
  <2>6. SameCopy(g, b) /\ SamePorts(g, b)
    BY <2>2, <2>5, SendQuiet
  <2>7. SameCopy(f, b) /\ SamePorts(f, b)
    BY <2>5, <2>6, SameTwice
  <2>8. Ports(f)
    BY <2>4 DEF Ports, SamePorts
  <2>9. CopyInv(b)
    BY <2>4, <2>7, <2>8, CopyFrame
  <2> QED BY <2>3, <2>4, <2>7, <2>9 DEF SameCopy, SamePorts, SameCut
<1>3. CASE ~write_can_tick(e)
  BY <1>1, <1>3 DEF write_tick
<1> QED BY <1>2, <1>3

\* So does a beat that is read, taken at once or held.
LEMMA ReadBeatCopy ==
  ASSUME NEW e, Ports(e), CopyInv(e)
  PROVE  /\ CopyInv(retry_held_beat(e)) /\ SamePorts(e, retry_held_beat(e))
         /\ SameCut(e, retry_held_beat(e))
         /\ CopyInv(resp_meth(e)) /\ SamePorts(e, resp_meth(e)) /\ SameCut(e, resp_meth(e))
<1>1. HasFields(e) /\ SameCut(e, e) /\ SamePorts(e, e)
  BY DEF Ports, SameCut, SamePorts
<1>2. ASSUME NEW held \in BOOLEAN, NEW f, f = [e EXCEPT !.held_resp = held]
      PROVE  /\ SameCopy(e, f) /\ SamePorts(e, f) /\ SameCut(e, f)
             /\ Ports(f) /\ CopyInv(f) /\ HasFields(f)
             /\ read_beat_can_accept(f) = read_beat_can_accept(e)
  <2>1. /\ SameCopy(e, f) /\ SamePorts(e, f) /\ SameCut(e, f) /\ HasFields(f)
        /\ f.pushed = e.pushed
    BY <1>1, <1>2 DEF HasFields, SameCopy, SamePorts, SameCut
  <2>2. Ports(f) /\ CopyInv(f)
    BY <2>1, CopyFrame
  <2> QED BY <2>1, <2>2 DEF SameCopy, read_beat_can_accept, head_visible, is_empty,
                            buffer_can_push
<1>3. PICK f, g : f = [e EXCEPT !.held_resp = FALSE] /\ g = [e EXCEPT !.held_resp = TRUE]
  OBVIOUS
<1>4. CopyInv(retry_held_beat(e)) /\ SamePorts(e, retry_held_beat(e))
      /\ SameCut(e, retry_held_beat(e))
  <2>1. CASE e.held_resp /\ read_beat_can_accept(e)
    <3>1. retry_held_beat(e) = read_beat_accept(f)
      BY <1>3, <2>1 DEF retry_held_beat
    <3>2. /\ SamePorts(e, f) /\ SameCut(e, f) /\ Ports(f) /\ CopyInv(f)
          /\ read_beat_can_accept(f)
      BY <1>2, <1>3, <2>1
    <3>3. /\ CopyInv(read_beat_accept(f)) /\ SamePorts(f, read_beat_accept(f))
          /\ SameCut(f, read_beat_accept(f))
      BY <3>2, ReadTakeCopy
    <3> QED BY <3>1, <3>2, <3>3 DEF SamePorts, SameCut
  <2>2. CASE ~(e.held_resp /\ read_beat_can_accept(e))
    BY <1>1, <2>2 DEF retry_held_beat
  <2> QED BY <2>1, <2>2
<1>5. CopyInv(resp_meth(e)) /\ SamePorts(e, resp_meth(e)) /\ SameCut(e, resp_meth(e))
  <2>1. CASE read_beat_can_accept(e)
    BY <2>1, ReadTakeCopy DEF resp_meth
  <2>2. CASE ~read_beat_can_accept(e)
    <3>1. resp_meth(e) = wake(g, 1)
      BY <1>3, <2>2 DEF resp_meth
    <3>2. SamePorts(e, g) /\ SameCut(e, g) /\ Ports(g) /\ CopyInv(g) /\ HasFields(g)
      BY <1>2, <1>3
    <3>3. SameCopy(g, wake(g, 1)) /\ SamePorts(g, wake(g, 1))
      BY <3>2, WakeQuiet
    <3>4. CopyInv(wake(g, 1))
      BY <3>2, <3>3, CopyFrame
    <3> QED BY <3>1, <3>2, <3>3, <3>4 DEF SameCopy, SamePorts, SameCut
  <2> QED BY <2>1, <2>2
<1> QED BY <1>4, <1>5

-----------------------------------------------------------------------------
(***************************************************************************)
(* Launches, completions and cycles.                                       *)
(***************************************************************************)

\* A launch does not move the lines and words of the transfers before it.
LEMMA PlacesLaunch ==
  ASSUME NEW L \in Seq(Transfers), NEW tr \in Transfers, NEW M, M = Append(L, tr)
  PROVE  /\ \A r : IsLine(L, r) => IsLine(M, r) /\ LineStart(M, r) = LineStart(L, r)
         /\ \A w : IsWord(L, w) => IsWord(M, w) /\ Place(M, w) = Place(L, w)
<1>1. /\ M \in Seq(Transfers) /\ Len(M) = Len(L) + 1 /\ Len(L) \in Nat
      /\ \A i \in 1 .. Len(L) : M[i] = L[i]
  BY AppendProperties
<1>2. DOMAIN L = 1 .. Len(L) /\ DOMAIN M = 1 .. Len(M)
  BY <1>1, LenProperties
<1>3. ASSUME NEW n \in 1 .. Len(L)
      PROVE  n \in 1 .. Len(M) /\ M[n] = L[n] /\ WordsBefore(M)[n] = WordsBefore(L)[n]
  <2>1. n \in 1 .. Len(L) + 1
    BY <1>1
  <2> QED BY <1>1, <2>1, WordsBeforeLaunch
<1>4. ASSUME NEW r, IsLine(L, r)
      PROVE  IsLine(M, r) /\ LineStart(M, r) = LineStart(L, r)
  <2>1. PICK n \in 1 .. Len(L) : n = r.nr
    BY <1>4 DEF IsLine
  <2> QED BY <1>3, <1>4, <2>1 DEF IsLine, LineStart
<1>5. ASSUME NEW w, IsWord(L, w)
      PROVE  IsWord(M, w) /\ Place(M, w) = Place(L, w)
  <2>1. PICK n \in 1 .. Len(L) : n = w.nr
    BY <1>2, <1>5 DEF IsWord
  <2> QED BY <1>2, <1>3, <1>5, <2>1 DEF IsWord, Place
<1> QED BY <1>4, <1>5

\* A transfer launched is the last one of the queue.
LEMMA QueueLaunch ==
  ASSUME NEW L, NEW q, NEW line, Queued(L, q, line), NEW tr \in Transfers, NEW w \in Nat,
         NEW x \in Entry, x.nr = Len(L) + 1, x.req = tr
  PROVE  /\ Queued(Append(L, tr), push(q, x, w), line)
         /\ Handed(Append(L, tr), Len(push(q, x, w).queue), line) =
                Handed(L, Len(q.queue), line)
<1>0. PICK M, p : M = Append(L, tr) /\ p = push(q, x, w)
  OBVIOUS
<1>1. L \in Seq(Transfers) /\ q \in FifoType(Entry) /\ line \in Nat
  BY DEF Queued
<1>2. PICK m \in Nat, n \in Nat : m = Len(L) /\ n = Len(q.queue)
  BY QueueFacts
<1>3. n <= m
  BY <1>2 DEF Queued
<1>4. /\ M \in Seq(Transfers) /\ Len(M) = m + 1 /\ M[m + 1] = tr
      /\ \A i \in 1 .. m : M[i] = L[i]
  BY <1>0, <1>1, <1>2, AppendProperties
<1>5. x = [nr |-> m + 1, req |-> tr]
  BY <1>2 DEF Entry
<1>6. /\ p \in FifoType(Entry) /\ Len(p.queue) = Len(q.queue) + 1
      /\ \A i \in 1 .. Len(q.queue) : p.queue[i] = q.queue[i]
      /\ p.queue[Len(q.queue) + 1].entry = x
  BY <1>0, <1>1, PushFifo
<1>7. /\ p \in FifoType(Entry) /\ Len(p.queue) = n + 1
      /\ \A i \in 1 .. n : p.queue[i] = q.queue[i]
      /\ p.queue[n + 1].entry = x
  BY <1>2, <1>6
<1>8. ASSUME NEW i \in 1 .. n + 1
      PROVE  p.queue[i].entry = [nr |-> (m + 1) - (n + 1) + i, req |-> M[(m + 1) - (n + 1) + i]]
  <2>1. PICK k : k = m - n + i
    OBVIOUS
  <2>2. (m + 1) - (n + 1) + i = k
    BY <2>1
  <2>3. CASE i = n + 1
    <3>1. k = m + 1 /\ p.queue[i].entry = x
      BY <1>7, <2>1, <2>3
    <3> QED BY <1>4, <1>5, <2>2, <3>1
  <2>4. CASE i \in 1 .. n
    <3>1. q.queue[i].entry = [nr |-> k, req |-> L[k]]
      BY <1>2, <2>1, <2>4 DEF Queued
    <3>2. k \in 1 .. m
      BY <1>3, <2>1, <2>4
    <3> QED BY <1>4, <1>7, <2>2, <2>4, <3>1, <3>2
  <2>5. i = n + 1 \/ i \in 1 .. n
    OBVIOUS
  <2> QED BY <2>3, <2>4, <2>5, Zenon
<1>9. line < Lines(p.queue[1].entry.req) /\ p.queue # <<>>
  <2>1. CASE n = 0
    <3>1. line = 0
      BY <1>2, <2>1, QueueFacts DEF Queued
    <3>2. p.queue[1].entry = x
      BY <1>7, <2>1
    <3>3. p.queue[1].entry.req = tr
      BY <1>5, <3>2
    <3>4. Lines(tr) \in Nat \ {0}
      BY TransferFacts
    <3> QED BY <1>7, <3>1, <3>3, <3>4
  <2>2. CASE n # 0
    <3>1. line < Lines(q.queue[1].entry.req)
      BY <1>2, <2>2, QueueFacts DEF Queued
    <3>2. p.queue[1] = q.queue[1]
      BY <1>7, <2>2
    <3> QED BY <1>7, <3>1, <3>2
  <2> QED BY <2>1, <2>2
<1>10. Queued(M, p, line)
  <2>1. PICK u, v : u = m + 1 /\ v = n + 1
    OBVIOUS
  <2>2. /\ Len(M) = u /\ Len(p.queue) = v /\ v <= u
        /\ \A i \in 1 .. v : p.queue[i].entry = [nr |-> u - v + i, req |-> M[u - v + i]]
    BY <1>3, <1>4, <1>7, <1>8, <2>1
  <2> QED BY <1>1, <1>4, <1>7, <1>9, <2>2 DEF Queued
<1>11. PICK k \in Nat : k = m - n + 1
  BY <1>3
<1>12. NextNr(L, n) = k /\ NextNr(M, n + 1) = k /\ k \in 1 .. m + 1
  <2>1. m - n + 1 = k /\ (m + 1) - (n + 1) + 1 = k /\ k \in 1 .. m + 1
    BY <1>3, <1>11
  <2>2. NextNr(L, n) = m - n + 1 /\ NextNr(M, n + 1) = (m + 1) - (n + 1) + 1
    BY <1>2, <1>4 DEF NextNr
  <2> QED BY <2>1, <2>2
<1>13. WordsBefore(M)[k] = WordsBefore(L)[k]
  BY <1>0, <1>1, <1>2, <1>12, WordsBeforeLaunch
<1>14. line # 0 => M[k] = L[k]
  <2>1. line # 0 => n # 0
    BY <1>2, QueueFacts DEF Queued
  <2>2. n # 0 => k \in 1 .. m
    BY <1>3, <1>11
  <2> QED BY <1>4, <2>1, <2>2
<1>15. Handed(M, n + 1, line) = Handed(L, n, line)
  BY <1>12, <1>13, <1>14 DEF Handed
<1> QED BY <1>0, <1>2, <1>7, <1>10, <1>15

\* A launch keeps the copying in order.
LEMMA LaunchCopy ==
  ASSUME NEW e, Ports(e), CopyInv(e), NEW p \in Port, NEW tr \in Transfers
  PROVE  /\ CopyInv(launch(e, p, tr)) /\ Ports(launch(e, p, tr))
         /\ SameCut(e, launch(e, p, tr))
<1>1. HasFields(e)
  BY DEF Ports
<1>2. PICK delay \in Nat : delay = IF e.busy THEN 0 ELSE launch_bubble
  BY IdmaFrontAssumption
<1>3. PICK L \in Seq(Transfers), h \in Nat, M \in {Append(e.launched, tr)},
             q \in {push(e.queue, [nr |-> Len(e.launched) + 1, req |-> tr], delay)} :
        /\ L = e.launched /\ h = Handed(e.launched, Len(e.queue.queue), e.line)
        /\ M = Append(L, tr) /\ q = push(e.queue, [nr |-> Len(L) + 1, req |-> tr], delay)
  BY CopyNumbers
<1>4. CASE can_push(e.queue, req_fifo_depth)
  <2>1. PICK f, b : /\ f = [e EXCEPT !.next_id = next_identifier(@), !.queue = q,
                                     !.launch_pending[p] = None, !.launched = M]
                    /\ b = launch(e, p, tr) /\ b = [wake(f, 1 + delay) EXCEPT !.busy = TRUE]
    <3> DEFINE f == [e EXCEPT !.next_id = next_identifier(@), !.queue = q,
                              !.launch_pending[p] = None, !.launched = M]
    <3>1. launch(e, p, tr) = [wake(f, 1 + delay) EXCEPT !.busy = TRUE]
      BY <1>2, <1>3, <1>4 DEF launch
    <3> HIDE DEF f
    <3> QED BY <3>1 DEF f
  <2>2. /\ HasFields(f) /\ f.launched = M /\ f.queue = q /\ f.line = e.line
        /\ f.req = e.req /\ f.r_left = e.r_left /\ f.w_left = e.w_left
        /\ f.r_fifo = e.r_fifo /\ f.w_fifo = e.w_fifo
        /\ f.r_beat_idx = e.r_beat_idx /\ f.w_beat_idx = e.w_beat_idx
        /\ f.buffer = e.buffer /\ f.written = e.written
        /\ f.launch_pending = [e.launch_pending EXCEPT ![p] = None] /\ f.rr_port = e.rr_port
    BY <1>1, <2>1 DEF HasFields
  <2>3. SameCopy(f, b) /\ SamePorts(f, b)
    <3>1. PICK c : c = wake(f, 1 + delay)
      OBVIOUS
    <3>2. SameCopy(f, c) /\ SamePorts(f, c)
      BY <2>2, <3>1, WakeQuiet
    <3>3. SameCopy(c, b) /\ SamePorts(c, b)
      BY <2>1, <3>1, <3>2 DEF SameCopy, SamePorts, HasFields
    <3> QED BY <3>2, <3>3, SameTwice
  <2>4. Ports(f)
    BY <2>2 DEF Ports
  <2>5. Queued(M, q, f.line) /\ Handed(M, Len(q.queue), f.line) = h
    <3>1. PICK line, v : line = e.line /\ v = e.queue
      OBVIOUS
    <3>2. Queued(L, v, line)
      BY <1>3, <3>1 DEF CopyInv
    <3>3. PICK x : x = [nr |-> Len(L) + 1, req |-> tr]
      OBVIOUS
    <3>4. Len(L) \in Nat
      OBVIOUS
    <3>5. q = push(v, x, delay) /\ x \in Entry /\ x.nr = Len(L) + 1 /\ x.req = tr
      BY <1>3, <3>1, <3>3, <3>4 DEF Entry
    <3>6. M = Append(L, tr)
      BY <1>3
    <3>7. Queued(M, q, line) /\ Handed(M, Len(q.queue), line) = Handed(L, Len(v.queue), line)
      BY <3>2, <3>5, <3>6, QueueLaunch
    <3> QED BY <1>3, <2>2, <3>1, <3>7
  <2>6. /\ \A r : IsLine(L, r) => IsLine(M, r) /\ LineStart(M, r) = LineStart(L, r)
        /\ \A w : IsWord(L, w) => IsWord(M, w) /\ Place(M, w) = Place(L, w)
    <3>1. M = Append(L, tr)
      BY <1>3
    <3> QED BY <3>1, PlacesLaunch, ZenonT(30)
  <2>7. Cutting(M, f.req, f.r_left, f.w_left, h)
    <3>1. Cutting(L, e.req, e.r_left, e.w_left, h)
      BY <1>3 DEF CopyInv
    <3> QED BY <2>2, <2>6, <3>1 DEF Cutting
  <2>8. Buffered(M, f.buffer, Len(f.written)) /\ Written(M, f.written)
    <3>1. Buffered(L, e.buffer, Len(e.written)) /\ Written(L, e.written)
      BY <1>3 DEF CopyInv
    <3> QED BY <2>2, <2>6, <3>1 DEF Buffered, Written
  <2>9. /\ Stream(M, f.r_fifo.queue, f.r_beat_idx,
                  Len(f.written) + Len(f.buffer), h - f.r_left)
        /\ Stream(M, f.w_fifo.queue, f.w_beat_idx, Len(f.written), h - f.w_left)
        /\ f.r_fifo \in FifoType(Burst) /\ f.w_fifo \in FifoType(Burst)
    <3>1. PICK x, y, i, j, s, t, u, v :
            /\ x = e.r_fifo.queue /\ y = e.w_fifo.queue
            /\ i = e.r_beat_idx /\ j = e.w_beat_idx
            /\ s = Len(e.written) + Len(e.buffer) /\ t = Len(e.written)
            /\ u = h - e.r_left /\ v = h - e.w_left
      OBVIOUS
    <3>2. Stream(L, x, i, s, u) /\ Stream(L, y, j, t, v)
      BY <1>3, <3>1 DEF CopyInv
    <3>3. Len(x) \in Nat /\ Len(y) \in Nat
      BY <3>1, CopyNumbers
    <3>4. Stream(M, x, i, s, u)
      BY <1>3, <3>2, <3>3, StreamLaunch
    <3>5. Stream(M, y, j, t, v)
      BY <1>3, <3>2, <3>3, StreamLaunch
    <3>6. e.r_fifo \in FifoType(Burst) /\ e.w_fifo \in FifoType(Burst)
      BY DEF CopyInv
    <3> QED BY <2>2, <3>1, <3>4, <3>5, <3>6
  <2>10. CopyInv(f)
    BY <2>2, <2>5, <2>7, <2>8, <2>9 DEF CopyInv
  <2>11. CopyInv(b) /\ Ports(b)
    BY <2>3, <2>4, <2>10, CopyFrame
  <2> QED BY <2>1, <2>2, <2>3, <2>11 DEF SameCopy, SameCut
<1>5. CASE ~can_push(e.queue, req_fifo_depth)
  <2>1. PICK b : b = launch(e, p, tr) /\ b = [e EXCEPT !.launch_pending[p] = tr]
    BY <1>5 DEF launch
  <2>2. SameCopy(e, b) /\ SameCut(e, b) /\ Ports(b)
    BY <1>1, <2>1 DEF SameCopy, SameCut, Ports, HasFields
  <2>3. CopyInv(b)
    BY <2>2 DEF SameCopy, CopyInv
  <2> QED BY <2>1, <2>2, <2>3
<1> QED BY <1>4, <1>5

\* A retry leaves the state, moves on to the next port, or launches.
LEMMA RetryIs ==
  ASSUME NEW e, Ports(e), NEW f, f = [e EXCEPT !.rr_port = (e.rr_port + 1) % NbPorts]
  PROVE  /\ \/ retry_port(e) = e
            \/ retry_port(e) = f
            \/ /\ e.launch_pending[e.rr_port] \in Transfers
               /\ retry_port(e) = launch(f, e.rr_port, e.launch_pending[e.rr_port])
         /\ SameCopy(e, f) /\ SameCut(e, f) /\ Ports(f) /\ e.rr_port \in Port
<1>1. HasFields(e) /\ e.rr_port \in Port
      /\ e.launch_pending \in [Port -> Transfers \cup {None}]
  BY DEF Ports
<1>2. (e.rr_port + 1) % NbPorts \in Port
  BY <1>1, IdmaFrontAssumption DEF Port
<1>3. SameCopy(e, f) /\ SameCut(e, f) /\ Ports(f)
  BY <1>1, <1>2 DEF SameCopy, SameCut, Ports, HasFields
<1>4. e.launch_pending[e.rr_port] # None => e.launch_pending[e.rr_port] \in Transfers
  BY <1>1
<1> QED BY <1>1, <1>3, <1>4 DEF retry_port

\* The ports are tried one after the other.
LEMMA ReadyIs ==
  ASSUME NEW e
  PROVE  \E t : /\ t[0] = e /\ stream_ready(e) = t[NbPorts]
                /\ \A n \in 0 .. NbPorts - 1 : t[n + 1] = retry_port(t[n])
<1> DEFINE P(m) == \E t : t = [n \in 0 .. m |-> IF n = 0 THEN e ELSE retry_port(t[n - 1])]
           Bad == {m \in Nat : ~P(m)}
<1>1. Bad = {}
  <2> SUFFICES ASSUME Bad # {} PROVE FALSE
    OBVIOUS
  <2>1. PICK m \in Bad : \A j \in Bad : m <= j
    <3> HIDE DEF P
    <3> QED BY NatHasMin
  <2>2. P(0)
    <3> DEFINE g == [n \in 0 .. 0 |-> e]
    <3>1. g = [n \in 0 .. 0 |-> IF n = 0 THEN e ELSE retry_port(g[n - 1])]
      OBVIOUS
    <3> QED BY <3>1
  <2>3. m \in Nat \ {0}
    <3> HIDE DEF P
    <3>1. m \in Nat /\ ~P(m)
      BY <2>1
    <3>2. m # 0
      BY <2>2, <3>1, Zenon
    <3> QED BY <3>1, <3>2
  <2>4. P(m - 1)
    <3> HIDE DEF P
    <3> QED BY <2>1, <2>3
  <2>5. PICK f : f = [n \in 0 .. m - 1 |-> IF n = 0 THEN e ELSE retry_port(f[n - 1])]
    BY <2>4
  <2> DEFINE g == [n \in 0 .. m |-> IF n < m THEN f[n] ELSE retry_port(f[n - 1])]
             h == [n \in 0 .. m |-> IF n = 0 THEN e ELSE retry_port(g[n - 1])]
  <2>6. ASSUME NEW n \in 0 .. m PROVE g[n] = h[n]
    <3>1. n # 0 => n - 1 \in 0 .. m - 1 /\ g[n - 1] = f[n - 1]
      BY <2>3
    <3>2. n < m => n \in 0 .. m - 1 /\ g[n] = f[n]
      BY <2>3
    <3>3. n < m => f[n] = IF n = 0 THEN e ELSE retry_port(f[n - 1])
      BY <2>5, <3>2
    <3>4. ~(n < m) => n # 0 /\ g[n] = retry_port(f[n - 1])
      BY <2>3
    <3>5. h[n] = IF n = 0 THEN e ELSE retry_port(g[n - 1])
      OBVIOUS
    <3> HIDE DEF g, h
    <3> QED BY <3>1, <3>2, <3>3, <3>4, <3>5
  <2>7. g = h
    <3>1. DOMAIN g = 0 .. m /\ DOMAIN h = 0 .. m
      OBVIOUS
    <3>2. g = [n \in DOMAIN g |-> g[n]] /\ h = [n \in DOMAIN h |-> h[n]]
      OBVIOUS
    <3> HIDE DEF g, h
    <3> QED BY <2>6, <3>1, <3>2
  <2>8. P(m)
    <3>1. g = [n \in 0 .. m |-> IF n = 0 THEN e ELSE retry_port(g[n - 1])]
      BY <2>7
    <3> HIDE DEF g, h
    <3> QED BY <3>1
  <2> HIDE DEF P
  <2> QED BY <2>1, <2>8
<1>2. NbPorts \in Nat \ {0}
  BY IdmaFrontAssumption
<1>3. P(NbPorts)
  <2> HIDE DEF P
  <2> QED BY <1>1, <1>2
<1> DEFINE t == CHOOSE t : t = [n \in 0 .. NbPorts |->
                                    IF n = 0 THEN e ELSE retry_port(t[n - 1])]
<1>4. t = [n \in 0 .. NbPorts |-> IF n = 0 THEN e ELSE retry_port(t[n - 1])]
  BY <1>3
<1>5. stream_ready(e) = t[NbPorts]
  BY DEF stream_ready
<1> HIDE DEF t
<1>6. t[0] = e
  BY <1>2, <1>4
<1>7. ASSUME NEW n \in 0 .. NbPorts - 1 PROVE t[n + 1] = retry_port(t[n])
  <2>1. PICK k : k = n + 1
    OBVIOUS
  <2>2. k \in 0 .. NbPorts /\ k # 0 /\ k - 1 = n
    BY <1>2, <2>1
  <2>3. t[k] = retry_port(t[k - 1])
    BY <1>4, <2>2
  <2> QED BY <2>1, <2>2, <2>3
<1> QED BY <1>5, <1>6, <1>7

\* S has the states between the retries: what holds at first and is kept by
\* each of them holds at last.
Tried(e, S) ==
    /\ e \in S
    /\ \A G \in SUBSET S :
            e \in G /\ (\A x \in G : retry_port(x) \in S => retry_port(x) \in G) =>
                stream_ready(e) \in G

\* There is such a set.
LEMMA ReadyKeeps ==
  ASSUME NEW e
  PROVE  \E S : Tried(e, S)
<1>1. PICK t : /\ t[0] = e /\ stream_ready(e) = t[NbPorts]
               /\ \A n \in 0 .. NbPorts - 1 : t[n + 1] = retry_port(t[n])
  BY ReadyIs
<1>2. NbPorts \in Nat \ {0}
  BY IdmaFrontAssumption
<1> DEFINE S == {t[n] : n \in 0 .. NbPorts}
<1>3. ASSUME NEW G \in SUBSET S, e \in G,
             \A x \in G : retry_port(x) \in S => retry_port(x) \in G
      PROVE  stream_ready(e) \in G
  <2> DEFINE Bad == {n \in Nat : n <= NbPorts /\ t[n] \notin G}
  <2>1. ASSUME Bad # {} PROVE FALSE
    <3>1. PICK m \in Bad : \A j \in Bad : m <= j
      BY <2>1, NatHasMin
    <3>2. m # 0
      BY <1>1, <1>3, <3>1
    <3>3. PICK k \in Nat : m = k + 1
      BY <3>1, <3>2
    <3>4. k \in 0 .. NbPorts - 1 /\ k \notin Bad /\ k <= NbPorts /\ m \in 0 .. NbPorts
      BY <1>2, <3>1, <3>3
    <3>5. t[k] \in G /\ t[m] \in S
      BY <3>4
    <3>6. t[m] = retry_port(t[k])
      BY <1>1, <3>3, <3>4
    <3>7. t[m] \in G
      BY <1>3, <3>5, <3>6
    <3> QED BY <3>1, <3>7
  <2> QED BY <1>1, <1>2, <2>1
<1>4. e \in S
  BY <1>1, <1>2
<1> HIDE DEF S
<1>5. Tried(e, S)
  BY <1>3, <1>4 DEF Tried
<1> QED BY <1>5

\* The state of the iDMA as far as the copying goes.
DataInv(e) == Ports(e) /\ CopyInv(e) /\ Tidy(e)

\* Tidy depends on the request only.
LEMMA TidyFrame ==
  ASSUME NEW a, NEW b, SameCut(a, b), Tidy(a)
  PROVE  Tidy(b)
BY DEF SameCut, Tidy, all_cut

\* A retry keeps the copying in order.
LEMMA RetryData ==
  ASSUME NEW x, DataInv(x)
  PROVE  DataInv(retry_port(x))
<1>1. Ports(x) /\ CopyInv(x) /\ Tidy(x)
  BY DEF DataInv
<1>2. PICK f : f = [x EXCEPT !.rr_port = (x.rr_port + 1) % NbPorts]
  OBVIOUS
<1>3. /\ \/ retry_port(x) = x
         \/ retry_port(x) = f
         \/ /\ x.launch_pending[x.rr_port] \in Transfers
            /\ retry_port(x) = launch(f, x.rr_port, x.launch_pending[x.rr_port])
      /\ SameCopy(x, f) /\ SameCut(x, f) /\ Ports(f) /\ x.rr_port \in Port
  BY <1>1, <1>2, RetryIs
<1>4. CopyInv(f) /\ Tidy(f)
  <2>1. CopyInv(f)
    BY <1>1, <1>3 DEF SameCopy, CopyInv
  <2> QED BY <1>1, <1>3, <2>1, TidyFrame
<1>5. CASE /\ x.launch_pending[x.rr_port] \in Transfers
           /\ retry_port(x) = launch(f, x.rr_port, x.launch_pending[x.rr_port])
  <2>1. PICK p \in Port, tr \in Transfers : p = x.rr_port /\ tr = x.launch_pending[p]
    BY <1>3, <1>5
  <2>2. retry_port(x) = launch(f, p, tr)
    BY <1>5, <2>1
  <2>3. CopyInv(launch(f, p, tr)) /\ Ports(launch(f, p, tr)) /\ SameCut(f, launch(f, p, tr))
    BY <1>3, <1>4, LaunchCopy
  <2>4. Tidy(launch(f, p, tr))
    BY <1>4, <2>3, TidyFrame
  <2> QED BY <2>2, <2>3, <2>4 DEF DataInv
<1> QED BY <1>1, <1>3, <1>4, <1>5 DEF DataInv

\* The retries keep the copying in order.
LEMMA ReadyData ==
  ASSUME NEW e, DataInv(e)
  PROVE  DataInv(stream_ready(e))
<1>1. \A x : DataInv(x) => DataInv(retry_port(x))
  BY RetryData
<1>2. PICK S : Tried(e, S)
  BY ReadyKeeps
<1> DEFINE G == {x \in S : DataInv(x)}
<1>3. G \in SUBSET S /\ e \in G
  BY <1>2 DEF Tried
<1>4. \A x \in G : retry_port(x) \in S => retry_port(x) \in G
  BY <1>1
<1>5. stream_ready(e) \in G
  <2> HIDE DEF G
  <2> QED BY <1>2, <1>3, <1>4 DEF Tried
<1> QED BY <1>5

\* A cycle keeps the copying in order.
LEMMA CycleData ==
  ASSUME NEW e, DataInv(e)
  PROVE  DataInv(next_cycle(e))
<1>1. Ports(e) /\ CopyInv(e) /\ Tidy(e) /\ HasFields(e)
  BY DEF DataInv, Ports
<1>2. PICK b : b = next_cycle(e)
  OBVIOUS
<1>3. /\ HasFields(b) /\ b.rr_port = e.rr_port /\ b.launch_pending = e.launch_pending
      /\ b.launched = e.launched /\ b.queue = clocked(e.queue) /\ b.line = e.line
      /\ b.req = e.req /\ b.r_left = e.r_left /\ b.w_left = e.w_left
      /\ b.r_fifo = clocked(e.r_fifo) /\ b.w_fifo = clocked(e.w_fifo)
      /\ b.r_beat_idx = e.r_beat_idx /\ b.w_beat_idx = e.w_beat_idx
      /\ b.buffer = e.buffer /\ b.written = e.written
  BY <1>1, <1>2 DEF next_cycle, HasFields
<1>4. Ports(b)
  BY <1>1, <1>3 DEF Ports
<1>5. Tidy(b)
  BY <1>1, <1>3 DEF Tidy, all_cut
<1>6. PICK L, q, line, h : /\ L = e.launched /\ q = e.queue /\ line = e.line
                           /\ h = Handed(e.launched, Len(e.queue.queue), e.line)
  OBVIOUS
<1>7. Queued(L, q, line)
  BY <1>1, <1>6 DEF CopyInv
<1>8. PICK p : p = clocked(q)
  OBVIOUS
<1>9. /\ p \in FifoType(Entry) /\ Len(p.queue) = Len(q.queue)
      /\ \A i \in 1 .. Len(q.queue) : p.queue[i].entry = q.queue[i].entry
      /\ p.queue = <<>> <=> q.queue = <<>>
  BY <1>7, <1>8, ClockFifo DEF Queued
<1>10. Queued(L, p, line)
  <2>1. q.queue # <<>> => p.queue[1].entry = q.queue[1].entry
    BY <1>7, <1>9, QueueFacts
  <2>2. p.queue # <<>> => line < Lines(p.queue[1].entry.req)
    BY <1>7, <1>9, <2>1 DEF Queued
  <2> QED BY <1>7, <1>9, <2>2 DEF Queued
<1>11. h = Handed(b.launched, Len(b.queue.queue), b.line)
  BY <1>3, <1>6, <1>8, <1>9
<1>12. ASSUME NEW f \in FifoType(Burst), NEW idx, NEW from, NEW to,
              Stream(L, f.queue, idx, from, to)
       PROVE  /\ clocked(f) \in FifoType(Burst)
              /\ Stream(L, clocked(f).queue, idx, from, to)
  <2>1. PICK x, y : x = f.queue /\ y = clocked(f).queue
    OBVIOUS
  <2>2. /\ clocked(f) \in FifoType(Burst) /\ Len(y) = Len(x)
        /\ \A i \in 1 .. Len(x) : y[i].entry = x[i].entry
    BY <2>1, ClockFifo
  <2>3. Len(x) \in Nat
    <3>1. x \in Seq([entry : Burst, wait : Nat])
      BY <2>1 DEF FifoType
    <3> QED BY <3>1, LenProperties
  <2>4. Stream(L, x, idx, from, to)
    BY <1>12, <2>1
  <2>5. Stream(L, y, idx, from, to)
    BY <2>2, <2>3, <2>4, StreamSame
  <2> QED BY <2>1, <2>2, <2>5
<1>13. /\ e.r_fifo \in FifoType(Burst) /\ e.w_fifo \in FifoType(Burst)
       /\ Stream(L, e.r_fifo.queue, e.r_beat_idx,
                 Len(e.written) + Len(e.buffer), h - e.r_left)
       /\ Stream(L, e.w_fifo.queue, e.w_beat_idx, Len(e.written), h - e.w_left)
       /\ Buffered(L, e.buffer, Len(e.written)) /\ Written(L, e.written)
       /\ Cutting(L, e.req, e.r_left, e.w_left, h)
  BY <1>1, <1>6 DEF CopyInv
<1>14. /\ clocked(e.r_fifo) \in FifoType(Burst) /\ clocked(e.w_fifo) \in FifoType(Burst)
       /\ Stream(L, clocked(e.r_fifo).queue, e.r_beat_idx,
                 Len(e.written) + Len(e.buffer), h - e.r_left)
       /\ Stream(L, clocked(e.w_fifo).queue, e.w_beat_idx, Len(e.written), h - e.w_left)
  BY <1>12, <1>13
<1>15. CopyInv(b)
  BY <1>3, <1>6, <1>8, <1>10, <1>11, <1>13, <1>14 DEF CopyInv
<1> QED BY <1>2, <1>4, <1>5, <1>15 DEF DataInv

\* Changes of other fields keep the copying in order.
LEMMA DataFrame ==
  ASSUME NEW a, NEW b, DataInv(a), SameCopy(a, b), SamePorts(a, b)
  PROVE  DataInv(b)
BY DEF DataInv, SameCopy, SamePorts, CopyInv, Ports, Tidy, all_cut

\* A tick keeps the copying in order.
LEMMA TickData ==
  ASSUME NEW e, DataInv(e), NEW ar_answer, NEW w_answer, NEW d1, NEW d2, NEW active,
         d1 = step(e, ar_answer), d2 = write_tick(d1, w_answer)
  PROVE  DataInv(rearm(retry_held_beat(d2), active))
<1>1. DataInv(d1)
  <2>1. CopyInv(d1) /\ SamePorts(e, d1) /\ Tidy(d1)
    BY StepCopy DEF DataInv
  <2> QED BY <2>1 DEF DataInv, Ports, SamePorts
<1>2. DataInv(d2)
  <2>1. CopyInv(d2) /\ SamePorts(d1, d2) /\ SameCut(d1, d2)
    BY <1>1, WriteTickCopy DEF DataInv
  <2> QED BY <1>1, <2>1, TidyFrame DEF DataInv, Ports, SamePorts
<1>3. PICK d3 : d3 = retry_held_beat(d2)
  OBVIOUS
<1>4. DataInv(d3)
  <2>1. CopyInv(d3) /\ SamePorts(d2, d3) /\ SameCut(d2, d3)
    BY <1>2, <1>3, ReadBeatCopy DEF DataInv
  <2> QED BY <1>2, <2>1, TidyFrame DEF DataInv, Ports, SamePorts
<1>5. HasFields(d3)
  BY <1>4 DEF DataInv, Ports
<1>6. SameCopy(d3, rearm(d3, active)) /\ SamePorts(d3, rearm(d3, active))
  BY <1>5, RearmQuiet
<1>7. DataInv(rearm(d3, active))
  BY <1>4, <1>6, DataFrame
<1> QED BY <1>3, <1>7

\* So do the answers of the bus.
LEMMA BusData ==
  ASSUME NEW e, DataInv(e), NEW n, NEW answer
  PROVE  /\ DataInv(wake([e EXCEPT !.reads = Append(@, e.held_ar), !.held_ar = 0], 1))
         /\ DataInv(resp_meth(e))
         /\ DataInv(wake(send_beat([e EXCEPT !.held_beat = "none"],
                                   e.held_beat = "last", answer), 1))
         /\ DataInv(write_burst_done([e EXCEPT !.acks = @ - 1]))
         /\ DataInv(done_handler([e EXCEPT !.done = NoEvent]))
<1>1. HasFields(e) /\ Ports(e) /\ CopyInv(e) /\ Tidy(e)
  BY DEF DataInv, Ports
<1>2. DataInv(wake([e EXCEPT !.reads = Append(@, e.held_ar), !.held_ar = 0], 1))
  <2>1. PICK f : f = [e EXCEPT !.reads = Append(@, e.held_ar), !.held_ar = 0]
    OBVIOUS
  <2>2. SameCopy(e, f) /\ SamePorts(e, f) /\ HasFields(f)
    BY <1>1, <2>1 DEF SameCopy, SamePorts, HasFields
  <2>3. SameCopy(f, wake(f, 1)) /\ SamePorts(f, wake(f, 1)) /\ DataInv(f)
    BY <2>2, WakeQuiet, DataFrame
  <2>4. DataInv(wake(f, 1))
    BY <2>3, DataFrame
  <2> QED BY <2>1, <2>4
<1>3. DataInv(resp_meth(e))
  <2>1. CopyInv(resp_meth(e)) /\ SamePorts(e, resp_meth(e)) /\ SameCut(e, resp_meth(e))
    BY <1>1, ReadBeatCopy
  <2> QED BY <1>1, <2>1, TidyFrame DEF DataInv, Ports, SamePorts
<1>4. DataInv(wake(send_beat([e EXCEPT !.held_beat = "none"],
                             e.held_beat = "last", answer), 1))
  <2>1. PICK f, g, last : /\ f = [e EXCEPT !.held_beat = "none"]
                          /\ last = (e.held_beat = "last") /\ g = send_beat(f, last, answer)
    OBVIOUS
  <2>2. SameCopy(e, f) /\ SamePorts(e, f) /\ HasFields(f)
    BY <1>1, <2>1 DEF SameCopy, SamePorts, HasFields
  <2>3. SameCopy(f, g) /\ SamePorts(f, g) /\ DataInv(f)
    BY <2>1, <2>2, SendQuiet, DataFrame
  <2>4. HasFields(g)
    BY <2>3 DEF SamePorts
  <2>5. SameCopy(g, wake(g, 1)) /\ SamePorts(g, wake(g, 1)) /\ DataInv(g)
    BY <2>3, <2>4, WakeQuiet, DataFrame
  <2>6. DataInv(wake(g, 1))
    BY <2>5, DataFrame
  <2> QED BY <2>1, <2>6
<1>5. DataInv(write_burst_done([e EXCEPT !.acks = @ - 1]))
  <2>1. PICK f : f = [e EXCEPT !.acks = @ - 1]
    OBVIOUS
  <2>2. SameCopy(e, f) /\ SamePorts(e, f) /\ HasFields(f)
    BY <1>1, <2>1 DEF SameCopy, SamePorts, HasFields
  <2>3. SameCopy(f, write_burst_done(f)) /\ SamePorts(f, write_burst_done(f)) /\ DataInv(f)
    BY <2>2, BurstDoneQuiet, DataFrame
  <2>4. DataInv(write_burst_done(f))
    BY <2>3, DataFrame
  <2> QED BY <2>1, <2>4
<1>6. DataInv(done_handler([e EXCEPT !.done = NoEvent]))
  <2>1. PICK f, id : /\ f = [e EXCEPT !.done = NoEvent]
                     /\ count_done(f) = [f EXCEPT !.done_id = id,
                                                  !.counted = @ + f.pending_done,
                                                  !.pending_done = 0]
    BY DEF count_done
  <2>2. PICK g, b : /\ g = count_done(f) /\ b = [g EXCEPT !.busy = is_busy(g)]
    OBVIOUS
  <2>3. SameCopy(e, f) /\ SamePorts(e, f)
    BY <1>1, <2>1 DEF SameCopy, SamePorts, HasFields
  <2>4. SameCopy(f, g) /\ SamePorts(f, g)
    BY <2>1, <2>2, <2>3 DEF SameCopy, SamePorts, HasFields
  <2>5. SameCopy(g, b) /\ SamePorts(g, b)
    BY <2>2, <2>4 DEF SameCopy, SamePorts, HasFields
  <2>6. done_handler(f) = b
    BY <2>2 DEF done_handler
  <2>7. DataInv(f)
    BY <2>3, DataFrame
  <2>8. DataInv(g)
    BY <2>4, <2>7, DataFrame
  <2>9. DataInv(b)
    BY <2>5, <2>8, DataFrame
  <2> QED BY <2>1, <2>6, <2>9
<1> QED BY <1>2, <1>3, <1>4, <1>5, <1>6

\* The copying is in order at the beginning, and every step keeps it so.
LEMMA DataInit ==
  ASSUME Init
  PROVE  DataInv(d)
<1>1. d.rr_port = 0 /\ d.launch_pending = [p \in Port |-> None] /\ HasFields(d)
  BY DEF Init, HasFields
<1>2. Ports(d)
  BY <1>1, IdmaFrontAssumption DEF Ports, Port
<1>3. /\ d.launched = <<>> /\ d.queue = NewFifo /\ d.line = 0 /\ d.req = None
      /\ d.r_left = 0 /\ d.w_left = 0 /\ d.r_fifo = NewFifo /\ d.w_fifo = NewFifo
      /\ d.r_beat_idx = 0 /\ d.w_beat_idx = 0 /\ d.buffer = <<>> /\ d.written = <<>>
  BY DEF Init
<1>4. /\ NewFifo.queue = <<>> /\ Len(NewFifo.queue) = 0 /\ NewFifo \in FifoType(Entry)
      /\ NewFifo \in FifoType(Burst)
  BY DEF NewFifo, FifoType
<1>5. PICK L : L = <<>> /\ L \in Seq(Transfers) /\ Len(L) = 0
  <2>1. <<>> \in Seq(Transfers) /\ Len(<<>>) = 0
    OBVIOUS
  <2> QED BY <2>1
<1>6. Queued(L, NewFifo, 0)
  BY <1>4, <1>5 DEF Queued
<1>7. Handed(L, 0, 0) = 0
  <2>1. WordsBefore(L)[1] = 0
    BY <1>5, WordsBeforeDef
  <2>2. NextNr(L, 0) = 1
    BY <1>5 DEF NextNr
  <2> QED BY <2>1, <2>2 DEF Handed
<1>8. Cutting(L, None, 0, 0, 0)
  BY DEF Cutting
<1>9. Stream(L, NewFifo.queue, 0, 0, 0)
  BY <1>4 DEF Stream
<1>10. Buffered(L, <<>>, 0) /\ Written(L, <<>>)
  BY DEF Buffered, Written
<1>11. CopyInv(d)
  <2>1. Len(d.written) = 0 /\ Len(d.buffer) = 0 /\ 0 + 0 = 0 /\ 0 - 0 = 0
    BY <1>3
  <2> QED BY <1>3, <1>4, <1>5, <1>6, <1>7, <1>8, <1>9, <1>10, <2>1 DEF CopyInv
<1> QED BY <1>2, <1>3, <1>11 DEF DataInv, Tidy

\* Every step keeps the copying in order.
LEMMA DataNext ==
  ASSUME DataInv(d), [Next]_vars
  PROVE  DataInv(d')
<1>1. HasFields(d)
  BY DEF DataInv, Ports
<1>2. ASSUME NEW p \in Port, NEW tr \in Transfers, Launch(p, tr) PROVE DataInv(d')
  <2>1. CopyInv(launch(d, p, tr)) /\ Ports(launch(d, p, tr)) /\ SameCut(d, launch(d, p, tr))
    BY LaunchCopy DEF DataInv
  <2>2. DataInv(launch(d, p, tr))
    BY <2>1, TidyFrame DEF DataInv
  <2> QED BY <1>2, <2>2 DEF Launch
<1>3. ASSUME NEW ar_answer, NEW w_answer, Tick(ar_answer, w_answer) PROVE DataInv(d')
  <2>1. PICK d0, d1, d2 : /\ d0 = [d EXCEPT !.tick = NoEvent, !.wake_targets = @ \ {0}]
                          /\ d1 = step(d0, ar_answer) /\ d2 = write_tick(d1, w_answer)
                          /\ d' = rearm(retry_held_beat(d2), d1 # d0 \/ d2 # d1)
    BY <1>3 DEF Tick
  <2>2. SameCopy(d, d0) /\ SamePorts(d, d0)
    BY <1>1, <2>1 DEF SameCopy, SamePorts, HasFields
  <2>3. DataInv(d0)
    BY <2>2, DataFrame
  <2> QED BY <2>1, <2>3, TickData
<1>4. CASE Ready
  <2>1. PICK f : f = [d EXCEPT !.ready = NoEvent]
    OBVIOUS
  <2>2. SameCopy(d, f) /\ SamePorts(d, f)
    BY <1>1, <2>1 DEF SameCopy, SamePorts, HasFields
  <2>3. DataInv(f)
    BY <2>2, DataFrame
  <2> QED BY <1>4, <2>1, <2>3, ReadyData DEF Ready
<1>5. CASE Done
  BY <1>5, BusData DEF Done
<1>6. CASE Cycle
  BY <1>6, CycleData DEF Cycle
<1>7. CASE RetryRead \/ ReadBeat \/ WriteAck
  BY <1>7, BusData DEF RetryRead, ReadBeat, WriteAck
<1>8. ASSUME NEW answer, RetryWrite(answer) PROVE DataInv(d')
  BY <1>8, BusData DEF RetryWrite
<1>9. CASE UNCHANGED vars
  BY <1>9 DEF vars
<1> QED BY <1>2, <1>3, <1>4, <1>5, <1>6, <1>7, <1>8, <1>9 DEF Next

DataAlways == DataInv(d)

\* Every word is copied once, in order and to its place, for all transfers,
\* depths, pages and answers of the bus: read and write bursts are cut and
\* served apart, and the data and the address of a write beat still belong to
\* the same word.
THEOREM WordsCopiedInOrder == Spec => []WordsInOrder
<1>1. Init => DataAlways
  BY DataInit DEF DataAlways
<1>2. DataAlways /\ [Next]_vars => DataAlways'
  BY DataNext DEF DataAlways
<1>3. DataAlways => WordsInOrder
  <2>1. ASSUME DataAlways PROVE WordsInOrder
    <3>1. Written(d.launched, d.written)
      BY <2>1 DEF DataAlways, DataInv, CopyInv
    <3>2. DOMAIN d.written = 1 .. Len(d.written)
      BY <3>1, LenProperties DEF Written
    <3> QED BY <3>1, <3>2 DEF Written, WordsInOrder
  <2> QED BY <2>1
<1> QED BY <1>1, <1>2, <1>3, PTL DEF Spec

-----------------------------------------------------------------------------
(***************************************************************************)
(* The busy wire.                                                          *)
(***************************************************************************)

\* What the bus has been given; a beat is held only of a read that is served.
BusInv(e) ==
    /\ e.busy \in BOOLEAN /\ e.held_ar \in Nat /\ e.reads \in Seq(Int)
    /\ e.data_queue \in Seq(BOOLEAN) /\ e.acks \in Nat /\ e.aw_credits \in Nat
    /\ e.held_resp => e.reads # <<>>

\* Nothing is queued or in flight.
Idle(e) ==
    /\ e.queue.queue = <<>> /\ e.buffer = <<>> /\ e.r_left = 0 /\ e.w_left = 0
    /\ e.r_fifo.queue = <<>> /\ e.w_fifo.queue = <<>> /\ e.wlast.queue = <<>>
    /\ e.reads = <<>> /\ e.held_ar = 0 /\ e.data_queue = <<>> /\ e.acks = 0
    /\ e.held_beat # "last"

BusyInv(e) == BusInv(e) /\ (~e.busy => Idle(e))

SameBus(a, b) ==
    /\ HasFields(b) /\ b.busy = a.busy /\ b.held_ar = a.held_ar /\ b.reads = a.reads
    /\ b.data_queue = a.data_queue /\ b.aw_credits = a.aw_credits
    /\ b.acks = a.acks /\ b.held_resp = a.held_resp

\* A step of the bus side, which does not move the busy wire.
BusStep(a, b) == HasFields(b) /\ BusInv(b) /\ b.busy = a.busy /\ b.held_resp = a.held_resp

\* What is left alone stays as it should be.
LEMMA BusFrame ==
  ASSUME NEW a, NEW b, SameBus(a, b), BusInv(a)
  PROVE  BusStep(a, b)
BY DEF SameBus, BusInv, BusStep

\* Events, lines and the write path leave the bus alone.
LEMMA BusQuiet ==
  ASSUME NEW e, HasFields(e), NEW n, NEW r, NEW force
  PROVE  /\ SameBus(e, wake(e, n)) /\ SameBus(e, enqueue(e, "tick", n))
         /\ SameBus(e, complete_1d(e, r, force))
         /\ SameBus(e, [take_1d(e) EXCEPT !.took = TRUE])
         /\ SameBus(e, write_beat_take(e)) /\ SameBus(e, next_cycle(e))
<1>1. SameBus(e, wake(e, n)) /\ SameBus(e, enqueue(e, "tick", n))
  BY DEF wake, enqueue, HasFields, SameBus
<1>2. SameBus(e, complete_1d(e, r, force))
  BY DEF complete_1d, enqueue, HasFields, SameBus
<1>3. SameBus(e, [take_1d(e) EXCEPT !.took = TRUE])
  BY DEF take_1d, enqueue, HasFields, SameBus
<1>4. SameBus(e, next_cycle(e))
  BY DEF next_cycle, HasFields, SameBus
<1>5. SameBus(e, write_beat_take(e))
  BY DEF write_beat_take, buffer_pop, wake, enqueue, HasFields, SameBus
<1> QED BY <1>1, <1>2, <1>3, <1>4, <1>5

\* Taking a request leaves the bus alone.
LEMMA TakeBus ==
  ASSUME NEW e, HasFields(e)
  PROVE  SameBus(e, take_request(e)) /\ SameBus(e, bypass(e))
<1>1. PICK r, t : r = peek_1d(e) /\ t = [take_1d(e) EXCEPT !.took = TRUE]
  OBVIOUS
<1>2. SameBus(e, t) /\ HasFields(t)
  <2>1. SameBus(e, t)
    BY <1>1, BusQuiet
  <2> QED BY <2>1 DEF SameBus
<1>3. SameBus(e, complete_1d(t, r, TRUE))
  <2>1. SameBus(t, complete_1d(t, r, TRUE))
    BY <1>2, BusQuiet
  <2> QED BY <1>2, <2>1 DEF SameBus
<1>4. SameBus(e, [t EXCEPT !.req = r, !.r_left = r.length, !.w_left = r.length])
  BY <1>2 DEF SameBus, HasFields
<1>5. SameBus(e, e)
  BY DEF SameBus
<1>6. \/ take_request(e) = e
      \/ take_request(e) = complete_1d(t, r, TRUE)
      \/ take_request(e) = [t EXCEPT !.req = r, !.r_left = r.length, !.w_left = r.length]
  BY <1>1 DEF take_request
<1>7. bypass(e) = e \/ bypass(e) = complete_1d(t, r, TRUE)
  BY <1>1 DEF bypass
<1> QED BY <1>3, <1>4, <1>5, <1>6, <1>7

\* The acknowledge of a burst leaves the bus alone.
LEMMA AckBus ==
  ASSUME NEW e, HasFields(e)
  PROVE  SameBus(e, write_burst_done(e))
<1>1. PICK f, s : f = [e EXCEPT !.wlast = pop(@)] /\ s = head(e.wlast)
  OBVIOUS
<1>2. SameBus(e, f) /\ HasFields(f)
  BY <1>1 DEF SameBus, HasFields
<1>3. PICK g : g = IF s.last THEN complete_1d(f, s.req, FALSE) ELSE f
  OBVIOUS
<1>4. SameBus(e, g) /\ HasFields(g)
  <2>1. SameBus(f, complete_1d(f, s.req, FALSE))
    BY <1>2, BusQuiet
  <2> QED BY <1>2, <1>3, <2>1 DEF SameBus
<1>5. write_burst_done(e) = wake(g, 1)
  BY <1>1, <1>3 DEF write_burst_done
<1>6. SameBus(g, wake(g, 1))
  BY <1>4, BusQuiet
<1> QED BY <1>4, <1>5, <1>6 DEF SameBus

\* The beats and addresses that go to the bus.
LEMMA SendBus ==
  ASSUME NEW e, HasFields(e), BusInv(e), NEW last, NEW answer, NEW n \in Nat, NEW decouple
  PROVE  /\ BusStep(e, send_beat(e, last, answer)) /\ BusStep(e, issue_ar(e, n, answer))
         /\ BusStep(e, issue_aw(e, decouple))
<1>1. BusStep(e, send_beat(e, last, answer))
  <2>1. BusStep(e, write_burst_done(e))
    BY AckBus, BusFrame
  <2>2. /\ BusStep(e, e) /\ BusStep(e, [e EXCEPT !.held_beat = "last"])
        /\ BusStep(e, [e EXCEPT !.held_beat = "beat"])
        /\ BusStep(e, [e EXCEPT !.acks = @ + 1])
    BY DEF BusStep, BusInv, HasFields
  <2> QED BY <2>1, <2>2 DEF send_beat
<1>2. BusStep(e, issue_ar(e, n, answer))
  <2>1. BusStep(e, [e EXCEPT !.held_ar = n])
    BY DEF BusStep, BusInv, HasFields
  <2>2. BusStep(e, [e EXCEPT !.reads = Append(@, n)])
    <3>1. PICK q : q = Append(e.reads, n)
      OBVIOUS
    <3>2. q \in Seq(Int) /\ q # <<>>
      <4>1. e.reads \in Seq(Int) /\ n \in Int
        BY DEF BusInv
      <4>2. q \in Seq(Int) /\ Len(q) = Len(e.reads) + 1 /\ Len(e.reads) \in Nat
        BY <3>1, <4>1, AppendProperties
      <4> QED BY <4>2
    <3>3. PICK f : f = [e EXCEPT !.reads = q]
      OBVIOUS
    <3>4. /\ HasFields(f) /\ f.busy = e.busy /\ f.held_ar = e.held_ar /\ f.reads = q
          /\ f.data_queue = e.data_queue /\ f.aw_credits = e.aw_credits
          /\ f.acks = e.acks /\ f.held_resp = e.held_resp
      BY <3>3 DEF HasFields
    <3>5. BusStep(e, f)
      BY <3>2, <3>4 DEF BusStep, BusInv
    <3> QED BY <3>1, <3>3, <3>5
  <2> QED BY <2>1, <2>2 DEF issue_ar
<1>3. BusStep(e, issue_aw(e, decouple))
  <2>1. ASSUME NEW x \in BOOLEAN, NEW c \in Nat, NEW f,
               f = [e EXCEPT !.data_queue = Append(@, x), !.aw_credits = c]
               \/ f = [e EXCEPT !.data_queue = Append(@, x)]
        PROVE  BusStep(e, f)
    <3>1. /\ HasFields(f) /\ f.busy = e.busy /\ f.held_ar = e.held_ar /\ f.reads = e.reads
          /\ f.data_queue = Append(e.data_queue, x)
          /\ (f.aw_credits = e.aw_credits \/ f.aw_credits = c)
          /\ f.acks = e.acks /\ f.held_resp = e.held_resp
      BY <2>1 DEF HasFields
    <3>2. Append(e.data_queue, x) \in Seq(BOOLEAN)
      BY AppendProperties DEF BusInv
    <3> QED BY <3>1, <3>2 DEF BusStep, BusInv
  <2>2. CASE ~raw_coupling \/ decouple
    BY <2>1, <2>2 DEF issue_aw
  <2>3. CASE ~(~raw_coupling \/ decouple)
    <3>1. PICK n0 \in Nat : n0 = e.aw_credits
      BY DEF BusInv
    <3>2. PICK x \in BOOLEAN : x = (n0 > 0)
      <4>1. (n0 > 0) \in BOOLEAN
        OBVIOUS
      <4> QED BY <4>1, Zenon
    <3>3. PICK c \in Nat : c = IF n0 > 0 THEN n0 - 1 ELSE 0
      OBVIOUS
    <3>4. issue_aw(e, decouple) = [e EXCEPT !.data_queue = Append(@, x), !.aw_credits = c]
      BY <2>3, <3>1, <3>2, <3>3 DEF issue_aw
    <3> QED BY <2>1, <3>4
  <2> QED BY <2>2, <2>3
<1> QED BY <1>1, <1>2, <1>3

\* The credit of a first beat.
LEMMA CreditBus ==
  ASSUME NEW e, HasFields(e), BusInv(e)
  PROVE  BusStep(e, on_read_first_beat(e)) /\ on_read_first_beat(e).reads = e.reads
<1>1. PICK i, f : i = Min(aw_waiting(e)) /\ f = [e EXCEPT !.data_queue[i] = TRUE]
  OBVIOUS
<1>2. BusStep(e, f) /\ f.reads = e.reads
  <2>1. [e.data_queue EXCEPT ![i] = TRUE] \in Seq(BOOLEAN)
    <3>1. PICK q \in Seq(BOOLEAN), g \in {[e.data_queue EXCEPT ![i] = TRUE]} :
              q = e.data_queue /\ g = [q EXCEPT ![i] = TRUE]
      BY DEF BusInv
    <3>2. PICK n \in Nat : q \in [1 .. n -> BOOLEAN]
      BY SeqDef
    <3>3. g \in [1 .. n -> BOOLEAN]
      BY <3>1, <3>2
    <3> QED BY <3>1, <3>3, SeqDef
  <2>2. /\ HasFields(f) /\ f.busy = e.busy /\ f.held_ar = e.held_ar /\ f.reads = e.reads
        /\ f.data_queue = [e.data_queue EXCEPT ![i] = TRUE]
        /\ f.aw_credits = e.aw_credits
        /\ f.acks = e.acks /\ f.held_resp = e.held_resp
    BY <1>1 DEF HasFields
  <2> QED BY <2>1, <2>2 DEF BusStep, BusInv
<1>3. SameBus(f, wake(f, 1))
  BY <1>2, BusQuiet DEF BusStep
<1>4. BusStep(e, wake(f, 1)) /\ wake(f, 1).reads = e.reads
  <2>1. BusStep(f, wake(f, 1))
    BY <1>2, <1>3, BusFrame DEF BusStep
  <2> QED BY <1>2, <1>3, <2>1 DEF BusStep, SameBus
<1>5. /\ BusStep(e, e) /\ BusStep(e, [e EXCEPT !.aw_credits = @ + 1])
      /\ [e EXCEPT !.aw_credits = @ + 1].reads = e.reads
  BY DEF BusStep, BusInv, HasFields
<1> QED BY <1>1, <1>4, <1>5 DEF on_read_first_beat

\* The legalizer keeps the bus in order and the wire where it is.
LEMMA StepBus ==
  ASSUME NEW e, DataInv(e), BusInv(e), NEW answer
  PROVE  BusStep(e, step(e, answer))
<1>1. HasFields(e) /\ Ports(e) /\ CopyInv(e) /\ BusStep(e, e)
  BY DEF DataInv, Ports, BusStep
<1>2. ASSUME NEW x, BusStep(e, x) PROVE BusStep(e, take_request(x)) /\ BusStep(e, bypass(x))
  <2>1. HasFields(x) /\ BusInv(x) /\ x.busy = e.busy /\ x.held_resp = e.held_resp
    BY <1>2 DEF BusStep
  <2>2. BusStep(x, take_request(x)) /\ BusStep(x, bypass(x))
    BY <2>1, TakeBus, BusFrame
  <2> QED BY <2>1, <2>2 DEF BusStep
<1>3. CASE all_cut(e)
  BY <1>1, <1>2, <1>3 DEF step
<1>4. CASE ~all_cut(e)
  <2>1. PICK b, c, f : b = bypass(e) /\ c = cut(b, answer) /\ f = [c EXCEPT !.req = None]
    OBVIOUS
  <2>2. BusStep(e, b) /\ CopyInv(b)
    BY <1>1, <1>2, <2>1, BypassCopy
  <2>3. BusStep(e, c)
    <3>1. PICK n, m, g : /\ n = coupled_to(b, r_burst(b)) /\ m = coupled_to(b, w_burst(b))
                         /\ g = IF r_go(b) THEN read_split(b, answer) ELSE b
      OBVIOUS
    <3>2. BusStep(e, g)
      <4>1. CASE r_go(b)
        <5>1. n \in Nat
          <6>1. n \in 1 .. b.r_left /\ b.r_left \in Nat
            BY <2>2, <3>1, <4>1, CutSize, CopyNumbers
          <6> QED BY <6>1
        <5>2. PICK i, s : /\ i = issue_ar(b, n, answer)
                          /\ g = [i EXCEPT !.r_fifo = push(@, s, 0), !.r_left = @ - n]
          BY <3>1, <4>1 DEF read_split
        <5>3. BusStep(b, i)
          BY <2>2, <5>1, <5>2, SendBus DEF BusStep
        <5>4. SameBus(i, g)
          BY <5>2, <5>3 DEF BusStep, SameBus, HasFields
        <5>5. BusStep(i, g)
          BY <5>3, <5>4, BusFrame DEF BusStep
        <5> QED BY <2>2, <5>3, <5>5 DEF BusStep
      <4>2. CASE ~r_go(b)
        BY <2>2, <3>1, <4>2
      <4> QED BY <4>1, <4>2
    <3>3. CASE w_go(b)
      <4>1. PICK i, s, t : /\ i = issue_aw(g, g.req.decouple_aw)
                           /\ c = [i EXCEPT !.w_fifo = push(@, s, 0),
                                            !.wlast = push(@, t, 0), !.w_left = @ - m]
        <5>1. c = write_split(g, m)
          BY <2>1, <3>1, <3>3 DEF cut
        <5> DEFINE s == [req |-> g.req, first |-> g.req.length - g.w_left, beats |-> m]
                   t == [req |-> g.req, last |-> m = g.w_left]
                   i == issue_aw(g, g.req.decouple_aw)
        <5>2. c = [i EXCEPT !.w_fifo = push(@, s, 0), !.wlast = push(@, t, 0),
                            !.w_left = @ - m]
          BY <5>1 DEF write_split
        <5> HIDE DEF s, t, i
        <5> QED BY <5>2 DEF i
      <4>2. BusStep(g, i)
        <5>1. HasFields(g) /\ BusInv(g) /\ 0 \in Nat
          BY <3>2 DEF BusStep
        <5> QED BY <4>1, <5>1, SendBus
      <4>3. SameBus(i, c)
        BY <4>1, <4>2 DEF BusStep, SameBus, HasFields
      <4>4. BusStep(i, c)
        BY <4>2, <4>3, BusFrame DEF BusStep
      <4> QED BY <3>2, <4>2, <4>4 DEF BusStep
    <3>4. CASE ~w_go(b)
      BY <2>1, <3>1, <3>2, <3>4 DEF cut
    <3> QED BY <3>3, <3>4
  <2>4. BusStep(e, f)
    BY <2>1, <2>3 DEF BusStep, BusInv, HasFields
  <2>5. step(e, answer) = c \/ step(e, answer) = take_request(f)
    BY <1>4, <2>1 DEF step
  <2> QED BY <1>2, <2>3, <2>4, <2>5
<1> QED BY <1>3, <1>4

\* So does a beat that is written.
LEMMA WriteTickBus ==
  ASSUME NEW e, HasFields(e), BusInv(e), NEW answer
  PROVE  BusStep(e, write_tick(e, answer))
<1>1. CASE ~write_can_tick(e)
  BY <1>1 DEF write_tick, BusStep
<1>2. CASE write_can_tick(e)
  <2>1. PICK last, f, g : /\ last = (e.w_beat_idx + 1 = head(e.w_fifo).beats)
                          /\ f = write_beat_take(e)
                          /\ g = [f EXCEPT !.data_queue = IF last THEN Tail(@) ELSE @]
    OBVIOUS
  <2>2. SameBus(e, f) /\ HasFields(f)
    <3>1. SameBus(e, f)
      BY <2>1, BusQuiet
    <3> QED BY <3>1 DEF SameBus
  <2>3. /\ HasFields(g) /\ g.busy = f.busy /\ g.held_ar = f.held_ar /\ g.reads = f.reads
        /\ g.data_queue = (IF last THEN Tail(f.data_queue) ELSE f.data_queue)
        /\ g.aw_credits = f.aw_credits /\ g.acks = f.acks /\ g.held_resp = f.held_resp
    BY <2>1, <2>2 DEF HasFields
  <2>4. g.data_queue \in Seq(BOOLEAN)
    <3>1. f.data_queue \in Seq(BOOLEAN) /\ f.data_queue # <<>>
      BY <1>2, <2>2 DEF SameBus, BusInv, write_can_tick
    <3>2. Tail(f.data_queue) \in Seq(BOOLEAN)
      BY <3>1, TailOf
    <3> QED BY <2>3, <3>1, <3>2
  <2>5. BusStep(e, g)
    BY <2>2, <2>3, <2>4 DEF BusStep, BusInv, SameBus
  <2>6. BusStep(g, send_beat(g, last, answer))
    <3>1. HasFields(g) /\ BusInv(g) /\ 0 \in Nat
      BY <2>5 DEF BusStep
    <3> QED BY <3>1, SendBus
  <2>7. write_tick(e, answer) = send_beat(g, last, answer)
    BY <1>2, <2>1 DEF write_tick
  <2> QED BY <2>5, <2>6, <2>7 DEF BusStep
<1> QED BY <1>1, <1>2

\* So does a beat that is read.
LEMMA ReadTakeBus ==
  ASSUME NEW e, HasFields(e), BusInv(e), e.reads # <<>>, ~e.held_resp
  PROVE  BusStep(e, read_beat_accept(e))
<1>1. PICK w, g, o :
        /\ w = [nr |-> head(e.r_fifo).req.nr, line |-> head(e.r_fifo).req.line,
                word |-> head(e.r_fifo).first + e.r_beat_idx]
        /\ g = buffer_push(e, w)
        /\ o = IF e.r_beat_idx = 0 /\ ~head(e.r_fifo).req.decouple_aw
               THEN on_read_first_beat(g) ELSE g
  OBVIOUS
<1>2. BusStep(e, g)
  BY <1>1 DEF buffer_push, BusStep, BusInv, HasFields
<1>3. BusStep(g, o)
  <2>1. BusStep(g, g) /\ BusStep(g, on_read_first_beat(g))
    BY <1>2, CreditBus DEF BusStep
  <2> QED BY <1>1, <2>1
<1>4. PICK c, idx, fifo, reads :
        /\ c = [o EXCEPT !.r_beat_idx = idx, !.r_fifo = fifo, !.reads = reads]
        /\ reads = IF Head(e.reads) = 1 THEN Tail(e.reads)
                   ELSE [e.reads EXCEPT ![1] = @ - 1]
        /\ read_beat_accept(e) = wake(c, 1)
  <2> DEFINE last == e.r_beat_idx + 1 = head(e.r_fifo).beats
             reads == IF Head(e.reads) = 1 THEN Tail(e.reads)
                      ELSE [e.reads EXCEPT ![1] = @ - 1]
             v == [o EXCEPT !.r_beat_idx = IF last THEN 0 ELSE @ + 1,
                            !.r_fifo = IF last THEN pop(@) ELSE @, !.reads = reads]
  <2>1. read_beat_accept(e) = wake(v, 1)
    BY <1>1 DEF read_beat_accept
  <2> QED BY <2>1
<1>5. reads \in Seq(Int)
  <2>1. PICK q \in Seq(Int) : q = e.reads /\ q # <<>>
    BY DEF BusInv
  <2>2. Tail(q) \in Seq(Int)
    BY <2>1, TailOf
  <2>3. [q EXCEPT ![1] = @ - 1] \in Seq(Int)
    <3>1. PICK n \in Nat : q \in [1 .. n -> Int]
      BY SeqDef
    <3>2. n # 0
      <4>1. DOMAIN q = 1 .. n
        BY <3>1
      <4>2. Len(q) = n
        BY <4>1, LenProperties
      <4> QED BY <2>1, <4>2, EmptySeq
    <3>3. PICK v \in Int : v = q[1] - 1
      BY <3>1, <3>2
    <3>4. [q EXCEPT ![1] = v] \in [1 .. n -> Int]
      BY <3>1
    <3> QED BY <3>3, <3>4, SeqDef
  <2> QED BY <1>4, <2>1, <2>2, <2>3
<1>6. /\ HasFields(c) /\ c.busy = o.busy /\ c.held_ar = o.held_ar /\ c.reads = reads
      /\ c.data_queue = o.data_queue /\ c.aw_credits = o.aw_credits
      /\ c.acks = o.acks /\ c.held_resp = o.held_resp
  BY <1>3, <1>4 DEF BusStep, HasFields
<1>7. BusStep(e, c)
  BY <1>2, <1>3, <1>5, <1>6 DEF BusStep, BusInv
<1>8. BusStep(c, wake(c, 1))
  BY <1>7, BusQuiet, BusFrame DEF BusStep
<1> QED BY <1>4, <1>7, <1>8 DEF BusStep

\* A read beat keeps the bus in order, taken at once, held or retried.
LEMMA ReadBeatBus ==
  ASSUME NEW e, HasFields(e), BusInv(e)
  PROVE  /\ /\ HasFields(retry_held_beat(e)) /\ BusInv(retry_held_beat(e))
            /\ retry_held_beat(e).busy = e.busy
         /\ e.reads # <<>> /\ ~e.held_resp =>
                /\ HasFields(resp_meth(e)) /\ BusInv(resp_meth(e))
                /\ resp_meth(e).busy = e.busy
<1>1. ASSUME e.reads # <<>>, NEW h \in BOOLEAN, NEW f, f = [e EXCEPT !.held_resp = h]
      PROVE  /\ HasFields(f) /\ BusInv(f) /\ f.busy = e.busy /\ f.reads = e.reads
             /\ f.held_resp = h
  BY <1>1 DEF HasFields, BusInv
<1>2. PICK f, g : f = [e EXCEPT !.held_resp = FALSE] /\ g = [e EXCEPT !.held_resp = TRUE]
  OBVIOUS
<1>3. CASE e.held_resp /\ read_beat_can_accept(e)
  <2>1. /\ HasFields(f) /\ BusInv(f) /\ f.busy = e.busy /\ f.reads # <<>> /\ ~f.held_resp
    BY <1>1, <1>2, <1>3 DEF BusInv
  <2>2. BusStep(f, read_beat_accept(f))
    BY <2>1, ReadTakeBus
  <2>3. retry_held_beat(e) = read_beat_accept(f)
    BY <1>2, <1>3 DEF retry_held_beat
  <2> QED BY <1>3, <2>1, <2>2, <2>3 DEF BusStep
<1>4. CASE ~(e.held_resp /\ read_beat_can_accept(e))
  <2>1. retry_held_beat(e) = e
    BY <1>4 DEF retry_held_beat
  <2>2. ASSUME e.reads # <<>>, ~e.held_resp, read_beat_can_accept(e)
        PROVE  BusStep(e, resp_meth(e))
    BY <2>2, ReadTakeBus DEF resp_meth
  <2>3. ASSUME e.reads # <<>>, ~read_beat_can_accept(e)
        PROVE  BusStep(g, resp_meth(e)) /\ g.busy = e.busy
    <3>1. HasFields(g) /\ BusInv(g) /\ g.busy = e.busy
      BY <1>1, <1>2, <2>3
    <3>2. resp_meth(e) = wake(g, 1)
      BY <1>2, <2>3 DEF resp_meth
    <3> QED BY <3>1, <3>2, BusQuiet, BusFrame
  <2> QED BY <2>1, <2>2, <2>3 DEF BusStep
<1> QED BY <1>3, <1>4

\* A launch raises the wire when it queues its transfer.
LEMMA LaunchBusy ==
  ASSUME NEW e, HasFields(e), BusyInv(e), NEW p, NEW tr
  PROVE  BusyInv(launch(e, p, tr))
<1>1. BusInv(e) /\ (~e.busy => Idle(e))
  BY DEF BusyInv
<1>2. CASE can_push(e.queue, req_fifo_depth)
  <2>1. PICK delay, q, f : /\ f = [e EXCEPT !.next_id = next_identifier(@), !.queue = q,
                                            !.launch_pending[p] = None,
                                            !.launched = Append(@, tr)]
                           /\ launch(e, p, tr) = [wake(f, 1 + delay) EXCEPT !.busy = TRUE]
    <3> DEFINE delay == IF e.busy THEN 0 ELSE launch_bubble
               q == push(e.queue, [nr |-> Len(e.launched) + 1, req |-> tr], delay)
               f == [e EXCEPT !.next_id = next_identifier(@), !.queue = q,
                              !.launch_pending[p] = None, !.launched = Append(@, tr)]
    <3>1. launch(e, p, tr) = [wake(f, 1 + delay) EXCEPT !.busy = TRUE]
      BY <1>2 DEF launch
    <3> HIDE DEF delay, q
    <3> QED BY <3>1
  <2>2. SameBus(e, f) /\ HasFields(f)
    BY <2>1 DEF SameBus, HasFields
  <2>3. PICK g : g = wake(f, 1 + delay)
    OBVIOUS
  <2>4. SameBus(f, g) /\ HasFields(g)
    <3>1. SameBus(f, g)
      BY <2>2, <2>3, BusQuiet
    <3> QED BY <3>1 DEF SameBus
  <2>5. BusInv(g)
    BY <1>1, <2>2, <2>4 DEF SameBus, BusInv
  <2>6. PICK b : b = [g EXCEPT !.busy = TRUE]
    OBVIOUS
  <2>7. BusInv(b) /\ b.busy
    BY <2>4, <2>5, <2>6 DEF BusInv, HasFields
  <2> QED BY <2>1, <2>3, <2>6, <2>7 DEF BusyInv
<1>3. CASE ~can_push(e.queue, req_fifo_depth)
  <2>1. PICK b : b = launch(e, p, tr) /\ b = [e EXCEPT !.launch_pending[p] = tr]
    BY <1>3 DEF launch
  <2>2. BusInv(b) /\ b.busy = e.busy /\ (Idle(e) => Idle(b))
    BY <1>1, <2>1 DEF BusInv, Idle, HasFields
  <2> QED BY <1>1, <2>1, <2>2 DEF BusyInv
<1> QED BY <1>2, <1>3

\* An iDMA that has nothing to do does nothing in a tick.
LEMMA IdleTick ==
  ASSUME NEW e, DataInv(e), Idle(e), NEW answer
  PROVE  step(e, answer) = e /\ write_tick(e, answer) = e /\ retry_held_beat(e) = e
<1>1. e.line = 0
  BY DEF DataInv, CopyInv, Queued, Idle
<1>2. peek_1d(e) = None
  BY <1>1 DEF peek_1d, head_visible, is_empty, Idle
<1>3. step(e, answer) = e
  BY <1>2 DEF step, all_cut, take_request, Idle
<1>4. write_tick(e, answer) = e
  BY DEF write_tick, write_can_tick, Idle
<1>5. retry_held_beat(e) = e
  BY DEF retry_held_beat, read_beat_can_accept, head_visible, is_empty, Idle
<1> QED BY <1>3, <1>4, <1>5

\* Whether the iDMA is idle is told by what it looks at.
LEMMA IdleIs ==
  ASSUME NEW e, DataInv(e), BusInv(e)
  PROVE  is_busy(e) <=> ~Idle(e)
<1>1. e.r_left \in Nat /\ e.w_left \in Nat
  BY CopyNumbers DEF DataInv
<1>2. /\ Len(e.reads) \in Nat /\ (Len(e.reads) = 0 <=> e.reads = <<>>)
      /\ Len(e.data_queue) \in Nat /\ (Len(e.data_queue) = 0 <=> e.data_queue = <<>>)
      /\ e.held_ar \in Nat /\ e.acks \in Nat
  BY LenProperties, EmptySeq DEF BusInv
<1>3. read_ctxs(e) > 0 <=> ~(e.reads = <<>> /\ e.held_ar = 0)
  <2>1. PICK n \in Nat, m \in Nat : n = Len(e.reads) /\ m = e.held_ar
    BY <1>2
  <2>2. read_ctxs(e) = n + (IF m > 0 THEN 1 ELSE 0)
    BY <2>1 DEF read_ctxs
  <2>3. read_ctxs(e) > 0 <=> ~(n = 0 /\ m = 0)
    BY <2>2
  <2> QED BY <1>2, <2>1, <2>3
<1>4. write_ctxs(e) > 0 <=> ~(e.data_queue = <<>> /\ e.acks = 0 /\ e.held_beat # "last")
  <2>1. PICK n \in Nat, m \in Nat : n = Len(e.data_queue) /\ m = e.acks
    BY <1>2
  <2>2. write_ctxs(e) = n + m + (IF e.held_beat = "last" THEN 1 ELSE 0)
    BY <2>1 DEF write_ctxs
  <2>3. write_ctxs(e) > 0 <=> ~(n = 0 /\ m = 0 /\ e.held_beat # "last")
    BY <2>2
  <2> QED BY <1>2, <2>1, <2>3
<1>5. /\ e.r_left > 0 <=> e.r_left # 0
      /\ e.w_left > 0 <=> e.w_left # 0
  BY <1>1
<1> QED BY <1>3, <1>4, <1>5 DEF is_busy, be_is_busy, is_empty, Idle

\* Every step keeps the wire high while it has to be.
LEMMA BusyNext ==
  ASSUME DataInv(d), BusyInv(d), [Next]_vars
  PROVE  BusyInv(d')
<1>1. HasFields(d) /\ BusInv(d) /\ (~d.busy => Idle(d)) /\ d.busy \in BOOLEAN
  BY DEF DataInv, Ports, BusyInv, BusInv
<1>2. ASSUME NEW p \in Port, NEW tr \in Transfers, Launch(p, tr) PROVE BusyInv(d')
  BY <1>1, <1>2, LaunchBusy DEF Launch
<1>3. ASSUME NEW ar_answer, NEW w_answer, Tick(ar_answer, w_answer) PROVE BusyInv(d')
  <2>1. PICK d0, d1, d2, active :
            /\ d0 = [d EXCEPT !.tick = NoEvent, !.wake_targets = @ \ {0}]
            /\ d1 = step(d0, ar_answer) /\ d2 = write_tick(d1, w_answer)
            /\ d' = rearm(retry_held_beat(d2), active)
    BY <1>3 DEF Tick
  <2>2. SameCopy(d, d0) /\ SamePorts(d, d0) /\ SameBus(d, d0) /\ (Idle(d) => Idle(d0))
    BY <1>1, <2>1 DEF SameCopy, SamePorts, SameBus, HasFields, Idle
  <2>3. DataInv(d0) /\ BusStep(d, d0)
    BY <1>1, <2>2, DataFrame, BusFrame
  <2>4. BusStep(d, d1)
    <3>1. BusStep(d0, d1)
      BY <2>1, <2>3, StepBus DEF BusStep
    <3> QED BY <2>3, <3>1 DEF BusStep
  <2>5. BusStep(d, d2)
    <3>1. BusStep(d1, d2)
      BY <2>1, <2>4, WriteTickBus DEF BusStep
    <3> QED BY <2>4, <3>1 DEF BusStep
  <2>6. PICK d3, d4 : d3 = retry_held_beat(d2) /\ d4 = rearm(d3, active)
    OBVIOUS
  <2>7. HasFields(d3) /\ BusInv(d3) /\ d3.busy = d.busy
    BY <2>5, <2>6, ReadBeatBus DEF BusStep
  <2>8. SameBus(d3, d4) /\ (Idle(d3) => Idle(d4))
    <3>1. PICK f : f = IF active THEN enqueue(d3, "tick", 1) ELSE d3
      OBVIOUS
    <3>2. SameBus(d3, f) /\ HasFields(f) /\ (Idle(d3) => Idle(f))
      BY <2>7, <3>1 DEF SameBus, Idle, enqueue, HasFields
    <3>3. d4 = f \/ d4 = enqueue(f, "tick", Min(f.wake_targets))
      BY <2>6, <3>1 DEF rearm
    <3>4. SameBus(f, d4) /\ (Idle(f) => Idle(d4))
      BY <3>2, <3>3 DEF SameBus, Idle, enqueue, HasFields
    <3> QED BY <3>2, <3>4 DEF SameBus
  <2>9. ASSUME ~d.busy PROVE Idle(d3)
    <3>1. Idle(d0)
      BY <1>1, <2>2, <2>9
    <3>2. d1 = d0 /\ d2 = d0 /\ d3 = d0
      BY <2>1, <2>3, <2>6, <3>1, IdleTick
    <3> QED BY <3>1, <3>2
  <2>10. BusInv(d4) /\ d4.busy = d.busy
    BY <2>7, <2>8, BusFrame DEF BusStep, SameBus
  <2> QED BY <2>1, <2>6, <2>8, <2>9, <2>10 DEF BusyInv
<1>4. CASE Ready
  <2>1. PICK f : f = [d EXCEPT !.ready = NoEvent]
    OBVIOUS
  <2>2. SameCopy(d, f) /\ SamePorts(d, f) /\ SameBus(d, f) /\ (Idle(d) => Idle(f))
    BY <1>1, <2>1 DEF SameCopy, SamePorts, SameBus, HasFields, Idle
  <2>3. DataInv(f) /\ BusyInv(f)
    <3>1. DataInv(f) /\ BusStep(d, f)
      BY <1>1, <2>2, DataFrame, BusFrame
    <3> QED BY <1>1, <2>2, <3>1 DEF BusStep, BusyInv
  <2>4. PICK S : Tried(f, S)
    BY ReadyKeeps
  <2> DEFINE G == {x \in S : DataInv(x) /\ BusyInv(x)}
  <2>5. G \in SUBSET S /\ f \in G
    BY <2>3, <2>4 DEF Tried
  <2>6. ASSUME NEW x \in G PROVE DataInv(retry_port(x)) /\ BusyInv(retry_port(x))
    <3>1. DataInv(x) /\ BusyInv(x) /\ Ports(x) /\ HasFields(x)
      BY DEF DataInv, Ports
    <3>2. PICK g, p, tr : /\ g = [x EXCEPT !.rr_port = (x.rr_port + 1) % NbPorts]
                          /\ p = x.rr_port /\ tr = x.launch_pending[p]
      OBVIOUS
    <3>3. /\ retry_port(x) = x \/ retry_port(x) = g \/ retry_port(x) = launch(g, p, tr)
          /\ HasFields(g)
      BY <3>1, <3>2, RetryIs DEF Ports
    <3>4. BusyInv(g)
      BY <3>1, <3>2 DEF BusyInv, BusInv, Idle, HasFields
    <3>5. BusyInv(launch(g, p, tr))
      BY <3>3, <3>4, LaunchBusy
    <3> QED BY <3>1, <3>3, <3>4, <3>5, RetryData
  <2>7. stream_ready(f) \in G
    <3>1. \A x \in G : retry_port(x) \in S => retry_port(x) \in G
      BY <2>6
    <3> HIDE DEF G
    <3> QED BY <2>4, <2>5, <3>1 DEF Tried
  <2> QED BY <1>4, <2>1, <2>7 DEF Ready
<1>5. CASE Done
  <2>1. PICK f, id : /\ f = [d EXCEPT !.done = NoEvent]
                     /\ count_done(f) = [f EXCEPT !.done_id = id,
                                                  !.counted = @ + f.pending_done,
                                                  !.pending_done = 0]
    BY DEF count_done
  <2>2. PICK g, b : g = count_done(f) /\ b = [g EXCEPT !.busy = is_busy(g)]
    OBVIOUS
  <2>3. SameCopy(d, f) /\ SamePorts(d, f) /\ SameBus(d, f)
    BY <1>1, <2>1 DEF SameCopy, SamePorts, SameBus, HasFields
  <2>4. SameCopy(f, g) /\ SamePorts(f, g) /\ SameBus(f, g)
    BY <2>1, <2>2, <2>3 DEF SameCopy, SamePorts, SameBus, HasFields
  <2>5. DataInv(g) /\ BusInv(g) /\ HasFields(g)
    <3>1. DataInv(f) /\ BusInv(f)
      BY <1>1, <2>3, DataFrame, BusFrame DEF BusStep
    <3>2. DataInv(g) /\ BusInv(g)
      BY <2>4, <3>1, DataFrame, BusFrame DEF BusStep
    <3> QED BY <2>4, <3>2 DEF SameBus
  <2>6. is_busy(g) <=> ~Idle(g)
    BY <2>5, IdleIs
  <2>7. is_busy(g) \in BOOLEAN
    BY DEF is_busy, be_is_busy
  <2>8. BusInv(b) /\ b.busy = is_busy(g) /\ (Idle(g) => Idle(b))
    BY <2>2, <2>5, <2>7 DEF BusInv, HasFields, Idle
  <2>9. d' = b
    BY <1>5, <2>1, <2>2 DEF Done, done_handler
  <2> QED BY <2>6, <2>8, <2>9 DEF BusyInv
<1>6. CASE Cycle
  <2>1. d' = next_cycle(d)
    BY <1>6 DEF Cycle
  <2>2. PICK b : b = next_cycle(d)
    OBVIOUS
  <2>3. SameBus(d, b)
    BY <1>1, <2>2, BusQuiet
  <2>4. BusInv(b) /\ b.busy = d.busy
    BY <1>1, <2>3, BusFrame DEF BusStep
  <2>5. ASSUME NEW f, f.queue = <<>> PROVE clocked(f).queue = <<>>
    BY <2>5 DEF clocked
  <2>6. /\ b.queue = clocked(d.queue) /\ b.r_fifo = clocked(d.r_fifo)
        /\ b.w_fifo = clocked(d.w_fifo) /\ b.wlast = clocked(d.wlast)
        /\ b.buffer = d.buffer /\ b.r_left = d.r_left /\ b.w_left = d.w_left
        /\ b.held_beat = d.held_beat
    BY <1>1, <2>2 DEF next_cycle, HasFields
  <2>7. Idle(d) => Idle(b)
    BY <2>3, <2>5, <2>6 DEF Idle, SameBus
  <2> QED BY <1>1, <2>1, <2>2, <2>4, <2>7 DEF BusyInv
<1>7. CASE RetryRead
  <2>1. PICK f : f = [d EXCEPT !.reads = Append(@, d.held_ar), !.held_ar = 0]
    OBVIOUS
  <2>2. d.held_ar > 0 /\ d' = wake(f, 1)
    BY <1>7, <2>1 DEF RetryRead
  <2>3. d.busy
    BY <1>1, <2>2 DEF Idle
  <2>4. /\ HasFields(f) /\ f.busy = d.busy /\ f.held_ar = 0
        /\ f.reads = Append(d.reads, d.held_ar) /\ f.data_queue = d.data_queue
        /\ f.aw_credits = d.aw_credits /\ f.acks = d.acks /\ f.held_resp = d.held_resp
    BY <1>1, <2>1 DEF HasFields
  <2>5. f.reads \in Seq(Int) /\ f.reads # <<>>
    <3>1. d.reads \in Seq(Int) /\ d.held_ar \in Int
      BY <1>1 DEF BusInv
    <3>2. PICK q : q = Append(d.reads, d.held_ar)
      OBVIOUS
    <3>3. q \in Seq(Int) /\ Len(q) = Len(d.reads) + 1 /\ Len(d.reads) \in Nat
      BY <3>1, <3>2, AppendProperties
    <3> QED BY <2>4, <3>2, <3>3
  <2>6. BusInv(f) /\ f.busy
    BY <1>1, <2>3, <2>4, <2>5 DEF BusInv
  <2>7. BusStep(f, wake(f, 1))
    BY <2>4, <2>6, BusQuiet, BusFrame
  <2> QED BY <2>2, <2>6, <2>7 DEF BusStep, BusyInv
<1>8. CASE ReadBeat
  <2>1. d.reads # <<>> /\ ~d.held_resp /\ d' = resp_meth(d)
    BY <1>8 DEF ReadBeat
  <2>2. d.busy
    BY <1>1, <2>1 DEF Idle
  <2>3. BusInv(resp_meth(d)) /\ resp_meth(d).busy = d.busy
    BY <1>1, <2>1, ReadBeatBus
  <2> QED BY <2>1, <2>2, <2>3 DEF BusyInv
<1>9. CASE WriteAck
  <2>1. PICK f : f = [d EXCEPT !.acks = @ - 1]
    OBVIOUS
  <2>2. d.acks > 0 /\ d' = write_burst_done(f)
    BY <1>9, <2>1 DEF WriteAck
  <2>3. d.busy
    BY <1>1, <2>2 DEF Idle
  <2>4. BusInv(f) /\ HasFields(f) /\ f.busy = d.busy
    BY <1>1, <2>1, <2>2 DEF BusInv, HasFields
  <2>5. BusStep(f, write_burst_done(f))
    BY <2>4, AckBus, BusFrame
  <2> QED BY <2>2, <2>3, <2>4, <2>5 DEF BusStep, BusyInv
<1>10. ASSUME NEW answer, RetryWrite(answer) PROVE BusyInv(d')
  <2>1. PICK f, g, last : /\ f = [d EXCEPT !.held_beat = "none"]
                          /\ last = (d.held_beat = "last") /\ g = send_beat(f, last, answer)
    OBVIOUS
  <2>2. d' = wake(g, 1) /\ answer # "denied"
    BY <1>10, <2>1 DEF RetryWrite
  <2>3. BusStep(d, f)
    BY <1>1, <2>1 DEF BusStep, BusInv, HasFields
  <2>4. BusStep(d, g)
    <3>1. HasFields(f) /\ BusInv(f) /\ 0 \in Nat
      BY <2>3 DEF BusStep
    <3>2. BusStep(f, g)
      BY <2>1, <3>1, SendBus
    <3> QED BY <2>3, <3>2 DEF BusStep
  <2>5. BusStep(g, wake(g, 1))
    BY <2>4, BusQuiet, BusFrame DEF BusStep
  <2>6. ASSUME ~d.busy PROVE Idle(wake(g, 1))
    <3>1. Idle(d) /\ ~last
      BY <1>1, <2>1, <2>6 DEF Idle
    <3>2. g = f
      BY <2>1, <2>2, <3>1 DEF send_beat
    <3>3. HasFields(f)
      BY <2>3 DEF BusStep
    <3>4. Idle(f)
      BY <1>1, <2>1, <3>1 DEF Idle, HasFields
    <3>5. Idle(wake(f, 1))
      BY <3>3, <3>4 DEF wake, enqueue, Idle, HasFields
    <3> QED BY <3>2, <3>5
  <2> QED BY <2>2, <2>4, <2>5, <2>6 DEF BusStep, BusyInv
<1>11. CASE UNCHANGED vars
  BY <1>11 DEF vars
<1> QED BY <1>2, <1>3, <1>4, <1>5, <1>6, <1>7, <1>8, <1>9, <1>10, <1>11 DEF Next

BusyAlways == BusyInv(d)

\* The busy wire covers the work, for all transfers and answers of the bus: it
\* goes low only in a completion that finds nothing queued or in flight, and
\* nothing but a launch, which raises it, starts work again.
THEOREM BusyCoversWork == Spec => []BusyCovers
<1>1. Init => DataAlways /\ BusyAlways
  <2>1. ASSUME Init PROVE BusyInv(d)
    <3>1. BusInv(d)
      BY <2>1 DEF Init, BusInv
    <3>2. Idle(d)
      BY <2>1 DEF Init, Idle, NewFifo
    <3> QED BY <3>1, <3>2 DEF BusyInv
  <2> QED BY <2>1, DataInit DEF DataAlways, BusyAlways
<1>2. DataAlways /\ BusyAlways /\ [Next]_vars => DataAlways' /\ BusyAlways'
  BY DataNext, BusyNext DEF DataAlways, BusyAlways
<1>3. DataAlways /\ BusyAlways => BusyCovers
  BY IdleIs DEF DataAlways, BusyAlways, BusyInv, BusyCovers
<1> QED BY <1>1, <1>2, <1>3, PTL DEF Spec

-----------------------------------------------------------------------------
(***************************************************************************)
(* Completions.  wlast has a slot for every write burst that is not        *)
(* acknowledged, oldest first: the ones whose data has left, then the ones *)
(* of w_fifo.  The numbers of the slots go up one by one, from the first   *)
(* transfer that is not counted to the one whose writes are cut.           *)
(***************************************************************************)

\* n slots, then the ones of the bursts in w.
Slots(w, q, n) ==
    /\ n \in Nat /\ Len(q) = Len(w) + n
    /\ \A i \in 1 .. Len(w) : q[n + i].entry.req = w[i].entry.req

\* The number of the burst after slot s.
NrAfter(s) == IF s.last /\ s.req.super_last THEN s.req.nr + 1 ELSE s.req.nr

\* From the transfer after the first count ones to number cut_nr.
Acks(q, count, cut_nr) ==
    /\ \A i \in 1 .. Len(q) - 1 : q[i + 1].entry.req.nr = NrAfter(q[i].entry)
    /\ \A i, j \in 1 .. Len(q) : i < j => NrAfter(q[i].entry) <= q[j].entry.req.nr
    /\ Len(q) = 0 => cut_nr = count + 1
    /\ Len(q) > 0 => /\ q[1].entry.req.nr = count + 1
                     /\ NrAfter(q[Len(q)].entry) = cut_nr

\* The numbers of slots.
LEMMA SlotFacts ==
  ASSUME NEW s \in Slot
  PROVE  /\ s.req \in Line /\ s.req.nr \in Nat /\ NrAfter(s) \in Nat
         /\ s.req.nr <= NrAfter(s) /\ NrAfter(s) <= s.req.nr + 1
<1>1. s.req \in Line
  BY DEF Slot
<1>2. s.req.nr \in Nat
  <2>1. PICK x \in Entry, l \in Nat : s.req = build_1d(x, l)
    BY <1>1 DEF Line
  <2>2. s.req.nr = x.nr
    BY <2>1 DEF build_1d
  <2> QED BY <2>2 DEF Entry
<1>3. PICK n \in Nat : n = s.req.nr
  BY <1>2
<1>4. NrAfter(s) = n \/ NrAfter(s) = n + 1
  BY <1>3 DEF NrAfter
<1> QED BY <1>1, <1>3, <1>4

\* The length of a queue is a number, and its entries are of their kind.
LEMMA FifoLen ==
  ASSUME NEW E, NEW f \in FifoType(E)
  PROVE  /\ Len(f.queue) \in Nat
         /\ f.queue = <<>> <=> Len(f.queue) = 0
         /\ \A i \in 1 .. Len(f.queue) : f.queue[i].entry \in E /\ f.queue[i].wait \in Nat
<1>1. f.queue \in Seq([entry : E, wait : Nat])
  BY DEF FifoType
<1>2. Len(f.queue) \in Nat /\ (f.queue = <<>> <=> Len(f.queue) = 0)
  BY <1>1, LenProperties, EmptySeq
<1>3. \A i \in 1 .. Len(f.queue) : f.queue[i] \in [entry : E, wait : Nat]
  BY <1>1, ElementOfSeq
<1> QED BY <1>2, <1>3

\* A burst that is cut gets its slot.
LEMMA SlotsPush ==
  ASSUME NEW f \in FifoType(Burst), NEW g \in FifoType(Slot), NEW n,
         Slots(f.queue, g.queue, n), NEW s \in Burst, NEW t \in Slot, t.req = s.req
  PROVE  Slots(push(f, s, 0).queue, push(g, t, 0).queue, n)
<1>1. PICK k \in Nat, m \in Nat : k = Len(f.queue) /\ m = Len(g.queue)
  BY FifoLen
<1>2. n \in Nat /\ m = k + n /\ \A i \in 1 .. k : g.queue[n + i].entry.req = f.queue[i].entry.req
  BY <1>1 DEF Slots
<1>3. PICK x, y : x = push(f, s, 0).queue /\ y = push(g, t, 0).queue
  OBVIOUS
<1>4. Len(x) = k + 1 /\ (\A i \in 1 .. k : x[i] = f.queue[i]) /\ x[k + 1].entry = s
  BY <1>1, <1>3, PushFifo
<1>5. Len(y) = m + 1 /\ (\A i \in 1 .. m : y[i] = g.queue[i]) /\ y[m + 1].entry = t
  BY <1>1, <1>3, PushFifo
<1>6. ASSUME NEW i \in 1 .. k + 1 PROVE y[n + i].entry.req = x[i].entry.req
  <2>1. CASE i \in 1 .. k
    <3>1. n + i \in 1 .. m
      BY <1>2, <2>1
    <3> QED BY <1>2, <1>4, <1>5, <2>1, <3>1
  <2>2. CASE i = k + 1
    <3>1. n + i = m + 1
      BY <1>2, <2>2
    <3> QED BY <1>4, <1>5, <2>2, <3>1
  <2> QED BY <2>1, <2>2
<1>7. Len(y) = Len(x) + n
  BY <1>2, <1>4, <1>5
<1>8. Slots(x, y, n)
  BY <1>2, <1>4, <1>6, <1>7 DEF Slots
<1> QED BY <1>3, <1>8

\* A burst whose data has left keeps its slot.
LEMMA SlotsTake ==
  ASSUME NEW f \in FifoType(Burst), NEW q, NEW n, Slots(f.queue, q, n), f.queue # <<>>
  PROVE  Slots(pop(f).queue, q, n + 1)
<1>1. PICK k \in Nat \ {0} : k = Len(f.queue)
  BY FifoLen
<1>2. n \in Nat /\ Len(q) = k + n /\ \A i \in 1 .. k : q[n + i].entry.req = f.queue[i].entry.req
  BY <1>1 DEF Slots
<1>3. PICK x : x = pop(f).queue
  OBVIOUS
<1>4. Len(x) = k - 1 /\ \A i \in 1 .. k - 1 : x[i] = f.queue[i + 1]
  BY <1>1, <1>3, PopFifo
<1>5. ASSUME NEW i \in 1 .. k - 1 PROVE q[(n + 1) + i].entry.req = x[i].entry.req
  <2>1. i + 1 \in 1 .. k /\ n + (i + 1) = (n + 1) + i
    BY <1>2
  <2> QED BY <1>2, <1>4, <2>1
<1>6. n + 1 \in Nat /\ Len(q) = Len(x) + (n + 1)
  BY <1>2, <1>4
<1>7. Slots(x, q, n + 1)
  BY <1>4, <1>5, <1>6 DEF Slots
<1> QED BY <1>3, <1>7

\* The oldest slot is freed by the acknowledge.
LEMMA SlotsAck ==
  ASSUME NEW f \in FifoType(Burst), NEW g \in FifoType(Slot), NEW n \in Nat,
         Slots(f.queue, g.queue, n + 1)
  PROVE  g.queue # <<>> /\ Slots(f.queue, pop(g).queue, n)
<1>1. PICK k \in Nat, m \in Nat : k = Len(f.queue) /\ m = Len(g.queue)
  BY FifoLen
<1>2. /\ m = k + (n + 1)
      /\ \A i \in 1 .. k : g.queue[(n + 1) + i].entry.req = f.queue[i].entry.req
  BY <1>1 DEF Slots
<1>3. g.queue # <<>>
  <2>1. m # 0
    BY <1>2
  <2> QED BY <1>1, <2>1, FifoLen
<1>4. PICK y : y = pop(g).queue
  OBVIOUS
<1>5. Len(y) = m - 1 /\ \A i \in 1 .. m - 1 : y[i] = g.queue[i + 1]
  BY <1>1, <1>3, <1>4, PopFifo
<1>6. ASSUME NEW i \in 1 .. k PROVE y[n + i].entry.req = f.queue[i].entry.req
  <2>1. n + i \in 1 .. m - 1 /\ (n + i) + 1 = (n + 1) + i
    BY <1>2
  <2> QED BY <1>2, <1>5, <2>1
<1>7. Len(y) = k + n
  BY <1>2, <1>5
<1>8. Slots(f.queue, y, n)
  BY <1>1, <1>6, <1>7 DEF Slots
<1> QED BY <1>3, <1>4, <1>8

\* A slot for the number that is cut.
LEMMA AcksPush ==
  ASSUME NEW g \in FifoType(Slot), NEW count \in Nat, NEW t \in Slot,
         Acks(g.queue, count, t.req.nr)
  PROVE  Acks(push(g, t, 0).queue, count, NrAfter(t))
<1>1. PICK m \in Nat, q \in {g.queue} : m = Len(g.queue) /\ q = g.queue
  BY FifoLen
<1>2. PICK y : y = push(g, t, 0).queue
  OBVIOUS
<1>3. Len(y) = m + 1 /\ (\A i \in 1 .. m : y[i] = q[i]) /\ y[m + 1].entry = t
  BY <1>1, <1>2, PushFifo
<1>4. PICK r \in Nat : r = t.req.nr
  BY SlotFacts
<1>5. /\ \A i \in 1 .. m - 1 : q[i + 1].entry.req.nr = NrAfter(q[i].entry)
      /\ \A i, j \in 1 .. m : i < j => NrAfter(q[i].entry) <= q[j].entry.req.nr
      /\ m = 0 => r = count + 1
      /\ m > 0 => q[1].entry.req.nr = count + 1 /\ NrAfter(q[m].entry) = r
  BY <1>1, <1>4 DEF Acks
<1>6. \A i \in 1 .. m : q[i].entry \in Slot
  BY <1>1, FifoLen
<1>7. ASSUME NEW i \in 1 .. m PROVE NrAfter(q[i].entry) <= r
  <2>1. CASE i = m
    BY <1>5, <1>6, <2>1, SlotFacts
  <2>2. CASE i # m
    <3>1. m \in 1 .. m /\ i < m
      BY <2>2
    <3>2. NrAfter(q[i].entry) <= q[m].entry.req.nr
      BY <1>5, <3>1
    <3>3. PICK a \in Nat, b \in Nat, c \in Nat :
            a = NrAfter(q[i].entry) /\ b = q[m].entry.req.nr /\ c = NrAfter(q[m].entry)
      BY <1>6, <3>1, SlotFacts
    <3>4. b <= c /\ a <= b /\ c = r
      <4>1. b <= c
        BY <1>6, <3>1, <3>3, SlotFacts
      <4> QED BY <1>5, <3>1, <3>2, <3>3, <4>1
    <3> QED BY <3>3, <3>4
  <2> QED BY <2>1, <2>2
<1>8. ASSUME NEW i \in 1 .. (m + 1) - 1 PROVE y[i + 1].entry.req.nr = NrAfter(y[i].entry)
  <2>1. i \in 1 .. m
    OBVIOUS
  <2>2. CASE i = m
    BY <1>3, <1>4, <1>5, <2>1, <2>2
  <2>3. CASE i # m
    <3>1. i \in 1 .. m - 1 /\ i + 1 \in 1 .. m
      BY <2>1, <2>3
    <3> QED BY <1>3, <1>5, <2>1, <3>1
  <2> QED BY <2>2, <2>3
<1>9. ASSUME NEW i \in 1 .. m + 1, NEW j \in 1 .. m + 1, i < j
      PROVE  NrAfter(y[i].entry) <= y[j].entry.req.nr
  <2>1. i \in 1 .. m
    BY <1>9
  <2>2. CASE j = m + 1
    BY <1>3, <1>4, <1>7, <2>1, <2>2
  <2>3. CASE j # m + 1
    <3>1. j \in 1 .. m
      BY <2>3
    <3> QED BY <1>3, <1>5, <1>9, <2>1, <3>1
  <2> QED BY <2>2, <2>3
<1>10. y[1].entry.req.nr = count + 1
  <2>1. CASE m = 0
    BY <1>3, <1>4, <1>5, <2>1
  <2>2. CASE m # 0
    <3>1. 1 \in 1 .. m /\ m > 0
      BY <2>2
    <3> QED BY <1>3, <1>5, <3>1
  <2> QED BY <2>1, <2>2
<1>11. Acks(y, count, NrAfter(t))
  BY <1>3, <1>8, <1>9, <1>10 DEF Acks
<1> QED BY <1>2, <1>11

\* The oldest slot goes, and its transfer is counted if it was the last one of
\* it.
LEMMA AcksPop ==
  ASSUME NEW g \in FifoType(Slot), NEW count \in Nat, NEW c, Acks(g.queue, count, c),
         g.queue # <<>>, NEW k \in Nat, k + 1 = NrAfter(head(g))
  PROVE  Acks(pop(g).queue, k, c)
<1>1. PICK m \in Nat \ {0}, q \in {g.queue} : m = Len(g.queue) /\ q = g.queue
  BY FifoLen
<1>2. PICK y : y = pop(g).queue
  OBVIOUS
<1>3. Len(y) = m - 1 /\ (\A i \in 1 .. m - 1 : y[i] = q[i + 1]) /\ head(g) = q[1].entry
  BY <1>1, <1>2, PopFifo
<1>4. /\ \A i \in 1 .. m - 1 : q[i + 1].entry.req.nr = NrAfter(q[i].entry)
      /\ \A i, j \in 1 .. m : i < j => NrAfter(q[i].entry) <= q[j].entry.req.nr
      /\ NrAfter(q[m].entry) = c
  <2>1. m > 0
    OBVIOUS
  <2> QED BY <1>1, <2>1 DEF Acks
<1>5. ASSUME NEW i \in 1 .. (m - 1) - 1 PROVE y[i + 1].entry.req.nr = NrAfter(y[i].entry)
  <2>1. i \in 1 .. m - 1 /\ i + 1 \in 1 .. m - 1
    OBVIOUS
  <2> QED BY <1>3, <1>4, <2>1
<1>6. ASSUME NEW i \in 1 .. m - 1, NEW j \in 1 .. m - 1, i < j
      PROVE  NrAfter(y[i].entry) <= y[j].entry.req.nr
  <2>1. i + 1 \in 1 .. m /\ j + 1 \in 1 .. m /\ i + 1 < j + 1
    BY <1>6
  <2> QED BY <1>3, <1>4, <2>1
<1>7. CASE m = 1
  BY <1>2, <1>3, <1>4, <1>7 DEF Acks
<1>8. CASE m # 1
  <2>1. 1 \in 1 .. m - 1 /\ m - 1 \in 1 .. m - 1 /\ m - 1 > 0 /\ (m - 1) + 1 = m
    BY <1>8
  <2>2. y[1].entry.req.nr = k + 1 /\ NrAfter(y[m - 1].entry) = c
    BY <1>3, <1>4, <2>1
  <2>3. Acks(y, k, c)
    BY <1>3, <1>5, <1>6, <2>1, <2>2 DEF Acks
  <2> QED BY <1>2, <2>3
<1> QED BY <1>7, <1>8

\* Nothing that waits for an acknowledge is counted.
LEMMA AcksAhead ==
  ASSUME NEW g \in FifoType(Slot), NEW count \in Nat, NEW c \in Nat, Acks(g.queue, count, c)
  PROVE  /\ count + 1 <= c
         /\ \A i \in 1 .. Len(g.queue) :
                g.queue[i].entry.req.nr \in Nat /\ count + 1 <= g.queue[i].entry.req.nr
<1>1. PICK m \in Nat, q \in {g.queue} : m = Len(g.queue) /\ q = g.queue
  BY FifoLen
<1>2. \A i \in 1 .. m : q[i].entry \in Slot
  BY <1>1, FifoLen
<1>3. /\ \A i, j \in 1 .. m : i < j => NrAfter(q[i].entry) <= q[j].entry.req.nr
      /\ m = 0 => c = count + 1
      /\ m > 0 => q[1].entry.req.nr = count + 1 /\ NrAfter(q[m].entry) = c
  BY <1>1 DEF Acks
<1>4. ASSUME NEW i \in 1 .. m
      PROVE  q[i].entry.req.nr \in Nat /\ count + 1 <= q[i].entry.req.nr
  <2>1. 1 \in 1 .. m /\ m > 0
    OBVIOUS
  <2>2. PICK a \in Nat, b \in Nat, e \in Nat :
            a = q[1].entry.req.nr /\ b = NrAfter(q[1].entry) /\ e = q[i].entry.req.nr
    BY <1>2, <2>1, SlotFacts
  <2>3. a <= b /\ a = count + 1 /\ (i # 1 => b <= e) /\ (i = 1 => e = a)
    <3>1. a <= b
      BY <1>2, <2>1, <2>2, SlotFacts
    <3> QED BY <1>3, <2>1, <2>2, <3>1
  <2> QED BY <2>2, <2>3
<1>5. count + 1 <= c
  <2>1. CASE m = 0
    BY <1>3, <2>1
  <2>2. CASE m # 0
    <3>1. m \in 1 .. m /\ m > 0
      BY <2>2
    <3>2. PICK a \in Nat : a = q[m].entry.req.nr /\ a <= NrAfter(q[m].entry)
      BY <1>2, <3>1, SlotFacts
    <3> QED BY <1>3, <1>4, <3>1, <3>2
  <2> QED BY <2>1, <2>2
<1> QED BY <1>1, <1>4, <1>5

\* A cycle keeps the slots and their numbers.
LEMMA SlotsClock ==
  ASSUME NEW f \in FifoType(Burst), NEW g \in FifoType(Slot), NEW n, NEW count, NEW c
  PROVE  /\ Slots(f.queue, g.queue, n) => Slots(clocked(f).queue, clocked(g).queue, n)
         /\ Acks(g.queue, count, c) => Acks(clocked(g).queue, count, c)
<1>1. PICK k \in Nat, m \in Nat, w \in {f.queue}, q \in {g.queue} :
        k = Len(f.queue) /\ m = Len(g.queue) /\ w = f.queue /\ q = g.queue
  BY FifoLen
<1>2. PICK x, y : x = clocked(f).queue /\ y = clocked(g).queue
  OBVIOUS
<1>3. Len(x) = k /\ \A i \in 1 .. k : x[i].entry = w[i].entry
  BY <1>1, <1>2, ClockFifo
<1>4. Len(y) = m /\ \A i \in 1 .. m : y[i].entry = q[i].entry
  BY <1>1, <1>2, ClockFifo
<1>5. ASSUME Slots(w, q, n) PROVE Slots(x, y, n)
  <2>1. n \in Nat /\ m = k + n /\ \A i \in 1 .. k : q[n + i].entry.req = w[i].entry.req
    BY <1>1, <1>5 DEF Slots
  <2>2. \A i \in 1 .. k : n + i \in 1 .. m
    BY <2>1
  <2> QED BY <1>3, <1>4, <2>1, <2>2 DEF Slots
<1>6. ASSUME Acks(q, count, c) PROVE Acks(y, count, c)
  <2>1. /\ \A i \in 1 .. m - 1 : q[i + 1].entry.req.nr = NrAfter(q[i].entry)
        /\ \A i, j \in 1 .. m : i < j => NrAfter(q[i].entry) <= q[j].entry.req.nr
        /\ m = 0 => c = count + 1
        /\ m > 0 => q[1].entry.req.nr = count + 1 /\ NrAfter(q[m].entry) = c
    BY <1>1, <1>6 DEF Acks
  <2>2. /\ \A i \in 1 .. m - 1 : i \in 1 .. m /\ i + 1 \in 1 .. m
        /\ m > 0 => 1 \in 1 .. m /\ m \in 1 .. m
    OBVIOUS
  <2>3. \A i \in 1 .. m - 1 : y[i + 1].entry.req.nr = NrAfter(y[i].entry)
    BY <1>4, <2>1, <2>2
  <2>4. m > 0 => y[1].entry.req.nr = count + 1 /\ NrAfter(y[m].entry) = c
    BY <1>4, <2>1, <2>2
  <2> QED BY <1>4, <2>1, <2>3, <2>4 DEF Acks
<1> QED BY <1>1, <1>2, <1>5, <1>6

\* The bursts whose data has left and that are not acknowledged.
Unacked(e) == e.acks + (IF e.held_beat = "last" THEN 1 ELSE 0)

\* The slots are those of the bursts, with n more for bursts that are under way.
Owed(e, n) ==
    /\ e.wlast \in FifoType(Slot) /\ e.acks \in Nat
    /\ Slots(e.w_fifo.queue, e.wlast.queue, Unacked(e) + n)

\* The number of the transfer whose writes are cut next.
CutNr(e) == IF e.w_left > 0 THEN e.req.nr
            ELSE NextNr(e.launched, Len(e.queue.queue))

\* The transfers that are counted are those before the oldest slot, or before
\* the one that is cut; the next line is the one after that which is cut.
Counted(e) ==
    /\ e.pending_done \in Nat /\ e.counted \in Nat
    /\ Acks(e.wlast.queue, e.counted + e.pending_done, CutNr(e))
    /\ e.req # None => NextNr(e.launched, Len(e.queue.queue)) =
                            IF e.req.super_last THEN e.req.nr + 1 ELSE e.req.nr

DoneInv(e) == Owed(e, 0) /\ Counted(e)

SameSlots(a, b) ==
    /\ HasFields(b) /\ b.wlast = a.wlast /\ b.acks = a.acks
    /\ b.held_beat = a.held_beat /\ b.w_fifo = a.w_fifo
SameCount(a, b) ==
    /\ b.counted = a.counted /\ b.pending_done = a.pending_done
    /\ b.launched = a.launched /\ b.queue = a.queue
    /\ b.req = a.req /\ b.w_left = a.w_left

\* What is left alone stays as it should be.
LEMMA DoneFrame ==
  ASSUME NEW a, NEW b, SameSlots(a, b), NEW n
  PROVE  /\ Owed(a, n) => Owed(b, n)
         /\ SameCount(a, b) /\ Counted(a) => Counted(b)
<1>1. Owed(a, n) => Owed(b, n)
  BY DEF SameSlots, Owed, Unacked
<1>2. SameCount(a, b) => CutNr(b) = CutNr(a)
  BY DEF SameCount, CutNr
<1>3. SameCount(a, b) /\ Counted(a) => Counted(b)
  BY <1>2 DEF SameSlots, SameCount, Counted
<1> QED BY <1>1, <1>3

\* Events leave the slots and the count alone, lines and the read path the slots.
LEMMA SlotsQuiet ==
  ASSUME NEW e, HasFields(e), NEW n, NEW r, NEW force, NEW answer, NEW decouple
  PROVE  /\ SameSlots(e, wake(e, n)) /\ SameCount(e, wake(e, n))
         /\ SameSlots(e, enqueue(e, "tick", n)) /\ SameCount(e, enqueue(e, "tick", n))
         /\ SameSlots(e, complete_1d(e, r, force))
         /\ SameSlots(e, [take_1d(e) EXCEPT !.took = TRUE])
         /\ [take_1d(e) EXCEPT !.took = TRUE].counted = e.counted
         /\ [take_1d(e) EXCEPT !.took = TRUE].pending_done = e.pending_done
         /\ SameSlots(e, issue_ar(e, n, answer)) /\ SameCount(e, issue_ar(e, n, answer))
         /\ SameSlots(e, issue_aw(e, decouple)) /\ SameCount(e, issue_aw(e, decouple))
<1>1. /\ SameSlots(e, wake(e, n)) /\ SameCount(e, wake(e, n))
      /\ SameSlots(e, enqueue(e, "tick", n)) /\ SameCount(e, enqueue(e, "tick", n))
  BY DEF wake, enqueue, HasFields, SameSlots, SameCount
<1>2. SameSlots(e, complete_1d(e, r, force))
  BY DEF complete_1d, enqueue, HasFields, SameSlots
<1>3. /\ SameSlots(e, [take_1d(e) EXCEPT !.took = TRUE])
      /\ [take_1d(e) EXCEPT !.took = TRUE].counted = e.counted
      /\ [take_1d(e) EXCEPT !.took = TRUE].pending_done = e.pending_done
  BY DEF take_1d, enqueue, HasFields, SameSlots
<1>4. SameSlots(e, issue_ar(e, n, answer)) /\ SameCount(e, issue_ar(e, n, answer))
  BY DEF issue_ar, HasFields, SameSlots, SameCount
<1>5. SameSlots(e, issue_aw(e, decouple)) /\ SameCount(e, issue_aw(e, decouple))
  BY DEF issue_aw, HasFields, SameSlots, SameCount
<1> QED BY <1>1, <1>2, <1>3, <1>4, <1>5

\* Taking a request leaves the slots alone.
LEMMA TakeSlots ==
  ASSUME NEW e, HasFields(e)
  PROVE  SameSlots(e, take_request(e)) /\ SameSlots(e, bypass(e))
<1>1. PICK r, t : r = peek_1d(e) /\ t = [take_1d(e) EXCEPT !.took = TRUE]
  OBVIOUS
<1>2. SameSlots(e, t) /\ HasFields(t)
  <2>1. SameSlots(e, t)
    BY <1>1, SlotsQuiet
  <2> QED BY <2>1 DEF SameSlots
<1>3. SameSlots(e, complete_1d(t, r, TRUE))
  <2>1. SameSlots(t, complete_1d(t, r, TRUE))
    BY <1>2, SlotsQuiet
  <2> QED BY <1>2, <2>1 DEF SameSlots
<1>4. SameSlots(e, [t EXCEPT !.req = r, !.r_left = r.length, !.w_left = r.length])
  BY <1>2 DEF SameSlots, HasFields
<1>5. SameSlots(e, e)
  BY DEF SameSlots
<1>6. \/ take_request(e) = e
      \/ take_request(e) = complete_1d(t, r, TRUE)
      \/ take_request(e) = [t EXCEPT !.req = r, !.r_left = r.length, !.w_left = r.length]
  BY <1>1 DEF take_request
<1>7. bypass(e) = e \/ bypass(e) = complete_1d(t, r, TRUE)
  BY <1>1 DEF bypass
<1> QED BY <1>3, <1>4, <1>5, <1>6, <1>7

\* A read burst that is cut leaves both alone.
LEMMA ReadSplitSlots ==
  ASSUME NEW e, HasFields(e), NEW answer
  PROVE  SameSlots(e, read_split(e, answer)) /\ SameCount(e, read_split(e, answer))
<1>1. PICK n, s, f : /\ f = issue_ar(e, n, answer)
                     /\ read_split(e, answer) =
                            [f EXCEPT !.r_fifo = push(@, s, 0), !.r_left = @ - n]
  BY DEF read_split
<1>2. SameSlots(e, f) /\ SameCount(e, f)
  BY <1>1, SlotsQuiet
<1>3. PICK b : b = [f EXCEPT !.r_fifo = push(@, s, 0), !.r_left = @ - n]
  OBVIOUS
<1>4. SameSlots(f, b) /\ SameCount(f, b)
  BY <1>2, <1>3 DEF SameSlots, SameCount, HasFields
<1> QED BY <1>1, <1>2, <1>3, <1>4 DEF SameSlots, SameCount

\* The slot of a write burst of n words.
CutSlot(e, n) == [req |-> e.req, last |-> n = e.w_left]

\* A write burst that is cut gets the slot of its line.
LEMMA WriteSplitSlots ==
  ASSUME NEW e, Ports(e), CopyInv(e), Owed(e, 0), NEW n \in 1 .. e.w_left
  PROVE  /\ Owed(write_split(e, n), 0) /\ CutSlot(e, n) \in Slot
         /\ write_split(e, n).wlast = push(e.wlast, CutSlot(e, n), 0)
         /\ write_split(e, n).counted = e.counted
         /\ write_split(e, n).pending_done = e.pending_done
<1>1. HasFields(e)
  BY DEF Ports
<1>2. PICK f, s, t, b :
        /\ f = issue_aw(e, e.req.decouple_aw) /\ b = write_split(e, n) /\ t = CutSlot(e, n)
        /\ s = [req |-> e.req, first |-> e.req.length - e.w_left, beats |-> n]
  OBVIOUS
<1>3. SameSlots(e, f) /\ SameCount(e, f)
  BY <1>1, <1>2, SlotsQuiet
<1>4. b = [f EXCEPT !.w_fifo = push(@, s, 0), !.wlast = push(@, t, 0), !.w_left = @ - n]
  BY <1>2 DEF write_split, CutSlot
<1>5. /\ b.w_fifo = push(e.w_fifo, s, 0) /\ b.wlast = push(e.wlast, t, 0)
      /\ b.acks = e.acks /\ b.held_beat = e.held_beat
      /\ b.counted = e.counted /\ b.pending_done = e.pending_done
  BY <1>3, <1>4 DEF SameSlots, SameCount, HasFields
<1>6. e.req \in Line /\ e.w_fifo \in FifoType(Burst) /\ e.req.length - e.w_left \in Nat
      /\ n \in Nat
  <2>1. PICK h, L : Cutting(L, e.req, e.r_left, e.w_left, h) /\ L \in Seq(Transfers)
    BY <1>1, CopyNumbers DEF CopyInv
  <2>2. PICK x \in Nat : x = e.w_left
    BY <2>1 DEF Cutting
  <2>3. n \in 1 .. x
    BY <2>2
  <2>4. e.req # None
    BY <2>1, <2>2, <2>3 DEF Cutting
  <2>5. PICK r : r = e.req
    OBVIOUS
  <2>6. r \in Line /\ IsLine(L, r) /\ x <= r.length
    BY <2>1, <2>2, <2>4, <2>5 DEF Cutting
  <2>7. PICK l \in Nat : l = r.length
    BY <2>1, <2>6, LineFacts
  <2>8. l - x \in Nat
    BY <2>6, <2>7
  <2> QED BY <1>1, <2>2, <2>3, <2>5, <2>6, <2>7, <2>8 DEF CopyInv
<1>7. s \in Burst /\ t \in Slot /\ t.req = s.req
  BY <1>2, <1>6 DEF Burst, Slot, CutSlot
<1>8. e.wlast \in FifoType(Slot) /\ e.acks \in Nat
      /\ Slots(e.w_fifo.queue, e.wlast.queue, Unacked(e) + 0)
  BY DEF Owed
<1>9. Slots(b.w_fifo.queue, b.wlast.queue, Unacked(e) + 0)
  BY <1>5, <1>6, <1>7, <1>8, SlotsPush
<1>10. b.wlast \in FifoType(Slot)
  BY <1>5, <1>7, <1>8, PushFifo
<1>11. Unacked(b) = Unacked(e)
  BY <1>5 DEF Unacked
<1> QED BY <1>2, <1>5, <1>7, <1>8, <1>9, <1>10, <1>11 DEF Owed

\* Every transfer has something to copy.
NonEmpty == \A tr \in Transfers : tr.length > 0

\* Then every line has.
LEMMA SomeWords ==
  ASSUME NonEmpty, NEW e, CopyInv(e), peek_1d(e) # None
  PROVE  /\ e.queue.queue # <<>> /\ peek_1d(e) = build_1d(head(e.queue), e.line)
         /\ peek_1d(e).length \in Nat \ {0}
<1>1. PICK L, q, line, r : L = e.launched /\ q = e.queue /\ line = e.line /\ r = peek_1d(e)
  OBVIOUS
<1>2. Queued(L, q, line) /\ L \in Seq(Transfers)
  BY <1>1 DEF CopyInv, Queued
<1>3. q.queue # <<>> /\ r = build_1d(head(q), line)
  BY <1>1, <1>2, PeekFacts
<1>4. IsLine(L, r)
  BY <1>2, <1>3, HandOver
<1>5. r.length = L[r.nr].length /\ r.length \in Nat
  BY <1>2, <1>4, LineFacts
<1>6. L[r.nr] \in Transfers
  BY <1>2, <1>4, ElementOfSeq DEF IsLine
<1>7. r.length > 0
  BY <1>5, <1>6 DEF NonEmpty
<1> QED BY <1>1, <1>3, <1>5, <1>7

\* Taking a request does not change which transfer is cut next.
LEMMA TakeDone ==
  ASSUME NonEmpty, NEW e, Ports(e), CopyInv(e), all_cut(e), DoneInv(e)
  PROVE  DoneInv(take_request(e))
<1>1. HasFields(e)
  BY DEF Ports
<1>2. CASE e.took \/ peek_1d(e) = None
  BY <1>2 DEF take_request
<1>3. CASE ~e.took /\ peek_1d(e) # None
  <2>1. PICK L, q, line, r, t, b :
            /\ L = e.launched /\ q = e.queue /\ line = e.line /\ r = peek_1d(e)
            /\ t = [take_1d(e) EXCEPT !.took = TRUE] /\ b = take_request(e)
    OBVIOUS
  <2>2. /\ q.queue # <<>> /\ r = build_1d(head(q), line) /\ r.length \in Nat \ {0}
    BY <1>3, <2>1, SomeWords
  <2>3. b = [t EXCEPT !.req = r, !.r_left = r.length, !.w_left = r.length]
    BY <1>3, <2>1, <2>2 DEF take_request
  <2>4. /\ SameSlots(e, t) /\ t.counted = e.counted /\ t.pending_done = e.pending_done
        /\ HasFields(t)
    <3>1. SameSlots(e, t) /\ t.counted = e.counted /\ t.pending_done = e.pending_done
      BY <1>1, <2>1, SlotsQuiet
    <3> QED BY <3>1 DEF SameSlots
  <2>5. t.launched = L /\ TookLine(e, t)
    BY <1>1, <2>1, TakeFrame DEF SameBursts
  <2>6. /\ SameSlots(t, b) /\ b.counted = t.counted /\ b.pending_done = t.pending_done
        /\ b.launched = t.launched /\ b.queue = t.queue
        /\ b.req = r /\ b.w_left = r.length
    BY <2>3, <2>4 DEF SameSlots, HasFields
  <2>7. /\ NextNr(L, Len(q.queue)) = r.nr
        /\ r.super_last => NextNr(L, Len(pop(q).queue)) = r.nr + 1
    <3>1. Queued(L, q, line)
      BY <2>1 DEF CopyInv
    <3>2. NextNr(L, Len(q.queue)) = r.nr
      <4>1. head(q).nr = NextNr(L, Len(q.queue))
        BY <2>2, <3>1, QueueFacts
      <4> QED BY <2>2, <4>1 DEF build_1d
    <3>3. NextNr(L, Len(pop(q).queue)) = NextNr(L, Len(q.queue)) + 1
      <4>1. PICK n \in Nat, m \in Nat : n = Len(q.queue) /\ m = Len(L)
        BY <3>1, QueueFacts
      <4>2. Len(pop(q).queue) = n - 1
        BY <2>2, <3>1, <4>1, PopFifo DEF Queued
      <4> QED BY <4>1, <4>2 DEF NextNr
    <3> QED BY <3>2, <3>3
  <2>8. CutNr(b) = CutNr(e)
    <3>1. CutNr(e) = NextNr(L, Len(q.queue))
      BY <2>1 DEF CutNr, all_cut
    <3>2. CutNr(b) = r.nr
      BY <2>2, <2>6 DEF CutNr
    <3> QED BY <2>7, <3>1, <3>2
  <2>9. NextNr(b.launched, Len(b.queue.queue)) = IF r.super_last THEN r.nr + 1 ELSE r.nr
    <3>1. b.launched = L /\ b.queue = IF r.super_last THEN pop(q) ELSE q
      BY <2>1, <2>5, <2>6 DEF TookLine
    <3> QED BY <2>7, <3>1
  <2>10. SameSlots(e, b) /\ b.counted = e.counted /\ b.pending_done = e.pending_done
    BY <2>4, <2>6 DEF SameSlots
  <2>11. Owed(b, 0)
    BY <2>10, DoneFrame DEF DoneInv
  <2>12. Counted(b)
    BY <2>6, <2>8, <2>9, <2>10 DEF DoneInv, Counted, SameSlots
  <2> QED BY <2>1, <2>11, <2>12 DEF DoneInv
<1> QED BY <1>2, <1>3

\* A write burst gets a slot of the number that is cut; with the last one of a
\* line, the next line is cut.
LEMMA WriteSplitDone ==
  ASSUME NEW e, Ports(e), CopyInv(e), DoneInv(e), NEW n \in 1 .. e.w_left
  PROVE  DoneInv(write_split(e, n))
<1>1. PICK b, t : b = write_split(e, n) /\ t = CutSlot(e, n)
  OBVIOUS
<1>2. /\ Owed(b, 0) /\ t \in Slot /\ b.wlast = push(e.wlast, t, 0)
      /\ b.counted = e.counted /\ b.pending_done = e.pending_done
  BY <1>1, WriteSplitSlots DEF DoneInv
<1>3. PICK x \in Nat : x = e.w_left /\ n \in 1 .. x /\ e.req # None
  <2>1. PICK h : Cutting(e.launched, e.req, e.r_left, e.w_left, h)
    BY DEF CopyInv
  <2>2. PICK x \in Nat : x = e.w_left
    BY <2>1 DEF Cutting
  <2>3. n \in 1 .. x
    BY <2>2
  <2> QED BY <2>1, <2>2, <2>3 DEF Cutting
<1>4. /\ b.launched = e.launched /\ b.queue = e.queue /\ b.req = e.req
      /\ b.w_left = x - n
  <2>1. PICK f, s : /\ f = issue_aw(e, e.req.decouple_aw)
                    /\ b = [f EXCEPT !.w_fifo = push(@, s, 0), !.wlast = push(@, t, 0),
                                     !.w_left = @ - n]
    BY <1>1 DEF write_split, CutSlot
  <2>2. SameCount(e, f) /\ HasFields(f)
    <3>1. SameCount(e, f) /\ SameSlots(e, f)
      BY <2>1, SlotsQuiet DEF Ports
    <3> QED BY <3>1 DEF SameSlots
  <2> QED BY <1>3, <2>1, <2>2 DEF SameCount, HasFields
<1>5. PICK k \in Nat : k = e.counted + e.pending_done
  BY DEF DoneInv, Counted
<1>6. Acks(e.wlast.queue, k, e.req.nr)
  <2>1. CutNr(e) = e.req.nr
    BY <1>3 DEF CutNr
  <2> QED BY <1>5, <2>1 DEF DoneInv, Counted
<1>7. t.req = e.req /\ (t.last <=> n = x)
  BY <1>1, <1>3 DEF CutSlot
<1>8. Acks(b.wlast.queue, k, NrAfter(t))
  <2>1. e.wlast \in FifoType(Slot) /\ Acks(e.wlast.queue, k, t.req.nr)
    BY <1>6, <1>7 DEF DoneInv, Owed
  <2> QED BY <1>2, <2>1, AcksPush
<1>9. NextNr(e.launched, Len(e.queue.queue)) =
            IF e.req.super_last THEN e.req.nr + 1 ELSE e.req.nr
  BY <1>3 DEF DoneInv, Counted
<1>10. CutNr(b) = NrAfter(t)
  <2>1. CASE n = x
    <3>1. ~(b.w_left > 0)
      BY <1>4, <2>1
    <3>2. CutNr(b) = NextNr(e.launched, Len(e.queue.queue))
      BY <1>4, <3>1 DEF CutNr
    <3> QED BY <1>7, <1>9, <2>1, <3>2 DEF NrAfter
  <2>2. CASE n # x
    <3>1. b.w_left > 0
      BY <1>3, <1>4, <2>2
    <3> QED BY <1>4, <1>7, <2>2, <3>1 DEF CutNr, NrAfter
  <2> QED BY <2>1, <2>2
<1>11. Counted(b)
  <2>1. b.counted \in Nat /\ b.pending_done \in Nat /\ b.counted + b.pending_done = k
    BY <1>2, <1>5 DEF DoneInv, Counted
  <2> QED BY <1>4, <1>8, <1>9, <1>10, <2>1 DEF Counted
<1> QED BY <1>1, <1>2, <1>11 DEF DoneInv

\* The legalizer keeps the slots and the count in step.
LEMMA StepDone ==
  ASSUME NonEmpty, NEW e, DataInv(e), DoneInv(e), NEW answer
  PROVE  DoneInv(step(e, answer))
<1>1. HasFields(e) /\ Ports(e) /\ CopyInv(e)
  BY DEF DataInv, Ports
<1>2. CASE all_cut(e)
  BY <1>1, <1>2, TakeDone DEF step
<1>3. CASE ~all_cut(e)
  <2>1. bypass(e) = e
    BY <1>1, SomeWords DEF bypass
  <2>2. PICK c, f, g, m : /\ c = cut(e, answer) /\ f = [c EXCEPT !.req = None]
                          /\ m = coupled_to(e, w_burst(e))
                          /\ g = IF r_go(e) THEN read_split(e, answer) ELSE e
    OBVIOUS
  <2>3. CopyInv(g) /\ Ports(g) /\ DoneInv(g) /\ g.w_left = e.w_left
    <3>1. CASE r_go(e)
      <4>1. /\ CopyInv(g) /\ SamePorts(e, g) /\ g.w_left = e.w_left
            /\ SameSlots(e, g) /\ SameCount(e, g)
        BY <1>1, <2>2, <3>1, ReadSplitCopy, ReadSplitSlots
      <4>2. DoneInv(g)
        BY <4>1, DoneFrame DEF DoneInv
      <4> QED BY <1>1, <4>1, <4>2 DEF Ports, SamePorts
    <3>2. CASE ~r_go(e)
      BY <1>1, <2>2, <3>2
    <3> QED BY <3>1, <3>2
  <2>4. DoneInv(c)
    <3>1. CASE w_go(e)
      <4>1. m \in 1 .. g.w_left /\ c = write_split(g, m)
        BY <1>1, <2>2, <2>3, <3>1, CutSize DEF cut
      <4> QED BY <2>3, <4>1, WriteSplitDone
    <3>2. CASE ~w_go(e)
      BY <2>2, <2>3, <3>2 DEF cut
    <3> QED BY <3>1, <3>2
  <2>5. CopyInv(c) /\ Ports(c) /\ HasFields(c)
    <3>1. CopyInv(c) /\ SamePorts(e, c)
      BY <1>1, <2>2, CutCopy
    <3> QED BY <1>1, <3>1 DEF Ports, SamePorts
  <2>6. CASE ~all_cut(c)
    BY <1>3, <2>1, <2>2, <2>4, <2>6 DEF step
  <2>7. CASE all_cut(c)
    <3>1. step(e, answer) = take_request(f)
      BY <1>3, <2>1, <2>2, <2>7 DEF step
    <3>2. /\ SameSlots(c, f) /\ SamePorts(c, f) /\ SameBursts(c, f)
          /\ f.counted = c.counted /\ f.pending_done = c.pending_done
          /\ f.queue = c.queue /\ f.line = c.line /\ f.req = None
          /\ f.r_left = c.r_left /\ f.w_left = c.w_left
      BY <2>2, <2>5 DEF SameSlots, SamePorts, SameBursts, HasFields
    <3>3. all_cut(f) /\ Ports(f) /\ CutNr(f) = CutNr(c)
      BY <2>5, <2>7, <3>2 DEF all_cut, Ports, SamePorts, SameBursts, CutNr
    <3>4. CopyInv(f)
      <4>1. PICK h : h = Handed(c.launched, Len(c.queue.queue), c.line)
        OBVIOUS
      <4>2. Cutting(f.launched, f.req, f.r_left, f.w_left, h)
        BY <3>2, <3>3 DEF Cutting, all_cut
      <4>3. h = Handed(f.launched, Len(f.queue.queue), f.line)
        BY <3>2, <4>1 DEF SameBursts
      <4> QED BY <2>5, <3>2, <4>1, <4>2, <4>3 DEF CopyInv, SameBursts
    <3>5. DoneInv(f)
      <4>1. Owed(f, 0)
        BY <2>4, <3>2, DoneFrame DEF DoneInv
      <4>2. Counted(f)
        BY <2>4, <3>2, <3>3 DEF DoneInv, Counted, SameSlots
      <4> QED BY <4>1, <4>2 DEF DoneInv
    <3> QED BY <3>1, <3>3, <3>4, <3>5, TakeDone
  <2> QED BY <2>6, <2>7
<1> QED BY <1>2, <1>3

\* A burst is acknowledged, and its transfer counted if it was the last one.
LEMMA AckOwed ==
  ASSUME NEW e, HasFields(e), e.w_fifo \in FifoType(Burst), Owed(e, 1)
  PROVE  /\ Owed(write_burst_done(e), 0) /\ e.wlast.queue # <<>>
         /\ write_burst_done(e).wlast = pop(e.wlast)
         /\ head(e.wlast) \in Slot
<1>1. PICK f, s : f = [e EXCEPT !.wlast = pop(@)] /\ s = head(e.wlast)
  OBVIOUS
<1>2. PICK g : g = IF s.last THEN complete_1d(f, s.req, FALSE) ELSE f
  OBVIOUS
<1>3. write_burst_done(e) = wake(g, 1)
  BY <1>1, <1>2 DEF write_burst_done
<1>4. /\ HasFields(f) /\ f.wlast = pop(e.wlast) /\ f.acks = e.acks
      /\ f.held_beat = e.held_beat /\ f.w_fifo = e.w_fifo
  BY <1>1 DEF HasFields
<1>5. SameSlots(f, g) /\ HasFields(g)
  <2>1. SameSlots(f, complete_1d(f, s.req, FALSE))
    BY <1>4, SlotsQuiet
  <2>2. SameSlots(f, f)
    BY <1>4 DEF SameSlots
  <2> QED BY <1>2, <2>1, <2>2 DEF SameSlots
<1>6. SameSlots(g, wake(g, 1))
  BY <1>5, SlotsQuiet
<1>7. PICK n \in Nat : n = Unacked(e)
  BY DEF Owed, Unacked
<1>8. e.wlast \in FifoType(Slot) /\ Slots(e.w_fifo.queue, e.wlast.queue, n + 1)
  BY <1>7 DEF Owed
<1>9. e.wlast.queue # <<>> /\ Slots(e.w_fifo.queue, pop(e.wlast).queue, n)
  BY <1>8, SlotsAck
<1>10. pop(e.wlast) \in FifoType(Slot) /\ head(e.wlast) \in Slot
  BY <1>8, <1>9, PopFifo
<1>11. Owed(f, 0)
  <2>1. Unacked(f) + 0 = n
    BY <1>4, <1>7 DEF Unacked
  <2> QED BY <1>4, <1>9, <1>10, <2>1 DEF Owed
<1>12. Owed(g, 0)
  BY <1>5, <1>11, DoneFrame
<1>13. Owed(wake(g, 1), 0)
  BY <1>6, <1>12, DoneFrame
<1> QED BY <1>3, <1>4, <1>5, <1>6, <1>9, <1>10, <1>13 DEF SameSlots

\* The count follows the slots.
LEMMA AckDone ==
  ASSUME NEW e, HasFields(e), e.w_fifo \in FifoType(Burst), Owed(e, 1), Counted(e)
  PROVE  DoneInv(write_burst_done(e))
<1>1. PICK b, f, s : /\ f = [e EXCEPT !.wlast = pop(@)] /\ s = head(e.wlast)
                     /\ b = write_burst_done(e)
  OBVIOUS
<1>2. Owed(b, 0) /\ e.wlast.queue # <<>> /\ b.wlast = pop(e.wlast) /\ s \in Slot
  BY <1>1, AckOwed
<1>3. PICK m \in Nat, k \in Nat, c \in {CutNr(e)} :
        m = e.counted /\ k = e.pending_done /\ c = CutNr(e)
  BY DEF Counted
<1>4. /\ b.counted = e.counted
      /\ b.pending_done = IF s.last /\ s.req.super_last THEN k + 1 ELSE k
      /\ b.launched = e.launched /\ b.queue = e.queue
      /\ b.req = e.req /\ b.w_left = e.w_left
  <2>1. PICK g : g = IF s.last THEN complete_1d(f, s.req, FALSE) ELSE f
    OBVIOUS
  <2>2. b = wake(g, 1)
    BY <1>1, <2>1 DEF write_burst_done
  <2>3. HasFields(f) /\ SameCount(e, f)
    BY <1>1 DEF HasFields, SameCount
  <2>4. /\ HasFields(g) /\ g.counted = f.counted
        /\ g.pending_done = (IF s.last /\ s.req.super_last THEN f.pending_done + 1
                             ELSE f.pending_done)
        /\ g.launched = f.launched /\ g.queue = f.queue
        /\ g.req = f.req /\ g.w_left = f.w_left
    BY <2>1, <2>3 DEF complete_1d, enqueue, HasFields
  <2>5. SameCount(g, wake(g, 1))
    BY <2>4, SlotsQuiet
  <2> QED BY <1>3, <2>2, <2>3, <2>4, <2>5 DEF SameCount
<1>5. PICK l \in Nat : l = IF s.last /\ s.req.super_last THEN k + 1 ELSE k
  OBVIOUS
<1>6. e.wlast \in FifoType(Slot) /\ Acks(e.wlast.queue, m + k, c)
  BY <1>3 DEF Owed, Counted
<1>7. (m + l) + 1 = NrAfter(s)
  <2>1. s.req.nr = (m + k) + 1
    <3>1. s = e.wlast.queue[1].entry /\ Len(e.wlast.queue) > 0
      BY <1>1, <1>2, <1>6, PopFifo
    <3> QED BY <1>6, <3>1 DEF Acks
  <2> QED BY <1>5, <2>1 DEF NrAfter
<1>8. Acks(pop(e.wlast).queue, m + l, c)
  <2>1. m + k \in Nat /\ m + l \in Nat
    OBVIOUS
  <2> QED BY <1>1, <1>2, <1>6, <1>7, <2>1, AcksPop
<1>9. CutNr(b) = c
  BY <1>3, <1>4 DEF CutNr
<1>10. Counted(b)
  <2>1. b.counted = m /\ b.pending_done = l
    BY <1>3, <1>4, <1>5
  <2> QED BY <1>2, <1>4, <1>8, <1>9, <2>1 DEF Counted
<1> QED BY <1>1, <1>2, <1>10 DEF DoneInv

\* A beat is answered: the slot of a last one waits for its acknowledge.
LEMMA SendOwed ==
  ASSUME NEW e, HasFields(e), e.w_fifo \in FifoType(Burst), NEW last \in BOOLEAN, NEW answer,
         e.held_beat # "last", Owed(e, IF last THEN 1 ELSE 0)
  PROVE  /\ Owed(send_beat(e, last, answer), 0)
         /\ Counted(e) => Counted(send_beat(e, last, answer))
<1>1. e.acks \in Nat /\ e.wlast \in FifoType(Slot)
      /\ Slots(e.w_fifo.queue, e.wlast.queue, e.acks + (IF last THEN 1 ELSE 0))
  <2>1. PICK m \in Nat : m = e.acks
    BY DEF Owed
  <2>2. Unacked(e) = m
    BY <2>1 DEF Unacked
  <2> QED BY <2>1, <2>2 DEF Owed
<1>2. CASE answer = "denied"
  <2>1. PICK b : b = send_beat(e, last, answer)
                 /\ b = [e EXCEPT !.held_beat = IF last THEN "last" ELSE "beat"]
    BY <1>2 DEF send_beat
  <2>2. /\ SameCount(e, b) /\ b.wlast = e.wlast /\ b.acks = e.acks /\ b.w_fifo = e.w_fifo
        /\ b.held_beat = "last" <=> last
    BY <2>1 DEF SameCount, HasFields
  <2>3. Unacked(b) + 0 = e.acks + (IF last THEN 1 ELSE 0)
    BY <1>1, <2>2 DEF Unacked
  <2>4. Owed(b, 0)
    BY <1>1, <2>2, <2>3 DEF Owed
  <2>5. Counted(e) => Counted(b)
    <3>1. CutNr(b) = CutNr(e)
      BY <2>2 DEF SameCount, CutNr
    <3> QED BY <2>2, <3>1 DEF SameCount, Counted
  <2> QED BY <2>1, <2>4, <2>5
<1>3. CASE answer # "denied" /\ ~last
  <2>1. send_beat(e, last, answer) = e
    BY <1>3 DEF send_beat
  <2> QED BY <1>3, <2>1
<1>4. CASE answer = "done" /\ last
  <2>1. send_beat(e, last, answer) = write_burst_done(e)
    BY <1>4 DEF send_beat
  <2>2. Owed(e, 1)
    BY <1>4
  <2>3. Owed(write_burst_done(e), 0)
    BY <2>2, AckOwed
  <2>4. Counted(e) => DoneInv(write_burst_done(e))
    BY <2>2, AckDone
  <2> QED BY <2>1, <2>3, <2>4 DEF DoneInv
<1>5. CASE answer # "denied" /\ answer # "done" /\ last
  <2>1. PICK b : b = send_beat(e, last, answer) /\ b = [e EXCEPT !.acks = @ + 1]
    BY <1>5 DEF send_beat
  <2>2. /\ SameCount(e, b) /\ b.wlast = e.wlast /\ b.acks = e.acks + 1 /\ b.w_fifo = e.w_fifo
        /\ b.held_beat = e.held_beat
    BY <2>1 DEF SameCount, HasFields
  <2>3. Unacked(b) + 0 = e.acks + (IF last THEN 1 ELSE 0) /\ b.acks \in Nat
    BY <1>1, <1>5, <2>2 DEF Unacked
  <2>4. Owed(b, 0)
    BY <1>1, <2>2, <2>3 DEF Owed
  <2>5. Counted(e) => Counted(b)
    <3>1. CutNr(b) = CutNr(e)
      BY <2>2 DEF SameCount, CutNr
    <3> QED BY <2>2, <3>1 DEF SameCount, Counted
  <2> QED BY <2>1, <2>4, <2>5
<1> QED BY <1>2, <1>3, <1>4, <1>5

\* A beat that is written keeps the slots and the count in step.
LEMMA WriteTickOwed ==
  ASSUME NEW e, DataInv(e), Owed(e, 0), NEW answer
  PROVE  /\ Owed(write_tick(e, answer), 0)
         /\ Counted(e) => Counted(write_tick(e, answer))
<1>1. CASE ~write_can_tick(e)
  BY <1>1 DEF write_tick
<1>2. CASE write_can_tick(e)
  <2>1. PICK last, f, g, h :
            /\ last = (e.w_beat_idx + 1 = head(e.w_fifo).beats)
            /\ f = write_beat_take(e) /\ h = IF last THEN pop(e.w_fifo) ELSE e.w_fifo
            /\ g = [f EXCEPT !.data_queue = IF last THEN Tail(@) ELSE @]
    OBVIOUS
  <2>2. HasFields(e) /\ e.held_beat = "none" /\ e.w_fifo.queue # <<>>
        /\ e.w_fifo \in FifoType(Burst)
    BY <1>2 DEF DataInv, Ports, CopyInv, write_can_tick, write_beat_ready, head_visible, is_empty
  <2>3. /\ HasFields(f) /\ f.wlast = e.wlast /\ f.acks = e.acks /\ f.w_fifo = h
        /\ f.held_beat = e.held_beat /\ SameCount(e, f)
    BY <2>1, <2>2 DEF write_beat_take, buffer_pop, wake, enqueue, HasFields, SameCount
  <2>4. /\ HasFields(g) /\ g.wlast = e.wlast /\ g.acks = e.acks /\ g.w_fifo = h
        /\ g.held_beat = e.held_beat /\ SameCount(e, g)
    BY <2>1, <2>3 DEF HasFields, SameCount
  <2>5. last \in BOOLEAN /\ g.held_beat # "last" /\ g.w_fifo \in FifoType(Burst)
    <3>1. pop(e.w_fifo) \in FifoType(Burst)
      BY <2>2, PopFifo
    <3> QED BY <2>1, <2>2, <2>4, <3>1
  <2>6. Owed(g, IF last THEN 1 ELSE 0)
    <3>1. PICK n \in Nat : n = Unacked(e)
      BY DEF Owed, Unacked
    <3>2. Unacked(g) = n
      BY <2>4, <3>1 DEF Unacked
    <3>3. /\ e.wlast \in FifoType(Slot) /\ e.acks \in Nat
          /\ Slots(e.w_fifo.queue, e.wlast.queue, n)
      BY <3>1 DEF Owed
    <3>4. CASE last
      <4>1. Slots(pop(e.w_fifo).queue, e.wlast.queue, n + 1)
        BY <2>2, <3>3, SlotsTake
      <4> QED BY <2>1, <2>4, <3>2, <3>3, <3>4, <4>1 DEF Owed
    <3>5. CASE ~last
      BY <2>1, <2>4, <3>2, <3>3, <3>5 DEF Owed
    <3> QED BY <2>5, <3>4, <3>5
  <2>7. Counted(e) => Counted(g)
    <3>1. CutNr(g) = CutNr(e)
      BY <2>4 DEF SameCount, CutNr
    <3> QED BY <2>4, <3>1 DEF SameCount, Counted
  <2>8. write_tick(e, answer) = send_beat(g, last, answer)
    BY <1>2, <2>1 DEF write_tick
  <2> QED BY <2>4, <2>5, <2>6, <2>7, <2>8, SendOwed
<1> QED BY <1>1, <1>2

\* A beat that is read leaves the slots and the count alone.
LEMMA ReadSlots ==
  ASSUME NEW e, HasFields(e)
  PROVE  /\ SameSlots(e, read_beat_accept(e)) /\ SameCount(e, read_beat_accept(e))
         /\ SameSlots(e, resp_meth(e)) /\ SameCount(e, resp_meth(e))
         /\ SameSlots(e, retry_held_beat(e)) /\ SameCount(e, retry_held_beat(e))
<1>1. ASSUME NEW x, HasFields(x)
      PROVE  SameSlots(x, read_beat_accept(x)) /\ SameCount(x, read_beat_accept(x))
  <2>1. PICK w, g, o :
            /\ w = [nr |-> head(x.r_fifo).req.nr, line |-> head(x.r_fifo).req.line,
                    word |-> head(x.r_fifo).first + x.r_beat_idx]
            /\ g = buffer_push(x, w)
            /\ o = IF x.r_beat_idx = 0 /\ ~head(x.r_fifo).req.decouple_aw
                   THEN on_read_first_beat(g) ELSE g
    OBVIOUS
  <2>2. SameSlots(x, g) /\ SameCount(x, g) /\ HasFields(g)
    BY <1>1, <2>1 DEF buffer_push, SameSlots, SameCount, HasFields
  <2>3. SameSlots(g, on_read_first_beat(g)) /\ SameCount(g, on_read_first_beat(g))
    BY <2>2 DEF on_read_first_beat, wake, enqueue, SameSlots, SameCount, HasFields
  <2>4. SameSlots(g, o) /\ SameCount(g, o) /\ HasFields(o)
    BY <2>1, <2>2, <2>3 DEF SameSlots, SameCount
  <2>5. PICK c, idx, fifo, reads :
            /\ c = [o EXCEPT !.r_beat_idx = idx, !.r_fifo = fifo, !.reads = reads]
            /\ read_beat_accept(x) = wake(c, 1)
    <3> DEFINE last == x.r_beat_idx + 1 = head(x.r_fifo).beats
               reads == IF Head(x.reads) = 1 THEN Tail(x.reads)
                        ELSE [x.reads EXCEPT ![1] = @ - 1]
               v == [o EXCEPT !.r_beat_idx = IF last THEN 0 ELSE @ + 1,
                              !.r_fifo = IF last THEN pop(@) ELSE @, !.reads = reads]
    <3>1. read_beat_accept(x) = wake(v, 1)
      BY <2>1 DEF read_beat_accept
    <3> QED BY <3>1
  <2>6. SameSlots(o, c) /\ SameCount(o, c) /\ HasFields(c)
    BY <2>4, <2>5 DEF SameSlots, SameCount, HasFields
  <2>7. SameSlots(c, wake(c, 1)) /\ SameCount(c, wake(c, 1))
    BY <2>6, SlotsQuiet
  <2> QED BY <2>2, <2>4, <2>5, <2>6, <2>7 DEF SameSlots, SameCount
<1>2. PICK f, g : f = [e EXCEPT !.held_resp = FALSE] /\ g = [e EXCEPT !.held_resp = TRUE]
  OBVIOUS
<1>3. /\ SameSlots(e, f) /\ SameCount(e, f) /\ HasFields(f)
      /\ SameSlots(e, g) /\ SameCount(e, g) /\ HasFields(g)
      /\ SameSlots(e, e) /\ SameCount(e, e)
  BY <1>2 DEF SameSlots, SameCount, HasFields
<1>4. SameSlots(g, wake(g, 1)) /\ SameCount(g, wake(g, 1))
  BY <1>3, SlotsQuiet
<1>5. SameSlots(e, wake(g, 1)) /\ SameCount(e, wake(g, 1))
  BY <1>3, <1>4 DEF SameSlots, SameCount
<1>6. SameSlots(f, read_beat_accept(f)) /\ SameCount(f, read_beat_accept(f))
  BY <1>1, <1>3
<1>7. SameSlots(e, read_beat_accept(f)) /\ SameCount(e, read_beat_accept(f))
  BY <1>3, <1>6 DEF SameSlots, SameCount
<1>8. resp_meth(e) = read_beat_accept(e) \/ resp_meth(e) = wake(g, 1)
  BY <1>2 DEF resp_meth
<1>9. retry_held_beat(e) = read_beat_accept(f) \/ retry_held_beat(e) = e
  BY <1>2 DEF retry_held_beat
<1> QED BY <1>1, <1>3, <1>5, <1>7, <1>8, <1>9

\* A launch leaves the slots alone, and the number that is cut.
LEMMA LaunchDone ==
  ASSUME NEW e, DataInv(e), NEW p, NEW tr \in Transfers
  PROVE  /\ SameSlots(e, launch(e, p, tr))
         /\ Counted(e) => Counted(launch(e, p, tr))
<1>1. HasFields(e) /\ CopyInv(e)
  BY DEF DataInv, Ports
<1>2. CASE can_push(e.queue, req_fifo_depth)
  <2>1. PICK delay \in Nat : delay = IF e.busy THEN 0 ELSE launch_bubble
    BY IdmaFrontAssumption
  <2>2. PICK q, f, b :
            /\ q = push(e.queue, [nr |-> Len(e.launched) + 1, req |-> tr], delay)
            /\ f = [e EXCEPT !.next_id = next_identifier(@), !.queue = q,
                             !.launch_pending[p] = None, !.launched = Append(@, tr)]
            /\ b = launch(e, p, tr) /\ b = [wake(f, 1 + delay) EXCEPT !.busy = TRUE]
    <3> DEFINE q == push(e.queue, [nr |-> Len(e.launched) + 1, req |-> tr], delay)
               f == [e EXCEPT !.next_id = next_identifier(@), !.queue = q,
                              !.launch_pending[p] = None, !.launched = Append(@, tr)]
    <3>1. launch(e, p, tr) = [wake(f, 1 + delay) EXCEPT !.busy = TRUE]
      BY <1>2, <2>1 DEF launch
    <3> HIDE DEF q, f
    <3> QED BY <3>1 DEF q, f
  <2>3. /\ SameSlots(e, f) /\ f.counted = e.counted /\ f.pending_done = e.pending_done
        /\ f.launched = Append(e.launched, tr) /\ f.queue = q
        /\ f.req = e.req /\ f.w_left = e.w_left
    BY <1>1, <2>2 DEF SameSlots, HasFields
  <2>4. PICK g : g = wake(f, 1 + delay)
    OBVIOUS
  <2>5. SameSlots(f, g) /\ SameCount(f, g)
    <3>1. HasFields(f)
      BY <2>3 DEF SameSlots
    <3>2. PICK n : n = 1 + delay /\ g = wake(f, n)
      BY <2>4
    <3> QED BY <3>1, <3>2 DEF wake, enqueue, HasFields, SameSlots, SameCount
  <2>6. SameSlots(g, b) /\ SameCount(g, b)
    BY <2>2, <2>4, <2>5 DEF SameSlots, SameCount, HasFields
  <2>7. /\ SameSlots(e, b) /\ b.counted = e.counted /\ b.pending_done = e.pending_done
        /\ b.launched = Append(e.launched, tr) /\ b.queue = q
        /\ b.req = e.req /\ b.w_left = e.w_left
    BY <2>3, <2>5, <2>6 DEF SameSlots, SameCount
  <2>8. NextNr(b.launched, Len(b.queue.queue)) = NextNr(e.launched, Len(e.queue.queue))
    <3>1. e.launched \in Seq(Transfers) /\ e.queue \in FifoType(Entry)
      BY <1>1 DEF CopyInv, Queued
    <3>2. PICK m \in Nat, n \in Nat : m = Len(e.launched) /\ n = Len(e.queue.queue)
      BY <3>1, FifoLen
    <3>3. Len(b.launched) = m + 1
      BY <2>7, <3>1, <3>2, AppendProperties
    <3>4. Len(b.queue.queue) = n + 1
      <4>1. [nr |-> Len(e.launched) + 1, req |-> tr] \in Entry
        BY <3>2 DEF Entry
      <4> QED BY <2>2, <2>7, <3>1, <3>2, <4>1, PushFifo
    <3> QED BY <3>2, <3>3, <3>4 DEF NextNr
  <2>9. Counted(e) => Counted(b)
    <3>1. CutNr(b) = CutNr(e)
      BY <2>7, <2>8 DEF CutNr
    <3> QED BY <2>7, <2>8, <3>1 DEF Counted, SameSlots
  <2> QED BY <2>2, <2>7, <2>9
<1>3. CASE ~can_push(e.queue, req_fifo_depth)
  <2>1. PICK b : b = launch(e, p, tr) /\ b = [e EXCEPT !.launch_pending[p] = tr]
    BY <1>3 DEF launch
  <2>2. SameSlots(e, b) /\ SameCount(e, b)
    BY <1>1, <2>1 DEF SameSlots, SameCount, HasFields
  <2> QED BY <2>1, <2>2, DoneFrame
<1> QED BY <1>2, <1>3

\* So does a retry.
LEMMA RetryDone ==
  ASSUME NEW x, DataInv(x)
  PROVE  /\ DataInv(retry_port(x)) /\ SameSlots(x, retry_port(x))
         /\ Counted(x) => Counted(retry_port(x))
<1>1. Ports(x) /\ HasFields(x) /\ DataInv(retry_port(x))
  BY RetryData DEF DataInv, Ports
<1>2. PICK g, p : g = [x EXCEPT !.rr_port = (x.rr_port + 1) % NbPorts] /\ p = x.rr_port
  OBVIOUS
<1>3. /\ \/ retry_port(x) = x
         \/ retry_port(x) = g
         \/ /\ x.launch_pending[p] \in Transfers
            /\ retry_port(x) = launch(g, p, x.launch_pending[p])
      /\ Ports(g) /\ SameCopy(x, g)
  BY <1>1, <1>2, RetryIs
<1>4. SameSlots(x, g) /\ SameCount(x, g) /\ SamePorts(x, x) /\ SameSlots(x, x)
  BY <1>1, <1>2 DEF SameSlots, SameCount, SamePorts, HasFields
<1>5. Counted(x) => Counted(g)
  BY <1>4, DoneFrame
<1>6. DataInv(g)
  BY <1>3 DEF DataInv, SameCopy, CopyInv, Tidy, all_cut
<1>7. CASE /\ x.launch_pending[p] \in Transfers
           /\ retry_port(x) = launch(g, p, x.launch_pending[p])
  <2>1. PICK tr \in Transfers : tr = x.launch_pending[p]
    BY <1>7
  <2>2. /\ SameSlots(g, launch(g, p, tr))
        /\ Counted(g) => Counted(launch(g, p, tr))
    BY <1>6, LaunchDone
  <2> QED BY <1>1, <1>4, <1>5, <1>7, <2>1, <2>2 DEF SameSlots
<1> QED BY <1>1, <1>3, <1>4, <1>5, <1>7

\* A cycle keeps the slots and the count.
LEMMA CycleDone ==
  ASSUME NEW e, DataInv(e), Owed(e, 0)
  PROVE  Owed(next_cycle(e), 0) /\ (Counted(e) => Counted(next_cycle(e)))
<1>1. HasFields(e) /\ CopyInv(e)
  BY DEF DataInv, Ports
<1>2. PICK b : b = next_cycle(e)
  OBVIOUS
<1>3. /\ b.wlast = clocked(e.wlast) /\ b.w_fifo = clocked(e.w_fifo)
      /\ b.queue = clocked(e.queue) /\ b.acks = e.acks /\ b.held_beat = e.held_beat
      /\ b.counted = e.counted /\ b.pending_done = e.pending_done
      /\ b.launched = e.launched /\ b.req = e.req /\ b.w_left = e.w_left
  BY <1>1, <1>2 DEF next_cycle, HasFields
<1>4. /\ e.wlast \in FifoType(Slot) /\ e.w_fifo \in FifoType(Burst)
      /\ e.queue \in FifoType(Entry)
  BY <1>1 DEF Owed, CopyInv, Queued
<1>5. b.wlast \in FifoType(Slot) /\ Len(b.queue.queue) = Len(e.queue.queue)
  BY <1>3, <1>4, ClockFifo
<1>6. Unacked(b) = Unacked(e)
  BY <1>3 DEF Unacked
<1>7. Owed(b, 0)
  <2>1. Slots(e.w_fifo.queue, e.wlast.queue, Unacked(e) + 0)
    BY DEF Owed
  <2>2. Slots(b.w_fifo.queue, b.wlast.queue, Unacked(e) + 0)
    BY <1>3, <1>4, <2>1, SlotsClock
  <2> QED BY <1>3, <1>5, <1>6, <2>2 DEF Owed
<1>8. CutNr(b) = CutNr(e)
  BY <1>3, <1>5 DEF CutNr
<1>9. ASSUME Counted(e) PROVE Counted(b)
  <2>1. Acks(e.wlast.queue, e.counted + e.pending_done, CutNr(e))
    BY <1>9 DEF Counted
  <2>2. Acks(b.wlast.queue, e.counted + e.pending_done, CutNr(e))
    BY <1>3, <1>4, <2>1, SlotsClock
  <2> QED BY <1>3, <1>5, <1>8, <1>9, <2>2 DEF Counted
<1> QED BY <1>2, <1>7, <1>9

\* The answers of the bus and the completions keep the slots and the count in
\* step.
LEMMA BusDone ==
  ASSUME NEW e, DataInv(e), Owed(e, 0), NEW answer
  PROVE  /\ LET b == wake([e EXCEPT !.reads = Append(@, e.held_ar), !.held_ar = 0], 1)
            IN  Owed(b, 0) /\ (Counted(e) => Counted(b))
         /\ Owed(resp_meth(e), 0) /\ (Counted(e) => Counted(resp_meth(e)))
         /\ LET b == wake(send_beat([e EXCEPT !.held_beat = "none"],
                                    e.held_beat = "last", answer), 1)
            IN  Owed(b, 0) /\ (Counted(e) => Counted(b))
         /\ LET b == write_burst_done([e EXCEPT !.acks = @ - 1])
            IN  e.acks > 0 => Owed(b, 0) /\ (Counted(e) => Counted(b))
         /\ LET b == done_handler([e EXCEPT !.done = NoEvent])
            IN  Owed(b, 0) /\ (Counted(e) => Counted(b))
<1>1. HasFields(e) /\ e.w_fifo \in FifoType(Burst)
  BY DEF DataInv, Ports, CopyInv
<1>2. ASSUME NEW b, b = wake([e EXCEPT !.reads = Append(@, e.held_ar), !.held_ar = 0], 1)
      PROVE  Owed(b, 0) /\ (Counted(e) => Counted(b))
  <2>1. PICK f : f = [e EXCEPT !.reads = Append(@, e.held_ar), !.held_ar = 0]
    OBVIOUS
  <2>2. SameSlots(e, f) /\ SameCount(e, f) /\ HasFields(f)
    BY <1>1, <2>1 DEF SameSlots, SameCount, HasFields
  <2>3. SameSlots(f, b) /\ SameCount(f, b)
    BY <1>2, <2>1, <2>2, SlotsQuiet
  <2>4. SameSlots(e, b) /\ SameCount(e, b)
    BY <2>2, <2>3 DEF SameSlots, SameCount
  <2> QED BY <2>4, DoneFrame
<1>3. Owed(resp_meth(e), 0) /\ (Counted(e) => Counted(resp_meth(e)))
  BY <1>1, ReadSlots, DoneFrame
<1>4. ASSUME NEW b, b = wake(send_beat([e EXCEPT !.held_beat = "none"],
                                       e.held_beat = "last", answer), 1)
      PROVE  Owed(b, 0) /\ (Counted(e) => Counted(b))
  <2>1. PICK f, g, last : /\ f = [e EXCEPT !.held_beat = "none"]
                          /\ last = (e.held_beat = "last") /\ g = send_beat(f, last, answer)
    OBVIOUS
  <2>2. /\ HasFields(f) /\ f.wlast = e.wlast /\ f.acks = e.acks /\ f.w_fifo = e.w_fifo
        /\ f.held_beat = "none" /\ SameCount(e, f)
    BY <1>1, <2>1 DEF SameCount, HasFields
  <2>3. Owed(f, IF last THEN 1 ELSE 0)
    <3>1. PICK m \in Nat : m = e.acks
      BY DEF Owed
    <3>2. Unacked(f) + (IF last THEN 1 ELSE 0) = Unacked(e) + 0
      <4>1. Unacked(f) = m
        BY <2>2, <3>1 DEF Unacked
      <4>2. Unacked(e) = m + (IF last THEN 1 ELSE 0)
        BY <2>1, <3>1 DEF Unacked
      <4>3. PICK n \in Nat : n = IF last THEN 1 ELSE 0
        OBVIOUS
      <4> QED BY <4>1, <4>2, <4>3
    <3> QED BY <2>2, <3>2 DEF Owed
  <2>4. Counted(e) => Counted(f)
    <3>1. CutNr(f) = CutNr(e)
      BY <2>2 DEF SameCount, CutNr
    <3> QED BY <2>2, <3>1 DEF SameCount, Counted
  <2>5. last \in BOOLEAN /\ f.held_beat # "last" /\ f.w_fifo \in FifoType(Burst)
    BY <1>1, <2>1, <2>2
  <2>6. Owed(g, 0) /\ (Counted(f) => Counted(g))
    BY <2>1, <2>2, <2>3, <2>5, SendOwed
  <2>7. HasFields(g)
    BY <2>1, <2>2, SendQuiet DEF SamePorts
  <2>8. SameSlots(g, wake(g, 1)) /\ SameCount(g, wake(g, 1))
    BY <2>7, SlotsQuiet
  <2>9. Owed(wake(g, 1), 0) /\ (Counted(g) => Counted(wake(g, 1)))
    BY <2>6, <2>8, DoneFrame
  <2>10. b = wake(g, 1)
    BY <1>4, <2>1
  <2> QED BY <2>4, <2>6, <2>9, <2>10
<1>5. ASSUME NEW b, b = write_burst_done([e EXCEPT !.acks = @ - 1]), e.acks > 0
      PROVE  Owed(b, 0) /\ (Counted(e) => Counted(b))
  <2>1. PICK f : f = [e EXCEPT !.acks = @ - 1]
    OBVIOUS
  <2>2. /\ HasFields(f) /\ f.wlast = e.wlast /\ f.acks = e.acks - 1 /\ f.w_fifo = e.w_fifo
        /\ f.held_beat = e.held_beat /\ SameCount(e, f)
    BY <1>1, <2>1 DEF SameCount, HasFields
  <2>3. Owed(f, 1)
    <3>1. PICK m \in Nat \ {0} : m = e.acks
      BY <1>5 DEF Owed
    <3>2. Unacked(f) + 1 = Unacked(e) + 0 /\ f.acks \in Nat
      BY <2>2, <3>1 DEF Unacked
    <3> QED BY <2>2, <3>2 DEF Owed
  <2>4. Counted(e) => Counted(f)
    <3>1. CutNr(f) = CutNr(e)
      BY <2>2 DEF SameCount, CutNr
    <3> QED BY <2>2, <3>1 DEF SameCount, Counted
  <2>5. f.w_fifo \in FifoType(Burst) /\ b = write_burst_done(f)
    BY <1>1, <1>5, <2>1, <2>2
  <2>6. Owed(b, 0) /\ (Counted(f) => DoneInv(b))
    BY <2>2, <2>3, <2>5, AckOwed, AckDone
  <2> QED BY <2>4, <2>6 DEF DoneInv
<1>6. ASSUME NEW b, b = done_handler([e EXCEPT !.done = NoEvent])
      PROVE  Owed(b, 0) /\ (Counted(e) => Counted(b))
  <2>1. PICK f, id : /\ f = [e EXCEPT !.done = NoEvent]
                     /\ count_done(f) = [f EXCEPT !.done_id = id,
                                                  !.counted = @ + f.pending_done,
                                                  !.pending_done = 0]
    BY DEF count_done
  <2>2. PICK g : g = count_done(f) /\ b = [g EXCEPT !.busy = is_busy(g)]
    BY <1>6, <2>1 DEF done_handler
  <2>3. SameSlots(e, f) /\ SameCount(e, f)
    BY <1>1, <2>1 DEF SameSlots, SameCount, HasFields
  <2>4. /\ SameSlots(f, g) /\ g.counted = f.counted + f.pending_done /\ g.pending_done = 0
        /\ g.launched = f.launched /\ g.queue = f.queue
        /\ g.req = f.req /\ g.w_left = f.w_left
    BY <2>1, <2>2, <2>3 DEF SameSlots, HasFields
  <2>5. SameSlots(g, b) /\ SameCount(g, b)
    BY <2>2, <2>4 DEF SameSlots, SameCount, HasFields
  <2>6. /\ SameSlots(e, b) /\ b.counted = e.counted + e.pending_done /\ b.pending_done = 0
        /\ b.launched = e.launched /\ b.queue = e.queue
        /\ b.req = e.req /\ b.w_left = e.w_left
    BY <2>3, <2>4, <2>5 DEF SameSlots, SameCount
  <2>7. ASSUME Counted(e) PROVE Counted(b)
    <3>1. PICK m \in Nat, k \in Nat : m = e.counted /\ k = e.pending_done
      BY <2>7 DEF Counted
    <3>2. b.counted = m + k /\ b.pending_done = 0 /\ (m + k) + 0 = m + k
      BY <2>6, <3>1
    <3>3. CutNr(b) = CutNr(e)
      BY <2>6 DEF CutNr
    <3>4. Acks(b.wlast.queue, b.counted + b.pending_done, CutNr(b))
      BY <2>6, <2>7, <3>1, <3>2, <3>3 DEF Counted, SameSlots
    <3> QED BY <2>6, <2>7, <3>1, <3>2, <3>4 DEF Counted
  <2> QED BY <2>6, <2>7, DoneFrame
<1> QED BY <1>2, <1>3, <1>4, <1>5, <1>6

\* Every step keeps the slots and the count in step.
LEMMA DoneNext ==
  ASSUME NonEmpty, DataInv(d), DoneInv(d), [Next]_vars
  PROVE  DoneInv(d')
<1>1. HasFields(d) /\ Owed(d, 0) /\ Counted(d)
  BY DEF DataInv, Ports, DoneInv
<1>2. ASSUME NEW p \in Port, NEW tr \in Transfers, Launch(p, tr) PROVE DoneInv(d')
  <2>1. SameSlots(d, launch(d, p, tr)) /\ Counted(launch(d, p, tr))
    BY <1>1, LaunchDone
  <2>2. Owed(launch(d, p, tr), 0)
    BY <1>1, <2>1, DoneFrame
  <2> QED BY <1>2, <2>1, <2>2 DEF Launch, DoneInv
<1>3. ASSUME NEW ar_answer, NEW w_answer, Tick(ar_answer, w_answer) PROVE DoneInv(d')
  <2>1. PICK d0, d1, d2, active :
            /\ d0 = [d EXCEPT !.tick = NoEvent, !.wake_targets = @ \ {0}]
            /\ d1 = step(d0, ar_answer) /\ d2 = write_tick(d1, w_answer)
            /\ d' = rearm(retry_held_beat(d2), active)
    BY <1>3 DEF Tick
  <2>2. /\ SameCopy(d, d0) /\ SamePorts(d, d0)
        /\ SameSlots(d, d0) /\ SameCount(d, d0)
    BY <1>1, <2>1 DEF SameCopy, SamePorts, SameSlots, SameCount, HasFields
  <2>3. DataInv(d0) /\ DoneInv(d0)
    BY <1>1, <2>2, DataFrame, DoneFrame DEF DoneInv
  <2>4. DataInv(d1) /\ DoneInv(d1)
    <3>1. CopyInv(d1) /\ SamePorts(d0, d1) /\ Tidy(d1)
      BY <2>1, <2>3, StepCopy DEF DataInv
    <3>2. DataInv(d1)
      BY <2>3, <3>1 DEF DataInv, Ports, SamePorts
    <3> QED BY <2>1, <2>3, <3>2, StepDone
  <2>5. HasFields(d2) /\ DoneInv(d2)
    <3>1. SamePorts(d1, d2)
      BY <2>1, <2>4, WriteTickCopy DEF DataInv
    <3> QED BY <2>1, <2>4, <3>1, WriteTickOwed DEF DoneInv, SamePorts
  <2>6. PICK d3, d4, f : /\ d3 = retry_held_beat(d2) /\ d4 = rearm(d3, active)
                         /\ f = IF active THEN enqueue(d3, "tick", 1) ELSE d3
    OBVIOUS
  <2>7. SameSlots(d2, d3) /\ SameCount(d2, d3) /\ HasFields(d3)
    <3>1. SameSlots(d2, d3) /\ SameCount(d2, d3)
      BY <2>5, <2>6, ReadSlots
    <3> QED BY <3>1 DEF SameSlots
  <2>8. SameSlots(d3, f) /\ SameCount(d3, f) /\ HasFields(f)
    <3>1. /\ SameSlots(d3, enqueue(d3, "tick", 1)) /\ SameCount(d3, enqueue(d3, "tick", 1))
      BY <2>7, SlotsQuiet
    <3>2. SameSlots(d3, d3) /\ SameCount(d3, d3)
      BY <2>7 DEF SameSlots, SameCount
    <3> QED BY <2>6, <3>1, <3>2 DEF SameSlots
  <2>9. SameSlots(f, d4) /\ SameCount(f, d4)
    <3>1. d4 = f \/ d4 = enqueue(f, "tick", Min(f.wake_targets))
      BY <2>6 DEF rearm
    <3>2. SameSlots(f, f) /\ SameCount(f, f)
      BY <2>8 DEF SameSlots, SameCount
    <3> QED BY <2>8, <3>1, <3>2, SlotsQuiet
  <2>10. SameSlots(d2, d4) /\ SameCount(d2, d4)
    BY <2>7, <2>8, <2>9 DEF SameSlots, SameCount
  <2>11. DoneInv(d4)
    BY <2>5, <2>10, DoneFrame DEF DoneInv
  <2> QED BY <2>1, <2>6, <2>11
<1>4. CASE Ready
  <2>1. PICK f : f = [d EXCEPT !.ready = NoEvent]
    OBVIOUS
  <2>2. /\ SameCopy(d, f) /\ SamePorts(d, f)
        /\ SameSlots(d, f) /\ SameCount(d, f)
    BY <1>1, <2>1 DEF SameCopy, SamePorts, SameSlots, SameCount, HasFields
  <2>3. DataInv(f) /\ DoneInv(f)
    BY <1>1, <2>2, DataFrame, DoneFrame DEF DoneInv
  <2>4. PICK S : Tried(f, S)
    BY ReadyKeeps
  <2> DEFINE G == {x \in S : DataInv(x) /\ DoneInv(x)}
  <2>5. G \in SUBSET S /\ f \in G
    BY <2>3, <2>4 DEF Tried
  <2>6. ASSUME NEW x \in G PROVE DataInv(retry_port(x)) /\ DoneInv(retry_port(x))
    <3>1. DataInv(x) /\ Owed(x, 0) /\ Counted(x)
      BY DEF DoneInv
    <3>2. /\ DataInv(retry_port(x)) /\ SameSlots(x, retry_port(x))
          /\ Counted(retry_port(x))
      BY <3>1, RetryDone
    <3> QED BY <3>1, <3>2, DoneFrame DEF DoneInv
  <2>7. stream_ready(f) \in G
    <3>1. \A x \in G : retry_port(x) \in S => retry_port(x) \in G
      BY <2>6
    <3> HIDE DEF G
    <3> QED BY <2>4, <2>5, <3>1 DEF Tried
  <2> QED BY <1>4, <2>1, <2>7 DEF Ready
<1>5. CASE Done
  BY <1>1, <1>5, BusDone DEF Done, DoneInv
<1>6. CASE Cycle
  BY <1>1, <1>6, CycleDone DEF Cycle, DoneInv
<1>7. CASE RetryRead \/ ReadBeat \/ WriteAck
  BY <1>1, <1>7, BusDone DEF RetryRead, ReadBeat, WriteAck, DoneInv
<1>8. ASSUME NEW answer, RetryWrite(answer) PROVE DoneInv(d')
  BY <1>1, <1>8, BusDone DEF RetryWrite, DoneInv
<1>9. CASE UNCHANGED vars
  BY <1>9 DEF vars
<1> QED BY <1>2, <1>3, <1>4, <1>5, <1>6, <1>7, <1>8, <1>9 DEF Next

\* At the beginning nothing is owed or counted.
LEMMA DoneInit ==
  ASSUME Init
  PROVE  DoneInv(d)
<1>1. /\ d.wlast = NewFifo /\ d.w_fifo = NewFifo /\ d.queue = NewFifo /\ d.acks = 0
      /\ d.held_beat = "none" /\ d.counted = 0 /\ d.pending_done = 0
      /\ d.launched = <<>> /\ d.req = None /\ d.w_left = 0
  BY DEF Init
<1>2. NewFifo.queue = <<>> /\ Len(NewFifo.queue) = 0 /\ NewFifo \in FifoType(Slot)
  BY DEF NewFifo, FifoType
<1>3. Unacked(d) + 0 = 0
  BY <1>1 DEF Unacked
<1>4. Slots(d.w_fifo.queue, d.wlast.queue, 0)
  BY <1>1, <1>2 DEF Slots
<1>5. Owed(d, 0)
  BY <1>1, <1>2, <1>3, <1>4 DEF Owed
<1>6. CutNr(d) = 1
  <2>1. NextNr(d.launched, Len(d.queue.queue)) = 1
    BY <1>1, <1>2 DEF NextNr
  <2> QED BY <1>1, <2>1 DEF CutNr
<1>7. Acks(d.wlast.queue, 0, 1)
  BY <1>1, <1>2 DEF Acks
<1>8. Counted(d)
  BY <1>1, <1>6, <1>7 DEF Counted
<1> QED BY <1>5, <1>8 DEF DoneInv

\* What is counted comes before what is cut, queued or waits for an acknowledge.
LEMMA CountedFirst ==
  ASSUME NEW e, DataInv(e), DoneInv(e)
  PROVE  \E K \in Nat, c \in Nat, nx \in Nat :
            /\ K = e.counted + e.pending_done
            /\ c = CutNr(e) /\ nx = NextNr(e.launched, Len(e.queue.queue))
            /\ K + 1 <= c /\ c <= nx /\ nx <= Len(e.launched) + 1
            /\ nx \in 1 .. Len(e.launched) + 1
            /\ \A i \in 1 .. Len(e.wlast.queue) : K + 1 <= e.wlast.queue[i].entry.req.nr
            /\ \A i \in 1 .. Len(e.w_fifo.queue) : K + 1 <= e.w_fifo.queue[i].entry.req.nr
<1>1. PICK K \in Nat : K = e.counted + e.pending_done
  BY DEF DoneInv, Counted
<1>2. PICK nx \in Nat, m \in Nat :
        /\ nx = NextNr(e.launched, Len(e.queue.queue)) /\ m = Len(e.launched)
        /\ nx \in 1 .. m + 1
  <2>1. PICK L, q, line : L = e.launched /\ q = e.queue /\ line = e.line
    OBVIOUS
  <2>2. Queued(L, q, line)
    BY <2>1 DEF DataInv, CopyInv
  <2> QED BY <2>1, <2>2, QueueFacts
<1>3. PICK c \in Nat : c = CutNr(e) /\ c <= nx
  <2>0. PICK h : Cutting(e.launched, e.req, e.r_left, e.w_left, h)
    BY DEF DataInv, CopyInv
  <2>1. PICK x \in Nat : /\ Cutting(e.launched, e.req, e.r_left, e.w_left, h)
                         /\ x = e.w_left
    BY <2>0 DEF Cutting
  <2>2. CASE x > 0
    <3>1. e.req # None /\ CutNr(e) = e.req.nr
      BY <2>1, <2>2 DEF Cutting, CutNr
    <3>2. PICK n \in Nat : n = e.req.nr
      <4>1. IsLine(e.launched, e.req)
        BY <2>1, <3>1 DEF Cutting
      <4> QED BY <4>1 DEF IsLine
    <3>3. nx = n \/ nx = n + 1
      BY <1>2, <3>1, <3>2 DEF DoneInv, Counted
    <3> QED BY <3>1, <3>2, <3>3
  <2>3. CASE ~(x > 0)
    BY <1>2, <2>1, <2>3 DEF CutNr
  <2> QED BY <2>2, <2>3
<1>4. e.wlast \in FifoType(Slot) /\ Acks(e.wlast.queue, K, c)
  BY <1>1, <1>3 DEF DoneInv, Owed, Counted
<1>5. /\ K + 1 <= c
      /\ \A i \in 1 .. Len(e.wlast.queue) : K + 1 <= e.wlast.queue[i].entry.req.nr
  BY <1>4, AcksAhead
<1>6. ASSUME NEW i \in 1 .. Len(e.w_fifo.queue)
      PROVE  K + 1 <= e.w_fifo.queue[i].entry.req.nr
  <2>1. PICK n \in Nat, k \in Nat :
            /\ n = Unacked(e) /\ k = Len(e.w_fifo.queue) /\ Len(e.wlast.queue) = k + n
            /\ e.wlast.queue[n + i].entry.req = e.w_fifo.queue[i].entry.req
    <3>1. PICK n \in Nat : n = Unacked(e)
      BY DEF DoneInv, Owed, Unacked
    <3>2. PICK k \in Nat : k = Len(e.w_fifo.queue)
      BY CopyNumbers DEF DataInv
    <3>3. Slots(e.w_fifo.queue, e.wlast.queue, n)
      BY <3>1 DEF DoneInv, Owed
    <3> QED BY <3>1, <3>2, <3>3 DEF Slots
  <2>2. i \in 1 .. k
    BY <2>1
  <2>3. n + i \in 1 .. k + n
    BY <2>2
  <2> QED BY <1>5, <2>1, <2>3
<1> QED BY <1>1, <1>2, <1>3, <1>5, <1>6

\* All words of the transfers counted are written.
LEMMA CountedWritten ==
  ASSUME NEW e, DataInv(e), DoneInv(e), NEW K \in Nat, K = e.counted + e.pending_done
  PROVE  /\ K + 1 \in 1 .. Len(e.launched) + 1
         /\ WordsBefore(e.launched)[K + 1] <= Len(e.written)
<1>1. PICK L \in Seq(Transfers), h \in Nat, m \in Nat, w \in Nat, x \in Nat :
        /\ L = e.launched /\ h = Handed(e.launched, Len(e.queue.queue), e.line)
        /\ m = Len(L) /\ w = Len(e.written) /\ x = e.w_left
  BY CopyNumbers DEF DataInv
<1>2. PICK c \in Nat, nx \in Nat :
        /\ c = CutNr(e) /\ nx = NextNr(L, Len(e.queue.queue))
        /\ K + 1 <= c /\ c <= nx /\ nx <= m + 1
        /\ \A i \in 1 .. Len(e.w_fifo.queue) : K + 1 <= e.w_fifo.queue[i].entry.req.nr
  BY <1>1, CountedFirst
<1>3. K + 1 \in 1 .. m + 1 /\ nx \in 1 .. m + 1
  BY <1>2
<1>4. PICK a \in Nat : a = WordsBefore(L)[K + 1]
  BY <1>1, <1>3, WordsBeforeNat
<1>5. ASSUME NEW n \in 1 .. m + 1, K + 1 <= n PROVE WordsBefore(L)[n] \in Nat /\ a <= WordsBefore(L)[n]
  BY <1>1, <1>3, <1>4, <1>5, WordsBeforeNat, WordsBeforeGrows
<1>6. Stream(L, e.w_fifo.queue, e.w_beat_idx, w, h - x)
  BY <1>1 DEF DataInv, CopyInv
<1>7. PICK k \in Nat : k = Len(e.w_fifo.queue)
  BY CopyNumbers DEF DataInv
<1>8. CASE k > 0
  <2>1. PICK s : s = e.w_fifo.queue[1].entry
    OBVIOUS
  <2>2. IsBurst(L, s) /\ e.w_beat_idx \in 0 .. s.beats - 1 /\ Start(L, s) + e.w_beat_idx = w
    BY <1>6, <1>7, <1>8, <2>1 DEF Stream
  <2>3. PICK b \in Nat, n \in Nat : b = Start(L, s) /\ n = s.req.nr /\ n \in 1 .. m
    <3>1. Start(L, s) \in Nat
      BY <2>2, BurstFacts
    <3> QED BY <1>1, <2>2, <3>1 DEF IsBurst, IsLine
  <2>4. WordsBefore(L)[n] <= b
    BY <2>2, <2>3, BurstFacts
  <2>5. K + 1 <= n /\ n \in 1 .. m + 1
    <3>1. 1 \in 1 .. Len(e.w_fifo.queue)
      BY <1>7, <1>8
    <3>2. K + 1 <= e.w_fifo.queue[1].entry.req.nr
      BY <1>2, <3>1
    <3>3. K + 1 <= n
      BY <2>1, <2>3, <3>2
    <3>4. n \in 1 .. m + 1
      BY <2>3
    <3> QED BY <3>3, <3>4
  <2>6. PICK v \in Nat : v = WordsBefore(L)[n] /\ a <= v
    BY <1>5, <2>5
  <2>7. PICK i \in Nat : i = e.w_beat_idx
    BY <2>2 DEF IsBurst
  <2>8. v <= b /\ b + i = w
    BY <2>2, <2>3, <2>4, <2>6, <2>7
  <2>9. a <= w
    BY <2>6, <2>8
  <2> QED BY <1>1, <1>3, <1>4, <2>9
<1>9. CASE k = 0
  <2>1. w = h - x
    BY <1>6, <1>7, <1>9 DEF Stream
  <2>2. CASE x > 0
    <3>1. Cutting(L, e.req, e.r_left, x, h)
      BY <1>1 DEF DataInv, CopyInv
    <3>2. PICK r : r = e.req
      OBVIOUS
    <3>3. IsLine(L, r) /\ x <= r.length /\ LineStart(L, r) + r.length = h
      BY <2>2, <3>1, <3>2 DEF Cutting
    <3>4. PICK b \in Nat, l \in Nat, n \in Nat :
            /\ b = LineStart(L, r) /\ l = r.length /\ n = r.nr /\ n \in 1 .. m
      BY <1>1, <3>3, LineFacts DEF IsLine
    <3>5. WordsBefore(L)[n] <= b
      BY <3>3, <3>4, LineFacts
    <3>6. K + 1 <= n /\ n \in 1 .. m + 1
      <4>1. c = n
        BY <1>1, <1>2, <2>2, <3>2, <3>4 DEF CutNr
      <4> QED BY <1>2, <3>4, <4>1
    <3>7. PICK v \in Nat : v = WordsBefore(L)[n] /\ a <= v
      BY <1>5, <3>6
    <3>8. v <= b /\ x <= l /\ b + l = h
      BY <3>3, <3>4, <3>5, <3>7
    <3>9. a <= w
      BY <2>1, <3>7, <3>8
    <3> QED BY <1>1, <1>3, <1>4, <3>9
  <2>3. CASE x = 0
    <3>1. PICK v \in Nat : v = WordsBefore(L)[nx] /\ a <= v
      <4>1. K + 1 <= nx
        BY <1>2
      <4> QED BY <1>3, <1>5, <4>1
    <3>2. v <= h
      <4>1. PICK q, line : q = e.queue /\ line = e.line
        OBVIOUS
      <4>2. Queued(L, q, line)
        BY <1>1, <4>1 DEF DataInv, CopyInv
      <4>3. h = v + (IF line = 0 THEN 0 ELSE line * L[nx].length)
        BY <1>1, <1>2, <3>1, <4>1 DEF Handed
      <4>4. CASE line = 0
        BY <4>3, <4>4
      <4>5. CASE line # 0
        <5>1. L[nx] \in Transfers /\ line \in Nat
          BY <1>2, <4>1, <4>2, <4>5, QueueFacts DEF Queued
        <5>2. PICK l \in Nat : l = L[nx].length
          BY <5>1, TransferFacts
        <5>3. line * l \in Nat
          BY <5>1
        <5> QED BY <4>3, <4>5, <5>2, <5>3
      <4> QED BY <4>4, <4>5
    <3>3. a <= w
      BY <2>1, <2>3, <3>1, <3>2
    <3> QED BY <1>1, <1>3, <1>4, <3>3
  <2> QED BY <2>2, <2>3
<1> QED BY <1>8, <1>9

\* So the reads of a transfer that is counted are over, and it is not cut.
LEMMA CountedGone ==
  ASSUME NEW e, DataInv(e), DoneInv(e), NEW K \in Nat, K = e.counted + e.pending_done
  PROVE  /\ \A i \in 1 .. Len(e.r_fifo.queue) : K + 1 <= e.r_fifo.queue[i].entry.req.nr
         /\ e.req # None => K + 1 <= e.req.nr
<1>1. PICK L \in Seq(Transfers), h \in Nat, m \in Nat, w \in Nat, b \in Nat,
           x \in Nat, y \in Nat :
        /\ L = e.launched /\ h = Handed(e.launched, Len(e.queue.queue), e.line)
        /\ m = Len(L) /\ w = Len(e.written) /\ b = Len(e.buffer)
        /\ x = e.r_left /\ y = e.w_left
  <2>1. PICK L \in Seq(Transfers), h \in Nat, m \in Nat :
          /\ L = e.launched /\ h = Handed(e.launched, Len(e.queue.queue), e.line)
          /\ m = Len(L)
    BY CopyNumbers DEF DataInv
  <2>2. PICK w \in Nat, b \in Nat, x \in Nat, y \in Nat :
          w = Len(e.written) /\ b = Len(e.buffer) /\ x = e.r_left /\ y = e.w_left
    BY CopyNumbers DEF DataInv
  <2> QED BY <2>1, <2>2
<1>2. K + 1 \in 1 .. m + 1 /\ WordsBefore(L)[K + 1] <= w
  BY <1>1, CountedWritten
<1>3. PICK a \in Nat : a = WordsBefore(L)[K + 1]
  BY <1>1, <1>2, WordsBeforeNat
<1>4. ASSUME NEW n \in 1 .. m, n <= K PROVE WordsBefore(L)[n + 1] \in Nat /\ WordsBefore(L)[n + 1] <= a
  <2>1. PICK j : j = n + 1
    OBVIOUS
  <2>2. j \in 1 .. m + 1 /\ j <= K + 1
    BY <1>4, <2>1
  <2>3. WordsBefore(L)[j] \in Nat /\ WordsBefore(L)[j] <= WordsBefore(L)[K + 1]
    BY <1>1, <1>2, <2>2, WordsBeforeNat, WordsBeforeGrows
  <2> QED BY <1>3, <2>1, <2>3
<1>5. Stream(L, e.r_fifo.queue, e.r_beat_idx, w + b, h - x)
  BY <1>1 DEF DataInv, CopyInv
<1>6. /\ \A i \in 1 .. Len(e.r_fifo.queue) : w + b < End(L, e.r_fifo.queue[i].entry)
      /\ w + b <= h - x
  <2>1. w + b \in Int /\ h - x \in Int /\ Len(e.r_fifo.queue) \in Nat
    BY CopyNumbers DEF DataInv
  <2> QED BY <1>5, <2>1, StreamAhead
<1>7. ASSUME NEW i \in 1 .. Len(e.r_fifo.queue)
      PROVE  K + 1 <= e.r_fifo.queue[i].entry.req.nr
  <2>1. PICK s : s = e.r_fifo.queue[i].entry
    OBVIOUS
  <2>2. IsBurst(L, s)
    BY <1>5, <2>1 DEF Stream
  <2>3. PICK n \in Nat, t \in Nat : n = s.req.nr /\ t = End(L, s) /\ n \in 1 .. m
    <3>1. End(L, s) \in Nat
      BY <2>2, BurstFacts
    <3> QED BY <1>1, <2>2, <3>1 DEF IsBurst, IsLine
  <2>4. t <= WordsBefore(L)[n + 1] /\ w + b < t
    BY <1>6, <2>1, <2>2, <2>3, BurstFacts
  <2>5. ASSUME n <= K PROVE FALSE
    <3>1. PICK v \in Nat : v = WordsBefore(L)[n + 1] /\ v <= a
      BY <1>4, <2>3, <2>5
    <3>2. a <= w /\ t <= v
      BY <1>2, <1>3, <2>4, <3>1
    <3> QED BY <2>4, <3>1, <3>2
  <2> QED BY <2>1, <2>3, <2>5
<1>8. ASSUME e.req # None PROVE K + 1 <= e.req.nr
  <2>1. PICK r : r = e.req
    OBVIOUS
  <2>2. IsLine(L, r) /\ LineStart(L, r) + r.length = h
    BY <1>1, <1>8, <2>1 DEF DataInv, CopyInv, Cutting
  <2>3. PICK n \in Nat, t \in Nat, l \in Nat :
            n = r.nr /\ t = LineStart(L, r) /\ l = r.length /\ n \in 1 .. m
    BY <1>1, <2>2, LineFacts DEF IsLine
  <2>4. t + l <= WordsBefore(L)[n + 1] /\ t + l = h
    BY <2>2, <2>3, LineFacts
  <2>5. CASE y > 0
    <3>1. CutNr(e) = n
      BY <1>1, <2>1, <2>3, <2>5 DEF CutNr
    <3> QED BY <2>1, <2>3, <3>1, CountedFirst
  <2>6. CASE y = 0
    <3>1. x > 0
      BY <1>1, <1>8, <2>6 DEF DataInv, Tidy, all_cut
    <3>2. ASSUME n <= K PROVE FALSE
      <4>1. PICK v \in Nat : v = WordsBefore(L)[n + 1] /\ v <= a
        BY <1>4, <2>3, <3>2
      <4>2. h <= v /\ a <= w
        BY <1>2, <1>3, <2>4, <4>1
      <4> QED BY <1>6, <3>1, <4>1, <4>2
    <3> QED BY <2>1, <2>3, <3>2
  <2> QED BY <2>5, <2>6
<1> QED BY <1>7, <1>8

DoneAlways == DoneInv(d)

\* DONE_ID counts in order: when n transfers are counted, the first n that were
\* launched have been read, written and acknowledged to the last word, for all
\* transfers that have something to copy, all depths and all answers of the bus.
\* A transfer of no length does not wait for the ones before it (the run
\* idma_zero shows what comes of it), hence the hypothesis.
THEOREM DoneIdCountsInOrder == NonEmpty => (Spec => []DoneIdTracks)
<1> SUFFICES ASSUME NonEmpty PROVE Spec => []DoneIdTracks
  OBVIOUS
<1>1. Init => DataAlways /\ DoneAlways
  BY DataInit, DoneInit DEF DataAlways, DoneAlways
<1>2. DataAlways /\ DoneAlways /\ [Next]_vars => DataAlways' /\ DoneAlways'
  BY DataNext, DoneNext DEF DataAlways, DoneAlways
<1>3. DataAlways /\ DoneAlways => DoneIdTracks
  <2> SUFFICES ASSUME DataInv(d), DoneInv(d) PROVE DoneIdTracks
    BY DEF DataAlways, DoneAlways
  <2>1. PICK K \in Nat, nx \in Nat, m \in Nat :
            /\ K = d.counted + d.pending_done
            /\ nx = NextNr(d.launched, Len(d.queue.queue)) /\ m = Len(d.launched)
            /\ K + 1 <= nx /\ nx <= m + 1
            /\ \A i \in 1 .. Len(d.wlast.queue) : K + 1 <= d.wlast.queue[i].entry.req.nr
            /\ \A i \in 1 .. Len(d.w_fifo.queue) : K + 1 <= d.w_fifo.queue[i].entry.req.nr
    <3>1. PICK m \in Nat : m = Len(d.launched)
      BY CopyNumbers DEF DataInv
    <3>2. PICK K \in Nat, c \in Nat, nx \in Nat :
            /\ K = d.counted + d.pending_done
            /\ nx = NextNr(d.launched, Len(d.queue.queue))
            /\ K + 1 <= c /\ c <= nx /\ nx <= m + 1
            /\ \A i \in 1 .. Len(d.wlast.queue) : K + 1 <= d.wlast.queue[i].entry.req.nr
            /\ \A i \in 1 .. Len(d.w_fifo.queue) : K + 1 <= d.w_fifo.queue[i].entry.req.nr
      BY <3>1, CountedFirst
    <3>3. K + 1 <= nx
      BY <3>2
    <3> QED BY <3>1, <3>2, <3>3
  <2>2. /\ \A i \in 1 .. Len(d.r_fifo.queue) : K + 1 <= d.r_fifo.queue[i].entry.req.nr
        /\ d.req # None => K + 1 <= d.req.nr
    BY <2>1, CountedGone
  <2>3. K <= m
    BY <2>1
  <2>4. ASSUME NEW nr \in 1 .. K PROVE Finished(nr)
    <3>1. ~(K + 1 <= nr)
      OBVIOUS
    <3>2. nr \notin {r.nr : r \in Entries(d.queue)}
      <4>1. PICK n \in Nat : /\ d.queue \in FifoType(Entry) /\ n = Len(d.queue.queue)
                             /\ \A i \in 1 .. n : d.queue.queue[i].entry.nr = m - n + i
        <5>1. Queued(d.launched, d.queue, d.line)
          BY DEF DataInv, CopyInv
        <5>2. d.queue \in FifoType(Entry)
          BY <5>1 DEF Queued
        <5>3. PICK n \in Nat : n = Len(d.queue.queue)
          BY <5>2, FifoLen
        <5>4. ASSUME NEW i \in 1 .. n PROVE d.queue.queue[i].entry.nr = m - n + i
          <6>1. d.queue.queue[i].entry = [nr |-> m - n + i, req |-> d.launched[m - n + i]]
            BY <2>1, <5>1, <5>3 DEF Queued
          <6> QED BY <6>1
        <5> QED BY <5>2, <5>3, <5>4
      <4>2. nx = m - n + 1
        BY <2>1, <4>1 DEF NextNr
      <4>3. \A i \in 1 .. n : K + 1 <= m - n + i
        BY <2>1, <4>2
      <4>4. DOMAIN d.queue.queue = 1 .. n
        BY <4>1, LenProperties DEF FifoType
      <4> QED BY <3>1, <4>1, <4>3, <4>4 DEF Entries
    <3>3. d.req # None => d.req.nr # nr
      BY <2>2, <3>1
    <3>4. ASSUME NEW f, \A i \in 1 .. Len(f.queue) : K + 1 <= f.queue[i].entry.req.nr,
                 DOMAIN f.queue = 1 .. Len(f.queue), NEW s \in Entries(f)
          PROVE  s.req.nr # nr
      BY <3>1, <3>4 DEF Entries
    <3>5. /\ DOMAIN d.r_fifo.queue = 1 .. Len(d.r_fifo.queue)
          /\ DOMAIN d.w_fifo.queue = 1 .. Len(d.w_fifo.queue)
          /\ DOMAIN d.wlast.queue = 1 .. Len(d.wlast.queue)
      <4>1. /\ d.r_fifo \in FifoType(Burst) /\ d.w_fifo \in FifoType(Burst)
            /\ d.wlast \in FifoType(Slot)
        BY DEF DataInv, CopyInv, DoneInv, Owed
      <4> QED BY <4>1, LenProperties DEF FifoType
    <3>6. nr \notin {s.req.nr : s \in Entries(d.r_fifo) \cup Entries(d.w_fifo)
                                         \cup Entries(d.wlast)}
      BY <2>1, <2>2, <3>4, <3>5
    <3> QED BY <3>2, <3>3, <3>6 DEF Finished
  <2> QED BY <2>1, <2>3, <2>4 DEF DoneIdTracks
<1> QED BY <1>1, <1>2, <1>3, PTL DEF Spec

-----------------------------------------------------------------------------
(***************************************************************************)
(* Wake-ups.  The back-end moves only in its tick.  Each cycle remembered  *)
(* in wake_targets is covered by the tick, each entry that is not yet      *)
(* visible by a cycle remembered, and what the next cycle changes by the   *)
(* next one; without a tick there is nothing that one would do.            *)
(***************************************************************************)

Timers(e) ==
    /\ e.tick \in Nat \cup {NoEvent} /\ e.wake_targets \subseteq Nat
    /\ \A t \in e.wake_targets : e.tick # NoEvent /\ e.tick <= t

\* The entries that wait: those of the mid-end for a cycle that is remembered,
\* the bursts for the next one.
Remembered(q, targets) == \A i \in 1 .. Len(q) : q[i].wait = 0 \/ q[i].wait \in targets
Soon(q) == \A i \in 1 .. Len(q) : q[i].wait \in 0 .. 1
Waits(e) ==
    /\ Remembered(e.queue.queue, e.wake_targets)
    /\ Soon(e.r_fifo.queue) /\ Soon(e.w_fifo.queue)

\* Something the next cycle changes for the back-end.
Unsettled(e) ==
    \/ e.took \/ e.pushed \/ e.queue.popped # 0
    \/ e.r_fifo.popped # 0 \/ e.w_fifo.popped # 0 \/ e.wlast.popped # 0
    \/ \E i \in 1 .. Len(e.r_fifo.queue) : e.r_fifo.queue[i].wait # 0
    \/ \E i \in 1 .. Len(e.w_fifo.queue) : e.w_fifo.queue[i].wait # 0

\* A tick would do nothing.
Stuck(e) ==
    /\ all_cut(e) => e.took \/ peek_1d(e) = None
    /\ ~all_cut(e) => /\ e.took \/ peek_1d(e) = None \/ peek_1d(e).length # 0
                      /\ ~r_go(e) /\ ~w_go(e)
    /\ ~write_can_tick(e)
    /\ ~(e.held_resp /\ read_beat_can_accept(e))

WakeInv(e) ==
    /\ Timers(e) /\ Waits(e)
    /\ Unsettled(e) => e.tick = 1 \/ 1 \in e.wake_targets
    /\ e.tick = NoEvent => Stuck(e)

\* The next cycle is asked for, or not.
Sooner(t) == IF t = NoEvent \/ 1 < t THEN 1 ELSE t
SameTimers(a, b) == b.tick = a.tick /\ b.wake_targets = a.wake_targets
Stir(a, b) ==
    \/ SameTimers(a, b)
    \/ b.tick = Sooner(a.tick) /\ b.wake_targets = a.wake_targets \cup {1}

\* Asking twice is asking once.
LEMMA StirTwice ==
  ASSUME NEW a, NEW b, NEW c, Stir(a, b), Stir(b, c)
  PROVE  /\ Stir(a, c) /\ a.wake_targets \subseteq c.wake_targets
         /\ b.wake_targets \subseteq c.wake_targets
         /\ 1 \in b.wake_targets => 1 \in c.wake_targets
BY DEF Stir, SameTimers, Sooner, NoEvent

\* The next cycle is covered when it is asked for.
LEMMA StirTimers ==
  ASSUME NEW a, NEW b, Timers(a), Stir(a, b)
  PROVE  Timers(b) /\ (1 \in b.wake_targets => b.tick # NoEvent)
<1>1. CASE SameTimers(a, b)
  BY <1>1 DEF SameTimers, Timers
<1>2. CASE b.tick = Sooner(a.tick) /\ b.wake_targets = a.wake_targets \cup {1}
  <2>1. PICK t \in Nat \cup {NoEvent} : t = a.tick
    BY DEF Timers
  <2>2. b.tick \in Nat /\ b.tick <= 1 /\ (t # NoEvent => b.tick <= t)
    BY <1>2, <2>1 DEF Sooner, NoEvent
  <2>3. ASSUME NEW u \in b.wake_targets PROVE u \in Nat /\ b.tick <= u
    <3>1. CASE u = 1
      BY <2>2, <3>1
    <3>2. CASE u \in a.wake_targets
      <4>1. t # NoEvent /\ t <= u /\ u \in Nat
        BY <2>1, <3>2 DEF Timers
      <4> QED BY <2>1, <2>2, <4>1 DEF NoEvent
    <3> QED BY <1>2, <3>1, <3>2
  <2> QED BY <2>2, <2>3 DEF Timers, NoEvent
<1> QED BY <1>1, <1>2 DEF Stir

\* A wake-up asks for the next cycle.
LEMMA StirWake ==
  ASSUME NEW e, HasFields(e)
  PROVE  Stir(e, wake(e, 1)) /\ 1 \in wake(e, 1).wake_targets
BY DEF HasFields, wake, enqueue, Stir, Sooner

\* Completions, addresses and lines ask for other events.
LEMMA StirNot ==
  ASSUME NEW e, HasFields(e), NEW r, NEW force, NEW n, NEW answer, NEW decouple
  PROVE  /\ SameTimers(e, complete_1d(e, r, force)) /\ SameTimers(e, issue_ar(e, n, answer))
         /\ SameTimers(e, issue_aw(e, decouple))
         /\ SameTimers(e, [take_1d(e) EXCEPT !.took = TRUE])
<1>1. SameTimers(e, complete_1d(e, r, force))
  BY DEF HasFields, complete_1d, enqueue, SameTimers
<1>2. SameTimers(e, issue_ar(e, n, answer)) /\ SameTimers(e, issue_aw(e, decouple))
  BY DEF HasFields, issue_ar, issue_aw, SameTimers
<1>3. SameTimers(e, [take_1d(e) EXCEPT !.took = TRUE])
  BY DEF HasFields, take_1d, enqueue, SameTimers
<1> QED BY <1>1, <1>2, <1>3

\* The credit of a first beat may ask for the next cycle.
LEMMA StirCredit ==
  ASSUME NEW e, HasFields(e)
  PROVE  Stir(e, on_read_first_beat(e))
<1>1. on_read_first_beat(e) = e => Stir(e, on_read_first_beat(e))
  BY DEF Stir, SameTimers
<1>2. PICK f, g : /\ f = [e EXCEPT !.aw_credits = @ + 1]
                  /\ g = [e EXCEPT !.data_queue[Min(aw_waiting(e))] = TRUE]
  OBVIOUS
<1>3. Stir(e, f) /\ Stir(e, g) /\ HasFields(g)
  BY <1>2 DEF HasFields, Stir, SameTimers
<1>4. Stir(e, wake(g, 1))
  BY <1>3, StirWake, StirTwice
<1>5. on_read_first_beat(e) \in {e, f, wake(g, 1)}
  BY <1>2 DEF on_read_first_beat
<1> QED BY <1>1, <1>3, <1>4, <1>5

\* The acknowledge of a burst asks for the next cycle.
LEMMA StirAck ==
  ASSUME NEW e, HasFields(e)
  PROVE  Stir(e, write_burst_done(e)) /\ 1 \in write_burst_done(e).wake_targets
<1>1. PICK f, g : /\ f = [e EXCEPT !.wlast = pop(@)]
                  /\ g = IF head(e.wlast).last
                         THEN complete_1d(f, head(e.wlast).req, FALSE) ELSE f
  OBVIOUS
<1>2. HasFields(f) /\ SameTimers(e, f)
  BY <1>1 DEF HasFields, SameTimers
<1>3. HasFields(g) /\ SameTimers(f, g)
  <2>1. /\ HasFields(complete_1d(f, head(e.wlast).req, FALSE))
        /\ SameTimers(f, complete_1d(f, head(e.wlast).req, FALSE))
    BY <1>2, CompleteQuiet, StirNot DEF SamePorts
  <2>2. SameTimers(f, f)
    BY DEF SameTimers
  <2> QED BY <1>1, <1>2, <2>1, <2>2
<1>4. Stir(e, g)
  BY <1>2, <1>3 DEF SameTimers, Stir
<1>5. write_burst_done(e) = wake(g, 1)
  BY <1>1 DEF write_burst_done
<1> QED BY <1>3, <1>4, <1>5, StirWake, StirTwice

\* So may the answer to a beat.
LEMMA StirSend ==
  ASSUME NEW e, HasFields(e), NEW last, NEW answer
  PROVE  Stir(e, send_beat(e, last, answer))
<1>1. PICK f, g : /\ f = [e EXCEPT !.held_beat = IF last THEN "last" ELSE "beat"]
                  /\ g = [e EXCEPT !.acks = @ + 1]
  OBVIOUS
<1>2. Stir(e, f) /\ Stir(e, g) /\ Stir(e, e)
  BY <1>1 DEF HasFields, Stir, SameTimers
<1>3. send_beat(e, last, answer) \in {e, f, g, write_burst_done(e)}
  BY <1>1 DEF send_beat
<1> QED BY <1>2, <1>3, StirAck

\* A burst that is pushed waits for the next cycle, one that is popped leaves
\* the others as they are.
LEMMA SoonKept ==
  ASSUME NEW E, NEW f \in FifoType(E), Soon(f.queue), NEW x
  PROVE  /\ Soon(push(f, x, 0).queue)
         /\ f.queue # <<>> => Soon(pop(f).queue)
<1>1. Soon(push(f, x, 0).queue)
  <2>1. PICK D : D = E \cup {x}
    OBVIOUS
  <2>2. f \in FifoType(D)
    <3>1. PICK A, B, q : /\ A = [entry : E, wait : Nat] /\ B = [entry : D, wait : Nat]
                         /\ q = f.queue
      OBVIOUS
    <3>2. A \subseteq B
      BY <2>1, <3>1
    <3>3. q \in Seq(A) /\ f = [queue |-> q, popped |-> f.popped] /\ f.popped \in Nat
      BY <3>1 DEF FifoType
    <3>4. PICK n \in Nat : q \in [1 .. n -> A]
      BY <3>3, SeqDef
    <3>5. q \in [1 .. n -> B]
      BY <3>2, <3>4
    <3>6. q \in Seq(B)
      BY <3>5, SeqDef
    <3> QED BY <3>1, <3>3, <3>6 DEF FifoType
  <2>3. PICK n \in Nat, g \in {push(f, x, 0)} :
            /\ n = Len(f.queue) /\ g = push(f, x, 0) /\ Len(g.queue) = n + 1
            /\ \A i \in 1 .. n : g.queue[i] = f.queue[i]
            /\ g.queue[n + 1].wait = 1
    <3>1. Len(f.queue) \in Nat
      BY FifoLen
    <3>2. /\ Len(push(f, x, 0).queue) = Len(f.queue) + 1
          /\ \A i \in 1 .. Len(f.queue) : push(f, x, 0).queue[i] = f.queue[i]
          /\ push(f, x, 0).queue[Len(f.queue) + 1].wait = 1 + 0
      BY <2>1, <2>2, PushFifo
    <3> QED BY <3>1, <3>2
  <2>4. ASSUME NEW i \in 1 .. n + 1 PROVE g.queue[i].wait \in 0 .. 1
    <3>1. CASE i = n + 1
      BY <2>3, <3>1
    <3>2. CASE i # n + 1
      <4>1. i \in 1 .. n
        BY <3>2
      <4> QED BY <2>3, <4>1 DEF Soon
    <3> QED BY <3>1, <3>2
  <2> QED BY <2>3, <2>4 DEF Soon
<1>2. ASSUME f.queue # <<>> PROVE Soon(pop(f).queue)
  <2>1. PICK n \in Nat \ {0}, g \in {pop(f)} :
            /\ n = Len(f.queue) /\ g = pop(f) /\ Len(g.queue) = n - 1
            /\ \A i \in 1 .. n - 1 : g.queue[i] = f.queue[i + 1]
    <3>1. /\ Len(f.queue) \in Nat \ {0} /\ Len(pop(f).queue) = Len(f.queue) - 1
          /\ \A i \in 1 .. Len(f.queue) - 1 : pop(f).queue[i] = f.queue[i + 1]
      BY <1>2, PopFifo
    <3> QED BY <3>1
  <2>2. ASSUME NEW i \in 1 .. n - 1 PROVE g.queue[i].wait \in 0 .. 1
    <3>1. i + 1 \in 1 .. n
      OBVIOUS
    <3> QED BY <2>1, <3>1 DEF Soon
  <2> QED BY <2>1, <2>2 DEF Soon
<1> QED BY <1>1, <1>2

\* The transfers behind the first one wait for the same cycles.
LEMMA RememberedPop ==
  ASSUME NEW E, NEW f \in FifoType(E), f.queue # <<>>, NEW T, Remembered(f.queue, T)
  PROVE  Remembered(pop(f).queue, T)
<1>1. PICK n \in Nat \ {0}, g \in {pop(f)} :
          /\ n = Len(f.queue) /\ g = pop(f) /\ Len(g.queue) = n - 1
          /\ \A i \in 1 .. n - 1 : g.queue[i] = f.queue[i + 1]
  <2>1. /\ Len(f.queue) \in Nat \ {0} /\ Len(pop(f).queue) = Len(f.queue) - 1
        /\ \A i \in 1 .. Len(f.queue) - 1 : pop(f).queue[i] = f.queue[i + 1]
    BY PopFifo
  <2> QED BY <2>1
<1>2. ASSUME NEW i \in 1 .. n - 1 PROVE g.queue[i].wait = 0 \/ g.queue[i].wait \in T
  <2>1. i + 1 \in 1 .. n
    OBVIOUS
  <2> QED BY <1>1, <2>1 DEF Remembered
<1> QED BY <1>1, <1>2 DEF Remembered

\* More cycles remembered, same queues.
LEMMA WaitsFrame ==
  ASSUME NEW a, NEW b, Waits(a), b.queue = a.queue, b.r_fifo = a.r_fifo,
         b.w_fifo = a.w_fifo, a.wake_targets \subseteq b.wake_targets
  PROVE  Waits(b)
BY DEF Waits, Remembered

\* A line that is handed over asks for no tick, and what waits still does.
LEMMA TakeLineWaits ==
  ASSUME NEW e, HasFields(e), CopyInv(e), Waits(e), peek_1d(e) # None,
         NEW t, t = [take_1d(e) EXCEPT !.took = TRUE]
  PROVE  HasFields(t) /\ Waits(t) /\ SameTimers(e, t)
<1>1. /\ HasFields(t) /\ t.r_fifo = e.r_fifo /\ t.w_fifo = e.w_fifo
      /\ t.queue = e.queue \/ t.queue = pop(e.queue)
  <2>1. SamePorts(e, t) /\ SameBursts(e, t) /\ TookLine(e, t)
    BY TakeFrame
  <2> QED BY <2>1 DEF SamePorts, SameBursts, TookLine
<1>2. SameTimers(e, t)
  BY StirNot
<1>3. PICK q \in FifoType(Entry) : q = e.queue /\ q.queue # <<>>
  BY PeekFacts DEF CopyInv, Queued
<1>4. Remembered(t.queue.queue, e.wake_targets)
  BY <1>1, <1>3, RememberedPop DEF Waits
<1> QED BY <1>1, <1>2, <1>4 DEF Waits, SameTimers

\* Taking a request asks for no tick, and what waits still does.
LEMMA TakeWaits ==
  ASSUME NEW e, HasFields(e), CopyInv(e), Waits(e)
  PROVE  /\ Waits(take_request(e)) /\ SameTimers(e, take_request(e))
         /\ Waits(bypass(e)) /\ SameTimers(e, bypass(e))
<1>1. SameTimers(e, e)
  BY DEF SameTimers
<1>2. CASE e.took \/ peek_1d(e) = None
  BY <1>1, <1>2 DEF take_request, bypass
<1>3. CASE ~e.took /\ peek_1d(e) # None
  <2>1. PICK t, r, c, v :
          /\ t = [take_1d(e) EXCEPT !.took = TRUE] /\ r = peek_1d(e)
          /\ c = complete_1d(t, r, TRUE)
          /\ v = [t EXCEPT !.req = r, !.r_left = r.length, !.w_left = r.length]
    OBVIOUS
  <2>2. HasFields(t) /\ Waits(t) /\ SameTimers(e, t)
    BY <1>3, <2>1, TakeLineWaits
  <2>3. Waits(v) /\ SameTimers(e, v)
    <3>1. /\ v.queue = t.queue /\ v.r_fifo = t.r_fifo /\ v.w_fifo = t.w_fifo
          /\ v.tick = t.tick /\ v.wake_targets = t.wake_targets
      BY <2>1, <2>2 DEF HasFields
    <3> QED BY <2>2, <3>1, WaitsFrame DEF SameTimers
  <2>4. Waits(c) /\ SameTimers(e, c)
    <3>1. SameCopy(t, c) /\ SameTimers(t, c)
      BY <2>1, <2>2, CompleteQuiet, StirNot
    <3>2. /\ c.queue = t.queue /\ c.r_fifo = t.r_fifo /\ c.w_fifo = t.w_fifo
          /\ c.tick = t.tick /\ c.wake_targets = t.wake_targets
      BY <3>1 DEF SameCopy, SameTimers
    <3> QED BY <2>2, <3>2, WaitsFrame DEF SameTimers
  <2>5. take_request(e) \in {c, v} /\ bypass(e) \in {c, e}
    BY <1>3, <2>1 DEF take_request, bypass
  <2> QED BY <1>1, <2>3, <2>4, <2>5
<1> QED BY <1>2, <1>3

\* So does cutting bursts.
LEMMA SplitWaits ==
  ASSUME NEW e, HasFields(e), CopyInv(e), Waits(e), NEW n, NEW answer
  PROVE  /\ Waits(read_split(e, answer)) /\ SameTimers(e, read_split(e, answer))
         /\ Waits(write_split(e, n)) /\ SameTimers(e, write_split(e, n))
<1>1. e.r_fifo \in FifoType(Burst) /\ e.w_fifo \in FifoType(Burst)
  BY DEF CopyInv
<1>2. Waits(read_split(e, answer)) /\ SameTimers(e, read_split(e, answer))
  <2>1. PICK k, s, f, v :
          /\ k = coupled_to(e, r_burst(e))
          /\ s = [req |-> e.req, first |-> e.req.length - e.r_left, beats |-> k]
          /\ f = issue_ar(e, k, answer)
          /\ v = [f EXCEPT !.r_fifo = push(@, s, 0), !.r_left = @ - k]
    OBVIOUS
  <2>2. HasFields(f) /\ SameCopy(e, f) /\ SameTimers(e, f)
    BY <2>1, IssueQuiet, StirNot DEF SamePorts
  <2>3. /\ v.queue = e.queue /\ v.r_fifo = push(e.r_fifo, s, 0) /\ v.w_fifo = e.w_fifo
        /\ v.tick = e.tick /\ v.wake_targets = e.wake_targets
    BY <2>1, <2>2 DEF HasFields, SameCopy, SameTimers
  <2>4. Soon(push(e.r_fifo, s, 0).queue)
    BY <1>1, SoonKept DEF Waits
  <2>5. read_split(e, answer) = v
    BY <2>1 DEF read_split
  <2> QED BY <2>3, <2>4, <2>5 DEF Waits, SameTimers
<1>3. Waits(write_split(e, n)) /\ SameTimers(e, write_split(e, n))
  <2>1. PICK s, x, f, v :
          /\ s = [req |-> e.req, first |-> e.req.length - e.w_left, beats |-> n]
          /\ x = [req |-> e.req, last |-> n = e.w_left]
          /\ f = issue_aw(e, e.req.decouple_aw)
          /\ v = [f EXCEPT !.w_fifo = push(@, s, 0), !.wlast = push(@, x, 0),
                           !.w_left = @ - n]
    OBVIOUS
  <2>2. HasFields(f) /\ SameCopy(e, f) /\ SameTimers(e, f)
    BY <2>1, IssueQuiet, StirNot DEF SamePorts
  <2>3. /\ v.queue = e.queue /\ v.w_fifo = push(e.w_fifo, s, 0) /\ v.r_fifo = e.r_fifo
        /\ v.tick = e.tick /\ v.wake_targets = e.wake_targets
    BY <2>1, <2>2 DEF HasFields, SameCopy, SameTimers
  <2>4. Soon(push(e.w_fifo, s, 0).queue)
    BY <1>1, SoonKept DEF Waits
  <2>5. write_split(e, n) = v
    BY <2>1 DEF write_split
  <2> QED BY <2>3, <2>4, <2>5 DEF Waits, SameTimers
<1> QED BY <1>2, <1>3

\* The splits of one cycle ask for no tick, and owe a slot for every burst.
LEMMA CutWaits ==
  ASSUME NEW e, Ports(e), CopyInv(e), Waits(e), NEW answer
  PROVE  /\ Waits(cut(e, answer)) /\ SameTimers(e, cut(e, answer))
         /\ Owed(e, 0) => Owed(cut(e, answer), 0)
<1>1. HasFields(e) /\ SameTimers(e, e)
  BY DEF Ports, SameTimers
<1>2. PICK m, g, c : /\ m = coupled_to(e, w_burst(e)) /\ c = cut(e, answer)
                     /\ g = IF r_go(e) THEN read_split(e, answer) ELSE e
  OBVIOUS
<1>3. /\ CopyInv(g) /\ Ports(g) /\ g.w_left = e.w_left
      /\ Waits(g) /\ SameTimers(e, g) /\ (Owed(e, 0) => Owed(g, 0))
  <2>1. CASE r_go(e)
    <3>1. CopyInv(g) /\ SamePorts(e, g) /\ g.w_left = e.w_left
      BY <1>2, <2>1, ReadSplitCopy
    <3>2. SameSlots(e, g)
      BY <1>1, <1>2, <2>1, ReadSplitSlots
    <3>3. Waits(g) /\ SameTimers(e, g)
      BY <1>1, <1>2, <2>1, SplitWaits
    <3>4. Owed(e, 0) => Owed(g, 0)
      BY <3>2, DoneFrame
    <3> QED BY <3>1, <3>3, <3>4 DEF Ports, SamePorts
  <2>2. CASE ~r_go(e)
    BY <1>1, <1>2, <2>2
  <2> QED BY <2>1, <2>2
<1>4. CASE w_go(e)
  <2>1. m \in 1 .. g.w_left /\ c = write_split(g, m)
    BY <1>2, <1>3, <1>4, CutSize DEF cut
  <2>2. HasFields(g)
    BY <1>3 DEF Ports
  <2>3. Waits(c) /\ SameTimers(g, c)
    BY <1>3, <2>1, <2>2, SplitWaits
  <2>4. Owed(g, 0) => Owed(c, 0)
    BY <1>3, <2>1, WriteSplitSlots
  <2> QED BY <1>2, <1>3, <2>3, <2>4 DEF SameTimers
<1>5. CASE ~w_go(e)
  BY <1>2, <1>3, <1>5 DEF cut
<1> QED BY <1>4, <1>5

\* So does the legalizer as a whole.
LEMMA StepWaits ==
  ASSUME NEW e, DataInv(e), Waits(e), NEW answer
  PROVE  /\ Waits(step(e, answer)) /\ SameTimers(e, step(e, answer))
         /\ Owed(e, 0) => Owed(step(e, answer), 0)
<1>1. HasFields(e) /\ Ports(e) /\ CopyInv(e)
  BY DEF DataInv, Ports
<1>2. CASE all_cut(e)
  <2>1. step(e, answer) = take_request(e)
    BY <1>2 DEF step
  <2>2. Waits(take_request(e)) /\ SameTimers(e, take_request(e))
    BY <1>1, TakeWaits
  <2>3. Owed(e, 0) => Owed(take_request(e), 0)
    BY <1>1, TakeSlots, DoneFrame
  <2> QED BY <2>1, <2>2, <2>3
<1>3. CASE ~all_cut(e)
  <2>1. PICK b, c, f : b = bypass(e) /\ c = cut(b, answer) /\ f = [c EXCEPT !.req = None]
    OBVIOUS
  <2>2. CopyInv(b) /\ Ports(b)
    <3>1. CopyInv(b) /\ SamePorts(e, b)
      BY <1>1, <2>1, BypassCopy
    <3> QED BY <1>1, <3>1 DEF Ports, SamePorts
  <2>3. Waits(b) /\ SameTimers(e, b) /\ (Owed(e, 0) => Owed(b, 0))
    <3>1. Waits(b) /\ SameTimers(e, b)
      BY <1>1, <2>1, TakeWaits
    <3>2. SameSlots(e, b)
      BY <1>1, <2>1, TakeSlots
    <3> QED BY <3>1, <3>2, DoneFrame
  <2>4. CopyInv(c) /\ HasFields(c)
    <3>1. CopyInv(c) /\ SamePorts(b, c)
      BY <2>1, <2>2, CutCopy
    <3> QED BY <3>1 DEF SamePorts
  <2>5. Waits(c) /\ SameTimers(e, c) /\ (Owed(e, 0) => Owed(c, 0))
    <3>1. Waits(c) /\ SameTimers(b, c) /\ (Owed(b, 0) => Owed(c, 0))
      BY <2>1, <2>2, <2>3, CutWaits
    <3> QED BY <2>3, <3>1 DEF SameTimers
  <2>6. CASE ~all_cut(c)
    <3>1. step(e, answer) = c
      BY <1>3, <2>1, <2>6 DEF step
    <3> QED BY <2>5, <3>1
  <2>7. CASE all_cut(c)
    <3>1. step(e, answer) = take_request(f)
      BY <1>3, <2>1, <2>7 DEF step
    <3>2. /\ SameSlots(c, f) /\ SameTimers(c, f) /\ SameBursts(c, f) /\ HasFields(f)
          /\ f.queue = c.queue /\ f.line = c.line /\ f.req = None
          /\ f.r_left = c.r_left /\ f.w_left = c.w_left
      BY <2>1, <2>4 DEF SameSlots, SameTimers, SameBursts, HasFields
    <3>3. CopyInv(f)
      <4>1. PICK h : h = Handed(c.launched, Len(c.queue.queue), c.line)
        OBVIOUS
      <4>2. Cutting(f.launched, f.req, f.r_left, f.w_left, h)
        BY <2>7, <3>2 DEF Cutting, all_cut
      <4>3. h = Handed(f.launched, Len(f.queue.queue), f.line)
        BY <3>2, <4>1 DEF SameBursts
      <4> QED BY <2>4, <3>2, <4>1, <4>2, <4>3 DEF CopyInv, SameBursts
    <3>4. Waits(f)
      BY <2>5, <3>2, WaitsFrame DEF SameTimers, SameBursts
    <3>5. Waits(take_request(f)) /\ SameTimers(f, take_request(f))
      BY <3>2, <3>3, <3>4, TakeWaits
    <3>6. Owed(e, 0) => Owed(take_request(f), 0)
      <4>1. Owed(c, 0) => Owed(f, 0)
        BY <3>2, DoneFrame
      <4>2. SameSlots(f, take_request(f))
        BY <3>2, TakeSlots
      <4> QED BY <2>5, <4>1, <4>2, DoneFrame
    <3> QED BY <2>5, <3>1, <3>2, <3>5, <3>6 DEF SameTimers
  <2> QED BY <2>6, <2>7
<1> QED BY <1>2, <1>3

\* A beat that is written asks for the next cycle.
LEMMA WriteTickWaits ==
  ASSUME NEW e, HasFields(e), e.w_fifo \in FifoType(Burst), Waits(e), NEW answer
  PROVE  Waits(write_tick(e, answer)) /\ Stir(e, write_tick(e, answer))
<1>1. CASE ~write_can_tick(e)
  BY <1>1 DEF write_tick, Stir, SameTimers
<1>2. CASE write_can_tick(e)
  <2>1. e.w_fifo.queue # <<>>
    BY <1>2 DEF write_can_tick, write_beat_ready, head_visible, is_empty
  <2> DEFINE last == e.w_beat_idx + 1 = head(e.w_fifo).beats
  <2>2. PICK v, f, g, h :
            /\ v.tick = e.tick /\ v.wake_targets = e.wake_targets
            /\ v.queue = e.queue /\ v.r_fifo = e.r_fifo /\ HasFields(v)
            /\ v.w_fifo = (IF last THEN pop(e.w_fifo) ELSE e.w_fifo)
            /\ f = wake(v, 1)
            /\ g = [f EXCEPT !.data_queue = IF last THEN Tail(@) ELSE @]
            /\ h = send_beat(g, last, answer)
            /\ write_tick(e, answer) = h
    <3>1. PICK word, v :
            /\ word = [nr |-> head(e.w_fifo).req.nr, line |-> head(e.w_fifo).req.line,
                       word |-> head(e.w_fifo).first + e.w_beat_idx]
            /\ v = [buffer_pop(e) EXCEPT
                       !.written = Append(@, [data |-> Head(e.buffer), at |-> word]),
                       !.w_beat_idx = IF last THEN 0 ELSE @ + 1,
                       !.w_fifo = IF last THEN pop(@) ELSE @]
      OBVIOUS
    <3>2. write_beat_take(e) = wake(v, 1)
      BY <3>1 DEF write_beat_take
    <3>3. /\ v.tick = e.tick /\ v.wake_targets = e.wake_targets
          /\ v.queue = e.queue /\ v.r_fifo = e.r_fifo /\ HasFields(v)
          /\ v.w_fifo = (IF last THEN pop(e.w_fifo) ELSE e.w_fifo)
      BY <3>1 DEF HasFields, buffer_pop
    <3>4. PICK f, g : /\ f = wake(v, 1)
                      /\ g = [f EXCEPT !.data_queue = IF last THEN Tail(@) ELSE @]
      OBVIOUS
    <3>5. write_tick(e, answer) = send_beat(g, last, answer)
      BY <1>2, <3>2, <3>4 DEF write_tick
    <3> HIDE DEF last
    <3> QED BY <3>3, <3>4, <3>5
  <2> HIDE DEF last
  <2>3. Waits(v) /\ Stir(e, v)
    <3>1. Soon(v.w_fifo.queue)
      BY <2>1, <2>2, SoonKept DEF Waits
    <3> QED BY <2>2, <3>1 DEF Waits, Stir, SameTimers
  <2>4. HasFields(f) /\ SameCopy(v, f) /\ Stir(v, f)
    BY <2>2, WakeQuiet, StirWake DEF SamePorts
  <2>5. HasFields(g) /\ SameTimers(f, g) /\ SameCopy(f, g)
    BY <2>2, <2>4 DEF HasFields, SameTimers, SameCopy
  <2>6. SameCopy(g, h) /\ Stir(g, h)
    BY <2>2, <2>5, SendQuiet, StirSend
  <2>7. Stir(e, h) /\ v.wake_targets \subseteq h.wake_targets
    <3>1. Stir(f, g)
      BY <2>5 DEF Stir
    <3>2. Stir(v, g)
      BY <2>4, <3>1, StirTwice
    <3>3. Stir(v, h) /\ v.wake_targets \subseteq h.wake_targets
      BY <2>6, <3>2, StirTwice
    <3> QED BY <2>3, <3>3, StirTwice
  <2>8. h.queue = v.queue /\ h.r_fifo = v.r_fifo /\ h.w_fifo = v.w_fifo
    BY <2>4, <2>5, <2>6 DEF SameCopy
  <2> QED BY <2>2, <2>3, <2>7, <2>8, WaitsFrame
<1> QED BY <1>1, <1>2

\* A beat that is read asks for the next cycle.
LEMMA ReadTakeWaits ==
  ASSUME NEW e, HasFields(e), e.r_fifo \in FifoType(Burst), Waits(e),
         read_beat_can_accept(e)
  PROVE  /\ Waits(read_beat_accept(e)) /\ Stir(e, read_beat_accept(e))
         /\ 1 \in read_beat_accept(e).wake_targets
<1>1. e.r_fifo.queue # <<>>
  BY DEF read_beat_can_accept, head_visible, is_empty
<1>2. PICK w, g, o, last :
        /\ w = [nr |-> head(e.r_fifo).req.nr, line |-> head(e.r_fifo).req.line,
                word |-> head(e.r_fifo).first + e.r_beat_idx]
        /\ g = buffer_push(e, w)
        /\ o = IF e.r_beat_idx = 0 /\ ~head(e.r_fifo).req.decouple_aw
               THEN on_read_first_beat(g) ELSE g
        /\ last = (e.r_beat_idx + 1 = head(e.r_fifo).beats)
  OBVIOUS
<1>3. /\ HasFields(g) /\ SameTimers(e, g) /\ g.queue = e.queue /\ g.r_fifo = e.r_fifo
      /\ g.w_fifo = e.w_fifo
  BY <1>2 DEF buffer_push, HasFields, SameTimers
<1>4. HasFields(o) /\ SameCopy(g, o) /\ Stir(g, o)
  <2>1. /\ HasFields(on_read_first_beat(g)) /\ SameCopy(g, on_read_first_beat(g))
        /\ Stir(g, on_read_first_beat(g))
    BY <1>3, CreditQuiet, StirCredit DEF SamePorts
  <2>2. SameCopy(g, g) /\ Stir(g, g)
    BY DEF SameCopy, Stir, SameTimers
  <2> QED BY <1>2, <1>3, <2>1, <2>2
<1>5. PICK c :
        /\ c.tick = o.tick /\ c.wake_targets = o.wake_targets
        /\ c.queue = o.queue /\ c.w_fifo = o.w_fifo /\ HasFields(c)
        /\ c.r_fifo = (IF last THEN pop(o.r_fifo) ELSE o.r_fifo)
        /\ read_beat_accept(e) = wake(c, 1)
  <2> DEFINE reads == IF Head(e.reads) = 1 THEN Tail(e.reads)
                      ELSE [e.reads EXCEPT ![1] = @ - 1]
             v == [o EXCEPT !.r_beat_idx = IF last THEN 0 ELSE @ + 1,
                            !.r_fifo = IF last THEN pop(@) ELSE @, !.reads = reads]
  <2>1. read_beat_accept(e) = wake(v, 1)
    BY <1>2 DEF read_beat_accept
  <2>2. /\ v.tick = o.tick /\ v.wake_targets = o.wake_targets
        /\ v.queue = o.queue /\ v.w_fifo = o.w_fifo /\ HasFields(v)
        /\ v.r_fifo = (IF last THEN pop(o.r_fifo) ELSE o.r_fifo)
    <3> HIDE DEF reads
    <3> QED BY <1>4 DEF HasFields
  <2> HIDE DEF v
  <2> QED BY <2>1, <2>2
<1>6. Stir(e, c) /\ e.wake_targets \subseteq c.wake_targets
  <2>1. Stir(e, g) /\ Stir(o, c)
    BY <1>3, <1>5 DEF Stir, SameTimers
  <2>2. Stir(e, o)
    BY <1>4, <2>1, StirTwice
  <2> QED BY <2>1, <2>2, StirTwice
<1>7. Waits(c)
  <2>1. o.queue = e.queue /\ o.r_fifo = e.r_fifo /\ o.w_fifo = e.w_fifo
    BY <1>3, <1>4 DEF SameCopy
  <2>2. Soon(c.r_fifo.queue)
    BY <1>1, <1>5, <2>1, SoonKept DEF Waits
  <2> QED BY <1>5, <1>6, <2>1, <2>2 DEF Waits, Remembered
<1>8. PICK h : h = wake(c, 1)
  OBVIOUS
<1>9. SameCopy(c, h) /\ Stir(c, h) /\ 1 \in h.wake_targets
  BY <1>5, <1>8, WakeQuiet, StirWake
<1>10. Stir(e, h) /\ c.wake_targets \subseteq h.wake_targets
  BY <1>6, <1>9, StirTwice
<1>11. Waits(h)
  BY <1>7, <1>9, <1>10, WaitsFrame DEF SameCopy
<1> QED BY <1>5, <1>8, <1>9, <1>10, <1>11

\* A line that is taken is not overlooked.
LEMMA TakeTook ==
  ASSUME NEW e, HasFields(e), ~e.took, peek_1d(e) # None
  PROVE  /\ take_request(e).took = TRUE
         /\ peek_1d(e).length = 0 => bypass(e).took = TRUE
<1>1. PICK t, r, c, v :
        /\ t = [take_1d(e) EXCEPT !.took = TRUE] /\ r = peek_1d(e)
        /\ c = complete_1d(t, r, TRUE)
        /\ v = [t EXCEPT !.req = r, !.r_left = r.length, !.w_left = r.length]
  OBVIOUS
<1>2. HasFields(t) /\ t.took = TRUE
  BY <1>1 DEF take_1d, enqueue, HasFields
<1>3. c.took = TRUE /\ v.took = TRUE
  BY <1>1, <1>2 DEF complete_1d, enqueue, HasFields
<1>4. take_request(e) \in {c, v} /\ (r.length = 0 => bypass(e) = c)
  BY <1>1 DEF take_request, bypass
<1> QED BY <1>1, <1>3, <1>4

\* A burst that is cut leaves less to cut.
LEMMA CutLess ==
  ASSUME NEW e, Ports(e), CopyInv(e), NEW answer
  PROVE  /\ cut(e, answer).took = e.took
         /\ r_go(e) => cut(e, answer).r_left # e.r_left
         /\ w_go(e) => cut(e, answer).w_left # e.w_left
         /\ ~r_go(e) /\ ~w_go(e) => cut(e, answer) = e
<1>1. HasFields(e)
  BY DEF Ports
<1>2. PICK m, g, c : /\ m = coupled_to(e, w_burst(e)) /\ c = cut(e, answer)
                     /\ g = IF r_go(e) THEN read_split(e, answer) ELSE e
  OBVIOUS
<1>3. /\ HasFields(g) /\ g.took = e.took /\ g.w_left = e.w_left
      /\ r_go(e) => g.r_left # e.r_left
  <2>1. CASE r_go(e)
    <3>1. PICK k, s, f : /\ k = coupled_to(e, r_burst(e)) /\ f = issue_ar(e, k, answer)
                         /\ g = [f EXCEPT !.r_fifo = push(@, s, 0), !.r_left = @ - k]
      BY <1>2, <2>1 DEF read_split
    <3>2. HasFields(f) /\ f.took = e.took /\ f.w_left = e.w_left /\ f.r_left = e.r_left
      BY <1>1, <3>1 DEF issue_ar, HasFields
    <3>3. /\ HasFields(g) /\ g.took = e.took /\ g.w_left = e.w_left
          /\ g.r_left = e.r_left - k
      BY <3>1, <3>2 DEF HasFields
    <3>4. PICK x \in Nat : x = e.r_left
      BY CopyNumbers
    <3>5. k \in 1 .. x
      BY <2>1, <3>1, <3>4, CutSize
    <3>6. x - k # x
      BY <3>5
    <3> QED BY <3>3, <3>4, <3>6
  <2>2. CASE ~r_go(e)
    BY <1>1, <1>2, <2>2
  <2> QED BY <2>1, <2>2
<1>4. CASE w_go(e)
  <2>1. PICK s, t, f :
          /\ f = issue_aw(g, g.req.decouple_aw)
          /\ c = [f EXCEPT !.w_fifo = push(@, s, 0), !.wlast = push(@, t, 0),
                           !.w_left = @ - m]
    BY <1>2, <1>4 DEF cut, write_split
  <2>2. HasFields(f) /\ f.took = g.took /\ f.w_left = g.w_left /\ f.r_left = g.r_left
    BY <1>3, <2>1 DEF issue_aw, HasFields
  <2>3. c.took = e.took /\ c.r_left = g.r_left /\ c.w_left = e.w_left - m
    BY <1>3, <2>1, <2>2 DEF HasFields
  <2>4. PICK x \in Nat : x = e.w_left
    BY CopyNumbers
  <2>5. m \in 1 .. x
    BY <1>2, <1>4, <2>4, CutSize
  <2>6. x - m # x
    BY <2>5
  <2> QED BY <1>2, <1>3, <1>4, <2>3, <2>4, <2>6
<1>5. CASE ~w_go(e)
  <2>1. c = g
    BY <1>2, <1>5 DEF cut
  <2> QED BY <1>2, <1>3, <1>5, <2>1
<1> QED BY <1>4, <1>5

\* A tick that does nothing had nothing to do.
LEMMA StepStuck ==
  ASSUME NEW e, DataInv(e), NEW answer, NEW w_answer, step(e, answer) = e,
         write_tick(e, w_answer) = e, ~(e.held_resp /\ read_beat_can_accept(e))
  PROVE  Stuck(e)
<1>1. HasFields(e) /\ Ports(e) /\ CopyInv(e)
  BY DEF DataInv, Ports
<1>2. ~write_can_tick(e)
  <2>1. SUFFICES ASSUME write_can_tick(e) PROVE FALSE
    OBVIOUS
  <2>2. PICK v, f, x, is_last :
          /\ v.buffer = Tail(e.buffer) /\ HasFields(v) /\ f = wake(v, 1)
          /\ x = [f EXCEPT !.data_queue = IF is_last THEN Tail(@) ELSE @]
          /\ write_tick(e, w_answer) = send_beat(x, is_last, w_answer)
    <3>1. PICK v : v.buffer = Tail(e.buffer) /\ HasFields(v) /\ write_beat_take(e) = wake(v, 1)
      <4> DEFINE last == e.w_beat_idx + 1 = head(e.w_fifo).beats
                 word == [nr |-> head(e.w_fifo).req.nr, line |-> head(e.w_fifo).req.line,
                          word |-> head(e.w_fifo).first + e.w_beat_idx]
                 v == [buffer_pop(e) EXCEPT
                         !.written = Append(@, [data |-> Head(e.buffer), at |-> word]),
                         !.w_beat_idx = IF last THEN 0 ELSE @ + 1,
                         !.w_fifo = IF last THEN pop(@) ELSE @]
      <4>1. write_beat_take(e) = wake(v, 1)
        BY DEF write_beat_take
      <4> HIDE DEF last, word
      <4>2. v.buffer = Tail(e.buffer) /\ HasFields(v)
        BY <1>1 DEF buffer_pop, HasFields
      <4> HIDE DEF v
      <4> QED BY <4>1, <4>2
    <3>2. PICK f, is_last, x :
            /\ f = wake(v, 1) /\ is_last = (e.w_beat_idx + 1 = head(e.w_fifo).beats)
            /\ x = [f EXCEPT !.data_queue = IF is_last THEN Tail(@) ELSE @]
      OBVIOUS
    <3>3. write_tick(e, w_answer) = send_beat(x, is_last, w_answer)
      BY <2>1, <3>1, <3>2 DEF write_tick
    <3> QED BY <3>1, <3>2, <3>3
  <2>3. HasFields(f) /\ f.buffer = Tail(e.buffer)
    BY <2>2, WakeQuiet DEF SamePorts, SameCopy
  <2>4. HasFields(x) /\ x.buffer = Tail(e.buffer)
    BY <2>2, <2>3 DEF HasFields
  <2>5. write_tick(e, w_answer).buffer = Tail(e.buffer)
    <3>1. SameCopy(x, send_beat(x, is_last, w_answer))
      BY <2>4, SendQuiet
    <3> QED BY <2>2, <2>4, <3>1 DEF SameCopy
  <2>6. e.buffer \in Seq(Words) /\ e.buffer # <<>>
    <3>1. e.buffer \in Seq(Words) /\ Len(e.buffer) \in Nat
      BY <1>1, CopyNumbers DEF CopyInv, Buffered
    <3>2. PICK n \in Nat, k \in {0, 1} :
              n = Len(e.buffer) /\ k = (IF e.pushed THEN 1 ELSE 0)
      BY <3>1
    <3>3. n - k > 0
      BY <2>1, <3>2 DEF write_can_tick, write_beat_ready, buffer_can_pop
    <3>4. n # 0
      BY <3>3
    <3> QED BY <3>1, <3>2, <3>4, EmptySeq
  <2>7. PICK n \in Nat : n = Len(e.buffer) /\ Len(Tail(e.buffer)) = n - 1
    BY <2>6, TailOf
  <2>8. Tail(e.buffer) = e.buffer
    BY <2>5
  <2>9. n = n - 1
    BY <2>7, <2>8
  <2> QED BY <2>9
<1>3. CASE all_cut(e)
  <2>1. step(e, answer) = take_request(e)
    BY <1>3 DEF step
  <2>2. e.took \/ peek_1d(e) = None
    BY <1>1, <2>1, TakeTook
  <2> QED BY <1>2, <1>3, <2>2 DEF Stuck
<1>4. CASE ~all_cut(e)
  <2>1. PICK b, c, f : b = bypass(e) /\ c = cut(b, answer) /\ f = [c EXCEPT !.req = None]
    OBVIOUS
  <2>2. CopyInv(b) /\ Ports(b)
    <3>1. CopyInv(b) /\ SamePorts(e, b)
      BY <1>1, <2>1, BypassCopy
    <3> QED BY <1>1, <3>1 DEF Ports, SamePorts
  <2>3. HasFields(c)
    <3>1. SamePorts(b, c)
      BY <2>1, <2>2, CutCopy
    <3> QED BY <3>1 DEF SamePorts
  <2>4. HasFields(f) /\ f.took = c.took /\ f.r_left = c.r_left /\ f.w_left = c.w_left
    BY <2>1, <2>3 DEF HasFields
  <2>5. e = c \/ e = take_request(f)
    BY <1>4, <2>1 DEF step
  <2>6. take_request(f) = f \/ (~f.took /\ take_request(f).took = TRUE)
    <3>1. CASE f.took \/ peek_1d(f) = None
      BY <3>1 DEF take_request
    <3>2. CASE ~f.took /\ peek_1d(f) # None
      BY <2>4, <3>2, TakeTook
    <3> QED BY <3>1, <3>2
  <2>7. c.took = b.took
    BY <2>1, <2>2, CutLess
  <2>8. e.took \/ peek_1d(e) = None \/ peek_1d(e).length # 0
    <3>1. SUFFICES ASSUME ~e.took, peek_1d(e) # None, peek_1d(e).length = 0 PROVE FALSE
      OBVIOUS
    <3>2. b.took = TRUE
      BY <1>1, <2>1, <3>1, TakeTook
    <3> QED BY <2>4, <2>5, <2>6, <2>7, <3>1, <3>2
  <2>9. b = e
    BY <2>1, <2>8 DEF bypass
  <2>10. e = c \/ e = f
    BY <2>4, <2>5, <2>6, <2>7, <2>9
  <2>11. c.r_left = e.r_left /\ c.w_left = e.w_left
    BY <2>4, <2>10
  <2>12. ~r_go(e) /\ ~w_go(e)
    BY <1>1, <2>1, <2>9, <2>11, CutLess
  <2> QED BY <1>2, <1>4, <2>8, <2>12 DEF Stuck
<1> QED BY <1>3, <1>4

\* And one that has nothing to do does nothing.
LEMMA StuckStep ==
  ASSUME NEW e, DataInv(e), Stuck(e), NEW answer
  PROVE  step(e, answer) = e
<1>1. CASE all_cut(e)
  BY <1>1 DEF Stuck, step, take_request
<1>2. CASE ~all_cut(e)
  <2>1. bypass(e) = e
    BY <1>2 DEF Stuck, bypass
  <2>2. cut(e, answer) = e
    BY <1>2, CutLess DEF Stuck, DataInv
  <2> QED BY <1>2, <2>1, <2>2 DEF step
<1> QED BY <1>1, <1>2

\* Whether there is something to do is told by the queues and the bus.
SameWork(a, b) ==
    /\ b.line = a.line /\ b.queue = a.queue /\ b.r_fifo = a.r_fifo /\ b.w_fifo = a.w_fifo
    /\ Len(b.wlast.queue) = Len(a.wlast.queue) /\ b.wlast.popped = a.wlast.popped
    /\ b.req = a.req /\ b.r_left = a.r_left /\ b.w_left = a.w_left
    /\ b.held_ar = a.held_ar /\ b.reads = a.reads /\ b.data_queue = a.data_queue
    /\ b.acks = a.acks /\ b.held_beat = a.held_beat /\ b.held_resp = a.held_resp
    /\ b.buffer = a.buffer
SameFlags(a, b) == (b.took <=> a.took) /\ (b.pushed <=> a.pushed)

\* The same queues and the same bus, the same work.
LEMMA StuckFrame ==
  ASSUME NEW a, NEW b, SameWork(a, b), SameFlags(a, b), Stuck(a)
  PROVE  Stuck(b)
<1>1. (all_cut(b) <=> all_cut(a)) /\ peek_1d(b) = peek_1d(a)
  BY DEF SameWork, all_cut, peek_1d
<1>2. ar_ready(b) <=> ar_ready(a)
  BY DEF SameWork, ar_ready, read_ctxs
<1>3. aw_ready(b) <=> aw_ready(a)
  BY DEF SameWork, aw_ready, write_ctxs, aw_waiting
<1>4. (r_ready(b) <=> r_ready(a)) /\ (w_ready(b) <=> w_ready(a))
  BY <1>2, <1>3 DEF SameWork, r_ready, w_ready, can_push
<1>5. (r_go(b) <=> r_go(a)) /\ (w_go(b) <=> w_go(a))
  BY <1>4 DEF SameWork, r_go, w_go
<1>6. write_can_tick(b) <=> write_can_tick(a)
  <2>1. buffer_can_pop(b) <=> buffer_can_pop(a)
    BY DEF SameWork, SameFlags, buffer_can_pop
  <2>2. write_beat_ready(b) <=> write_beat_ready(a)
    BY <2>1 DEF SameWork, write_beat_ready
  <2> QED BY <2>2 DEF SameWork, write_can_tick
<1>7. read_beat_can_accept(b) <=> read_beat_can_accept(a)
  BY DEF SameWork, SameFlags, read_beat_can_accept, buffer_can_push
<1> QED BY <1>1, <1>5, <1>6, <1>7 DEF Stuck, SameWork, SameFlags

\* A cycle does not change a queue in which nothing waits.
LEMMA ClockStill ==
  ASSUME NEW E, NEW f \in FifoType(E), f.popped = 0,
         \A i \in 1 .. Len(f.queue) : f.queue[i].wait = 0
  PROVE  clocked(f) = f
<1>1. PICK n \in Nat, S \in {[entry : E, wait : Nat]}, q \in {f.queue} :
        /\ S = [entry : E, wait : Nat] /\ q = f.queue
        /\ q \in [1 .. n -> S] /\ n = Len(q)
  <2>1. PICK S, q : S = [entry : E, wait : Nat] /\ q = f.queue
    OBVIOUS
  <2>2. q \in Seq(S)
    BY <2>1 DEF FifoType
  <2>3. PICK n \in Nat : q \in [1 .. n -> S]
    BY <2>2, SeqDef
  <2>4. DOMAIN q = 1 .. n
    BY <2>3
  <2>5. Len(q) = n
    BY <2>2, <2>3, <2>4, LenProperties
  <2> QED BY <2>1, <2>3, <2>5
<1>2. f = [queue |-> q, popped |-> 0]
  BY <1>1 DEF FifoType
<1>3. ASSUME NEW i \in 1 .. n
      PROVE  [q[i] EXCEPT !.wait = IF @ = 0 THEN 0 ELSE @ - 1] = q[i]
  <2>1. PICK x \in S : x = q[i]
    BY <1>1
  <2>2. x.wait = 0
    BY <1>1, <2>1
  <2>3. [x EXCEPT !.wait = 0] = x
    BY <1>1, <2>1, <2>2
  <2> QED BY <2>1, <2>2, <2>3
<1>4. [i \in DOMAIN q |-> [q[i] EXCEPT !.wait = IF @ = 0 THEN 0 ELSE @ - 1]] = q
  <2>1. DOMAIN q = 1 .. n /\ q = [i \in 1 .. n |-> q[i]]
    BY <1>1
  <2> QED BY <1>3, <2>1
<1> QED BY <1>1, <1>2, <1>4 DEF clocked

\* What is left alone stays covered.
LEMMA WakeFrame ==
  ASSUME NEW a, NEW b, WakeInv(a), SameTimers(a, b), SameWork(a, b), SameFlags(a, b)
  PROVE  WakeInv(b)
<1>1. Timers(b) /\ Waits(b)
  BY DEF WakeInv, SameTimers, SameWork, Timers, Waits
<1>2. Unsettled(b) => Unsettled(a)
  BY DEF Unsettled, SameWork, SameFlags
<1>3. Stuck(a) => Stuck(b)
  BY StuckFrame
<1> QED BY <1>1, <1>2, <1>3 DEF WakeInv, SameTimers

\* A step that asks for the next cycle may change what it likes of the work.
LEMMA StirWakes ==
  ASSUME NEW a, NEW b, Timers(a), Stir(a, b), 1 \in b.wake_targets, Waits(b)
  PROVE  WakeInv(b)
BY StirTimers DEF WakeInv

\* Without a tick, the next cycle brings nothing to do.
LEMMA NextStuck ==
  ASSUME NEW e, DataInv(e), Owed(e, 0), WakeInv(e), e.tick = NoEvent
  PROVE  Stuck(next_cycle(e))
<1>1. e.wake_targets = {}
  BY DEF WakeInv, Timers
<1>2. ~Unsettled(e) /\ Stuck(e)
  BY <1>1 DEF WakeInv, NoEvent
<1>3. /\ e.queue \in FifoType(Entry) /\ e.r_fifo \in FifoType(Burst)
      /\ e.w_fifo \in FifoType(Burst) /\ e.wlast \in FifoType(Slot) /\ HasFields(e)
  BY DEF DataInv, CopyInv, Queued, Owed, Ports
<1>4. clocked(e.queue) = e.queue
  <2>1. \A i \in 1 .. Len(e.queue.queue) : e.queue.queue[i].wait = 0
    BY <1>1 DEF WakeInv, Waits, Remembered
  <2>2. e.queue.popped = 0
    BY <1>2 DEF Unsettled
  <2> QED BY <1>3, <2>1, <2>2, ClockStill
<1>5. clocked(e.r_fifo) = e.r_fifo /\ clocked(e.w_fifo) = e.w_fifo
  <2>1. /\ e.r_fifo.popped = 0
        /\ \A i \in 1 .. Len(e.r_fifo.queue) : e.r_fifo.queue[i].wait = 0
    BY <1>2 DEF Unsettled
  <2>2. /\ e.w_fifo.popped = 0
        /\ \A i \in 1 .. Len(e.w_fifo.queue) : e.w_fifo.queue[i].wait = 0
    BY <1>2 DEF Unsettled
  <2>3. clocked(e.r_fifo) = e.r_fifo
    BY <1>3, <2>1, ClockStill
  <2>4. clocked(e.w_fifo) = e.w_fifo
    BY <1>3, <2>2, ClockStill
  <2> QED BY <2>3, <2>4
<1>6. Len(clocked(e.wlast).queue) = Len(e.wlast.queue) /\ clocked(e.wlast).popped = e.wlast.popped
  <2>1. e.wlast.popped = 0
    BY <1>2 DEF Unsettled
  <2> QED BY <1>3, <2>1, ClockFifo
<1>7. PICK n : n = next_cycle(e)
  OBVIOUS
<1>8. SameWork(e, n) /\ n.took = FALSE /\ n.pushed = FALSE
  BY <1>3, <1>4, <1>5, <1>6, <1>7 DEF next_cycle, HasFields, SameWork
<1>9. SameFlags(e, n)
  BY <1>2, <1>8 DEF Unsettled, SameFlags
<1> QED BY <1>2, <1>7, <1>8, <1>9, StuckFrame

\* A cycle brings the wake-ups nearer, and what waits for them.
LEMMA CycleWake ==
  ASSUME NEW e, DataInv(e), Owed(e, 0), WakeInv(e), e.tick # 0
  PROVE  WakeInv(next_cycle(e))
<1>1. /\ e.queue \in FifoType(Entry) /\ e.r_fifo \in FifoType(Burst)
      /\ e.w_fifo \in FifoType(Burst) /\ e.wlast \in FifoType(Slot) /\ HasFields(e)
  BY DEF DataInv, CopyInv, Queued, Owed, Ports
<1>2. PICK n, T, S, t :
        /\ n = next_cycle(e) /\ T = e.wake_targets /\ S = {u - 1 : u \in T} /\ t = e.tick
  OBVIOUS
<1>3. /\ n.tick = (IF t = NoEvent THEN NoEvent ELSE t - 1) /\ n.wake_targets = S
      /\ n.queue = clocked(e.queue) /\ n.r_fifo = clocked(e.r_fifo)
      /\ n.w_fifo = clocked(e.w_fifo) /\ n.wlast = clocked(e.wlast)
      /\ n.took = FALSE /\ n.pushed = FALSE
  BY <1>1, <1>2 DEF next_cycle, HasFields
<1>4. /\ t \in Nat \cup {NoEvent} /\ t # 0 /\ T \subseteq Nat
      /\ \A u \in T : t # NoEvent /\ t <= u
  BY <1>2 DEF WakeInv, Timers
<1>5. Timers(n)
  <2>1. n.tick \in Nat \cup {NoEvent} /\ (n.tick = NoEvent <=> t = NoEvent)
    BY <1>3, <1>4 DEF NoEvent
  <2>2. ASSUME NEW v \in S PROVE v \in Nat /\ n.tick # NoEvent /\ n.tick <= v
    <3>1. PICK u \in T : v = u - 1
      BY <1>2, <2>2
    <3>2. u \in Nat /\ t # NoEvent /\ t <= u /\ t \in Nat \ {0}
      BY <1>4
    <3>3. n.tick = t - 1
      BY <1>3, <3>2
    <3> QED BY <2>1, <3>1, <3>2, <3>3
  <2> QED BY <1>3, <2>1, <2>2 DEF Timers
<1>6. Remembered(n.queue.queue, S)
  <2>1. PICK q, r : q = e.queue.queue /\ r = n.queue.queue
    OBVIOUS
  <2>2. /\ Len(r) = Len(q)
        /\ \A i \in 1 .. Len(q) : r[i].wait = IF q[i].wait = 0 THEN 0 ELSE q[i].wait - 1
    BY <1>1, <1>3, <2>1, ClockFifo
  <2>3. ASSUME NEW i \in 1 .. Len(q) PROVE r[i].wait = 0 \/ r[i].wait \in S
    <3>1. PICK w : w = q[i].wait
      OBVIOUS
    <3>2. w = 0 \/ w \in T
      BY <1>2, <2>1, <3>1 DEF WakeInv, Waits, Remembered
    <3>3. w \in T => w - 1 \in S
      BY <1>2
    <3> QED BY <2>2, <3>1, <3>2, <3>3
  <2> QED BY <2>1, <2>2, <2>3 DEF Remembered
<1>7. ASSUME NEW f \in FifoType(Burst), Soon(f.queue)
      PROVE  \A i \in 1 .. Len(clocked(f).queue) : clocked(f).queue[i].wait = 0
  <2>1. PICK q, r : q = f.queue /\ r = clocked(f).queue
    OBVIOUS
  <2>2. /\ Len(r) = Len(q)
        /\ \A i \in 1 .. Len(q) : r[i].wait = IF q[i].wait = 0 THEN 0 ELSE q[i].wait - 1
    BY <2>1, ClockFifo
  <2>3. ASSUME NEW i \in 1 .. Len(q) PROVE r[i].wait = 0
    <3>1. PICK w \in 0 .. 1 : w = q[i].wait
      BY <1>7, <2>1 DEF Soon
    <3> QED BY <2>2, <3>1
  <2> QED BY <2>1, <2>2, <2>3
<1>8. /\ \A i \in 1 .. Len(n.r_fifo.queue) : n.r_fifo.queue[i].wait = 0
      /\ \A i \in 1 .. Len(n.w_fifo.queue) : n.w_fifo.queue[i].wait = 0
  BY <1>1, <1>3, <1>7 DEF WakeInv, Waits
<1>9. ~Unsettled(n)
  <2>1. /\ n.queue.popped = 0 /\ n.r_fifo.popped = 0 /\ n.w_fifo.popped = 0
        /\ n.wlast.popped = 0
    BY <1>3 DEF clocked
  <2> QED BY <1>3, <1>8, <2>1 DEF Unsettled
<1>10. Waits(n)
  <2>1. Soon(n.r_fifo.queue) /\ Soon(n.w_fifo.queue)
    BY <1>8 DEF Soon
  <2> QED BY <1>3, <1>6, <2>1 DEF Waits
<1>11. n.tick = NoEvent => Stuck(n)
  <2>1. n.tick = NoEvent => t = NoEvent
    BY <1>3, <1>4 DEF NoEvent
  <2> QED BY <1>2, <2>1, NextStuck
<1> QED BY <1>2, <1>5, <1>9, <1>10, <1>11 DEF WakeInv

\* A launch asks for the cycle in which its transfer is visible.
LEMMA LaunchWake ==
  ASSUME NEW e, DataInv(e), WakeInv(e), NEW p, NEW tr \in Transfers
  PROVE  WakeInv(launch(e, p, tr))
<1>1. HasFields(e) /\ e.queue \in FifoType(Entry)
  BY DEF DataInv, Ports, CopyInv, Queued
<1>2. CASE ~can_push(e.queue, req_fifo_depth)
  <2>1. PICK b : b = [e EXCEPT !.launch_pending[p] = tr]
    OBVIOUS
  <2>2. SameTimers(e, b) /\ SameWork(e, b) /\ SameFlags(e, b)
    BY <1>1, <2>1 DEF HasFields, SameTimers, SameWork, SameFlags
  <2>3. launch(e, p, tr) = b
    BY <1>2, <2>1 DEF launch
  <2> QED BY <2>2, <2>3, WakeFrame
<1>3. CASE can_push(e.queue, req_fifo_depth)
  <2>1. PICK w \in Nat : w = IF e.busy THEN 0 ELSE launch_bubble
    BY IdmaFrontAssumption
  <2>2. PICK x \in Entry : x = [nr |-> Len(e.launched) + 1, req |-> tr]
    <3>1. PICK k \in Nat : k = Len(e.launched)
      BY QueueFacts DEF DataInv, CopyInv
    <3>2. k + 1 \in Nat
      OBVIOUS
    <3>3. [nr |-> k + 1, req |-> tr] \in Entry
      BY <3>2 DEF Entry
    <3> QED BY <3>1, <3>3
  <2>3. PICK v, f, b :
          /\ v = [e EXCEPT !.next_id = next_identifier(@), !.queue = push(@, x, w),
                           !.launch_pending[p] = None, !.launched = Append(@, tr)]
          /\ f = wake(v, 1 + w) /\ b = [f EXCEPT !.busy = TRUE]
    OBVIOUS
  <2>4. launch(e, p, tr) = b
    BY <1>3, <2>1, <2>2, <2>3 DEF launch
  <2>5. PICK n \in Nat \ {0}, t \in Nat \cup {NoEvent}, q \in {push(e.queue, x, w)} :
          n = 1 + w /\ t = e.tick /\ q = push(e.queue, x, w)
    <3>1. 1 + w \in Nat \ {0} /\ e.tick \in Nat \cup {NoEvent}
      BY DEF WakeInv, Timers
    <3> QED BY <3>1
  <2>6. /\ HasFields(v) /\ v.tick = t /\ v.wake_targets = e.wake_targets
        /\ v.queue = q /\ v.r_fifo = e.r_fifo /\ v.w_fifo = e.w_fifo
        /\ v.wlast = e.wlast /\ v.took = e.took /\ v.pushed = e.pushed
    BY <1>1, <2>3, <2>5 DEF HasFields
  <2>7. /\ b.tick = (IF t = NoEvent \/ n < t THEN n ELSE t)
        /\ b.wake_targets = e.wake_targets \cup {n}
        /\ b.queue = q /\ b.r_fifo = e.r_fifo /\ b.w_fifo = e.w_fifo
        /\ b.wlast = e.wlast /\ b.took = e.took /\ b.pushed = e.pushed
    <3>1. f = wake(v, n)
      BY <2>3, <2>5, Zenon
    <3>2. /\ HasFields(f) /\ f.tick = (IF t = NoEvent \/ n < t THEN n ELSE t)
          /\ f.wake_targets = v.wake_targets \cup {n}
          /\ f.queue = v.queue /\ f.r_fifo = v.r_fifo /\ f.w_fifo = v.w_fifo
          /\ f.wlast = v.wlast /\ f.took = v.took /\ f.pushed = v.pushed
      BY <2>6, <3>1 DEF wake, enqueue, HasFields
    <3>3. /\ b.tick = f.tick /\ b.wake_targets = f.wake_targets
          /\ b.queue = f.queue /\ b.r_fifo = f.r_fifo /\ b.w_fifo = f.w_fifo
          /\ b.wlast = f.wlast /\ b.took = f.took /\ b.pushed = f.pushed
      BY <2>3, <3>2 DEF HasFields
    <3> QED BY <2>6, <3>2, <3>3, Zenon
  <2>8. /\ Len(q.queue) = Len(e.queue.queue) + 1 /\ q.popped = e.queue.popped
        /\ \A i \in 1 .. Len(e.queue.queue) : q.queue[i] = e.queue.queue[i]
        /\ q.queue[Len(e.queue.queue) + 1].wait = n
    BY <1>1, <2>5, PushFifo
  <2>9. Timers(b) /\ b.tick # NoEvent
    <3>1. /\ b.tick \in Nat /\ b.tick <= n /\ (t # NoEvent => b.tick <= t)
      BY <2>5, <2>7 DEF NoEvent
    <3>2. ASSUME NEW u \in b.wake_targets PROVE u \in Nat /\ b.tick <= u
      <4>1. CASE u = n
        BY <2>5, <3>1, <4>1
      <4>2. CASE u \in e.wake_targets
        <5>1. u \in Nat /\ t # NoEvent /\ t <= u
          BY <2>5, <4>2 DEF WakeInv, Timers
        <5> QED BY <2>5, <3>1, <5>1 DEF NoEvent
      <4> QED BY <2>7, <4>1, <4>2
    <3> QED BY <3>1, <3>2 DEF Timers, NoEvent
  <2>10. Waits(b)
    <3>1. PICK k \in Nat : k = Len(e.queue.queue)
      BY <1>1, FifoLen
    <3>2. ASSUME NEW i \in 1 .. k + 1
          PROVE  q.queue[i].wait = 0 \/ q.queue[i].wait \in b.wake_targets
      <4>1. CASE i = k + 1
        BY <2>7, <2>8, <3>1, <4>1
      <4>2. CASE i # k + 1
        <5>1. i \in 1 .. k
          BY <4>2
        <5> QED BY <2>7, <2>8, <3>1, <5>1 DEF WakeInv, Waits, Remembered
      <4> QED BY <4>1, <4>2
    <3>3. Remembered(b.queue.queue, b.wake_targets)
      BY <2>7, <2>8, <3>1, <3>2 DEF Remembered
    <3> QED BY <2>7, <3>3 DEF WakeInv, Waits
  <2>11. Unsettled(b) => b.tick = 1 \/ 1 \in b.wake_targets
    <3>1. Unsettled(b) => Unsettled(e)
      BY <2>7, <2>8 DEF Unsettled
    <3>2. t = 1 => b.tick = 1
      BY <2>5, <2>7 DEF NoEvent
    <3> QED BY <2>5, <2>7, <3>1, <3>2 DEF WakeInv
  <2> QED BY <2>4, <2>9, <2>10, <2>11 DEF WakeInv
<1> QED BY <1>2, <1>3

\* So does a retry.
LEMMA RetryWake ==
  ASSUME NEW x, DataInv(x), WakeInv(x)
  PROVE  WakeInv(retry_port(x))
<1>1. Ports(x) /\ HasFields(x)
  BY DEF DataInv, Ports
<1>2. PICK f : f = [x EXCEPT !.rr_port = (x.rr_port + 1) % NbPorts]
  OBVIOUS
<1>3. /\ \/ retry_port(x) = x
         \/ retry_port(x) = f
         \/ /\ x.launch_pending[x.rr_port] \in Transfers
            /\ retry_port(x) = launch(f, x.rr_port, x.launch_pending[x.rr_port])
      /\ SameCopy(x, f) /\ SameCut(x, f) /\ Ports(f)
  BY <1>1, <1>2, RetryIs
<1>4. DataInv(f)
  BY <1>3, CopyFrame, TidyFrame DEF DataInv, Ports, SamePorts, CopyInv, SameCopy
<1>5. WakeInv(f)
  <2>1. SameTimers(x, f) /\ SameWork(x, f) /\ SameFlags(x, f)
    BY <1>1, <1>2 DEF HasFields, SameTimers, SameWork, SameFlags
  <2> QED BY <2>1, WakeFrame
<1> QED BY <1>3, <1>4, <1>5, LaunchWake

\* The end of a tick covers the cycles that are remembered, and the next one
\* after a tick that did something.
LEMMA RearmTimers ==
  ASSUME NEW e, HasFields(e), e.tick \in (Nat \ {0}) \cup {NoEvent},
         e.wake_targets \subseteq Nat \ {0}, NEW active \in BOOLEAN
  PROVE  /\ Timers(rearm(e, active)) /\ SameCopy(e, rearm(e, active))
         /\ rearm(e, active).wake_targets = e.wake_targets
         /\ active => rearm(e, active).tick = 1
         /\ rearm(e, active).tick = NoEvent => ~active /\ rearm(e, active) = e
<1>1. PICK f, b : /\ f = (IF active THEN enqueue(e, "tick", 1) ELSE e)
                  /\ b = rearm(e, active)
  OBVIOUS
<1>2. PICK t \in (Nat \ {0}) \cup {NoEvent}, T \in {e.wake_targets} : t = e.tick /\ T = e.wake_targets
  OBVIOUS
<1>3. /\ HasFields(f) /\ f.wake_targets = T
      /\ f.tick = (IF active /\ (t = NoEvent \/ 1 < t) THEN 1 ELSE t)
  BY <1>1, <1>2 DEF enqueue, HasFields
<1>4. PICK u : u = f.tick
  OBVIOUS
<1>5. u \in (Nat \ {0}) \cup {NoEvent} /\ (active => u = 1)
  BY <1>3, <1>4 DEF NoEvent
<1>6. SameCopy(e, b)
  BY <1>1, RearmQuiet
<1>7. CASE T = {}
  <2>1. b = f
    BY <1>1, <1>3, <1>7 DEF rearm
  <2>2. Timers(b)
    BY <1>3, <1>4, <1>5, <1>7, <2>1 DEF Timers
  <2>3. b.tick = NoEvent => ~active /\ b = e
    BY <1>1, <1>4, <1>5, <2>1 DEF NoEvent
  <2> QED BY <1>1, <1>2, <1>3, <1>4, <1>5, <1>6, <2>1, <2>2, <2>3
<1>8. CASE T # {}
  <2>1. PICK m \in Nat \ {0} : m = Min(T) /\ \A j \in T : m <= j
    <3>1. T \in SUBSET Nat
      BY <1>2
    <3>2. Min(T) \in T /\ \A j \in T : Min(T) <= j
      BY <1>8, <3>1, MinNat
    <3> QED BY <1>2, <3>2
  <2>2. b = enqueue(f, "tick", m)
    BY <1>1, <1>3, <1>8, <2>1 DEF rearm
  <2>3. /\ b.tick = (IF u = NoEvent \/ m < u THEN m ELSE u) /\ b.wake_targets = T
    BY <1>3, <1>4, <2>2 DEF enqueue, HasFields
  <2>4. PICK v \in Nat \ {0} : v = b.tick /\ v <= m /\ (active => v = 1)
    BY <1>5, <2>1, <2>3 DEF NoEvent
  <2>5. ASSUME NEW j \in T PROVE j \in Nat /\ v <= j
    <3>1. j \in Nat /\ m <= j
      BY <1>2, <2>1
    <3> QED BY <2>1, <2>4, <3>1
  <2>6. Timers(b) /\ b.tick # NoEvent
    BY <1>2, <2>3, <2>4, <2>5 DEF Timers, NoEvent
  <2> QED BY <1>1, <1>2, <1>6, <2>3, <2>4, <2>6
<1> QED BY <1>7, <1>8

\* A tick leaves the next one behind, unless there is nothing for it to do.
LEMMA TickWake ==
  ASSUME DataInv(d), WakeInv(d), NEW ar_answer, NEW w_answer, Tick(ar_answer, w_answer)
  PROVE  WakeInv(d')
<1>0. PICK d0, d1, d2, d3 :
        /\ d0 = [d EXCEPT !.tick = NoEvent, !.wake_targets = @ \ {0}]
        /\ d1 = step(d0, ar_answer) /\ d2 = write_tick(d1, w_answer)
        /\ d3 = retry_held_beat(d2) /\ d' = rearm(d3, d1 # d0 \/ d2 # d1)
  BY DEF Tick
<1>1. HasFields(d) /\ Timers(d) /\ Waits(d)
  BY DEF DataInv, Ports, WakeInv
<1>2. /\ HasFields(d0) /\ d0.tick = NoEvent /\ d0.wake_targets = d.wake_targets \ {0}
      /\ SameCopy(d, d0) /\ SamePorts(d, d0) /\ SameWork(d, d0) /\ SameFlags(d, d0)
  BY <1>0, <1>1 DEF HasFields, SameCopy, SamePorts, SameWork, SameFlags
<1>3. DataInv(d0)
  BY <1>2, DataFrame
<1>4. Waits(d0)
  BY <1>1, <1>2 DEF Waits, Remembered, SameCopy
<1>5. DataInv(d1) /\ HasFields(d1)
  <2>1. CopyInv(d1) /\ SamePorts(d0, d1) /\ Tidy(d1)
    BY <1>0, <1>3, StepCopy DEF DataInv
  <2> QED BY <1>3, <2>1 DEF DataInv, Ports, SamePorts
<1>6. Waits(d1) /\ SameTimers(d0, d1)
  BY <1>0, <1>3, <1>4, StepWaits
<1>7. CopyInv(d2) /\ HasFields(d2)
  <2>1. CopyInv(d2) /\ SamePorts(d1, d2)
    BY <1>0, <1>5, WriteTickCopy DEF DataInv
  <2> QED BY <2>1 DEF SamePorts
<1>8. Waits(d2) /\ Stir(d1, d2)
  <2>1. d1.w_fifo \in FifoType(Burst)
    BY <1>5 DEF DataInv, CopyInv
  <2> QED BY <1>0, <1>5, <1>6, <2>1, WriteTickWaits
<1>9. /\ HasFields(d3) /\ Waits(d3) /\ Stir(d2, d3)
      /\ \/ d3 = d2 /\ ~(d2.held_resp /\ read_beat_can_accept(d2))
         \/ 1 \in d3.wake_targets
  <2>1. CASE d2.held_resp /\ read_beat_can_accept(d2)
    <3>1. PICK f : f = [d2 EXCEPT !.held_resp = FALSE]
      OBVIOUS
    <3>2. /\ HasFields(f) /\ f.queue = d2.queue /\ f.r_fifo = d2.r_fifo
          /\ f.w_fifo = d2.w_fifo /\ f.pushed = d2.pushed /\ f.buffer = d2.buffer
          /\ SameTimers(d2, f)
      BY <1>7, <3>1 DEF HasFields, SameTimers
    <3>3. Waits(f)
      BY <1>8, <3>2, WaitsFrame DEF SameTimers
    <3>4. read_beat_can_accept(f) /\ f.r_fifo \in FifoType(Burst)
      BY <1>7, <2>1, <3>2 DEF read_beat_can_accept, buffer_can_push, CopyInv
    <3>5. d3 = read_beat_accept(f)
      BY <1>0, <2>1, <3>1 DEF retry_held_beat
    <3>6. Waits(d3) /\ Stir(f, d3) /\ 1 \in d3.wake_targets
      BY <3>2, <3>3, <3>4, <3>5, ReadTakeWaits
    <3>7. Stir(d2, d3)
      BY <3>2, <3>6, StirTwice DEF Stir
    <3>8. HasFields(d3)
      <4>1. SameSlots(f, d3)
        BY <3>2, <3>5, ReadSlots
      <4> QED BY <4>1 DEF SameSlots
    <3> QED BY <3>6, <3>7, <3>8
  <2>2. CASE ~(d2.held_resp /\ read_beat_can_accept(d2))
    <3>1. d3 = d2
      BY <1>0, <2>2 DEF retry_held_beat
    <3> QED BY <1>7, <1>8, <2>2, <3>1 DEF Stir, SameTimers
  <2> QED BY <2>1, <2>2
<1>10. Stir(d0, d3)
  <2>1. Stir(d0, d2)
    <3>1. Stir(d0, d1)
      BY <1>6 DEF Stir
    <3> QED BY <1>8, <3>1, StirTwice
  <2> QED BY <1>9, <2>1, StirTwice
<1>11. d3.tick \in (Nat \ {0}) \cup {NoEvent} /\ d3.wake_targets \subseteq Nat \ {0}
  BY <1>1, <1>2, <1>10 DEF Stir, SameTimers, Sooner, Timers
<1>12. PICK active \in BOOLEAN : active = (d1 # d0 \/ d2 # d1)
  OBVIOUS
<1>13. PICK b :
       /\ b = rearm(d3, active)
       /\ Timers(b) /\ SameCopy(d3, b) /\ b.wake_targets = d3.wake_targets
       /\ active => b.tick = 1
       /\ b.tick = NoEvent => ~active /\ b = d3
  BY <1>9, <1>11, <1>12, RearmTimers
<1>14. Waits(b)
  BY <1>9, <1>13, WaitsFrame DEF SameCopy
<1>15. ASSUME active \/ 1 \in d3.wake_targets PROVE WakeInv(b)
  <2>1. b.tick = 1 \/ 1 \in b.wake_targets
    BY <1>13, <1>15
  <2>2. b.tick # NoEvent
    BY <1>13, <2>1 DEF Timers, NoEvent
  <2> QED BY <1>13, <1>14, <2>1, <2>2 DEF WakeInv
<1>16. ASSUME ~active, 1 \notin d3.wake_targets PROVE WakeInv(b)
  <2>1. d1 = d0 /\ d2 = d0 /\ d3 = d0 /\ ~(d0.held_resp /\ read_beat_can_accept(d0))
    BY <1>9, <1>12, <1>16
  <2>2. Stuck(d0)
    <3>1. step(d0, ar_answer) = d0 /\ write_tick(d0, w_answer) = d0
      BY <1>0, <2>1
    <3> QED BY <1>3, <2>1, <3>1, StepStuck
  <2>3. ~Unsettled(d)
    <3>1. 1 \notin d0.wake_targets
      BY <1>16, <2>1
    <3>2. 1 \notin d.wake_targets
      BY <1>2, <3>1
    <3>3. d.tick # 1
      BY DEF Tick
    <3> QED BY <3>2, <3>3 DEF WakeInv
  <2>4. ~Unsettled(d0)
    BY <1>2, <2>3 DEF Unsettled, SameWork, SameFlags
  <2>5. SameWork(d0, b) /\ SameFlags(d0, b)
    <3>1. b = d0 \/ b = enqueue(d0, "tick", Min(d0.wake_targets))
      BY <1>13, <1>16, <2>1 DEF rearm
    <3>2. PICK m : m = Min(d0.wake_targets)
      OBVIOUS
    <3>3. SameWork(d0, enqueue(d0, "tick", m)) /\ SameFlags(d0, enqueue(d0, "tick", m))
      BY <1>2 DEF enqueue, HasFields, SameWork, SameFlags
    <3>4. SameWork(d0, d0) /\ SameFlags(d0, d0)
      BY DEF SameWork, SameFlags
    <3> QED BY <3>1, <3>2, <3>3, <3>4
  <2>6. ~Unsettled(b)
    BY <2>4, <2>5 DEF Unsettled, SameWork, SameFlags
  <2>7. Stuck(b)
    BY <2>2, <2>5, StuckFrame
  <2> QED BY <1>13, <1>14, <2>6, <2>7 DEF WakeInv
<1>17. WakeInv(b)
  BY <1>15, <1>16
<1> QED BY <1>0, <1>12, <1>13, <1>17

\* The answers of the bus ask for the next cycle.
LEMMA BusWake ==
  ASSUME NEW e, DataInv(e), WakeInv(e), NEW answer
  PROVE  /\ WakeInv(wake([e EXCEPT !.reads = Append(@, e.held_ar), !.held_ar = 0], 1))
         /\ WakeInv(resp_meth(e))
         /\ WakeInv(wake(send_beat([e EXCEPT !.held_beat = "none"],
                                   e.held_beat = "last", answer), 1))
         /\ WakeInv(write_burst_done([e EXCEPT !.acks = @ - 1]))
         /\ WakeInv(done_handler([e EXCEPT !.done = NoEvent]))
<1>1. HasFields(e) /\ Timers(e) /\ Waits(e) /\ CopyInv(e)
  BY DEF DataInv, Ports, WakeInv
<1>2. ASSUME NEW v, HasFields(v), Stir(e, v), v.queue = e.queue, v.r_fifo = e.r_fifo,
             v.w_fifo = e.w_fifo
      PROVE  WakeInv(wake(v, 1))
  <2>1. PICK b : b = wake(v, 1)
    OBVIOUS
  <2>2. SameCopy(v, b) /\ Stir(v, b) /\ 1 \in b.wake_targets
    BY <1>2, <2>1, WakeQuiet, StirWake
  <2>3. Stir(e, b) /\ e.wake_targets \subseteq b.wake_targets
    BY <1>2, <2>2, StirTwice
  <2>4. Waits(b)
    BY <1>1, <1>2, <2>2, <2>3, WaitsFrame DEF SameCopy
  <2> QED BY <1>1, <2>1, <2>2, <2>3, <2>4, StirWakes
<1>3. WakeInv(wake([e EXCEPT !.reads = Append(@, e.held_ar), !.held_ar = 0], 1))
  <2>1. PICK v : v = [e EXCEPT !.reads = Append(@, e.held_ar), !.held_ar = 0]
    OBVIOUS
  <2>2. /\ HasFields(v) /\ Stir(e, v) /\ v.queue = e.queue /\ v.r_fifo = e.r_fifo
        /\ v.w_fifo = e.w_fifo
    BY <1>1, <2>1 DEF HasFields, Stir, SameTimers
  <2> QED BY <1>2, <2>1, <2>2
<1>4. WakeInv(resp_meth(e))
  <2>1. CASE read_beat_can_accept(e)
    <3>1. e.r_fifo \in FifoType(Burst)
      BY <1>1 DEF CopyInv
    <3>2. PICK b : b = read_beat_accept(e)
      OBVIOUS
    <3>3. Waits(b) /\ Stir(e, b) /\ 1 \in b.wake_targets
      BY <1>1, <2>1, <3>1, <3>2, ReadTakeWaits
    <3>4. WakeInv(b)
      BY <1>1, <3>3, StirWakes
    <3> QED BY <2>1, <3>2, <3>4 DEF resp_meth
  <2>2. CASE ~read_beat_can_accept(e)
    <3>1. PICK v : v = [e EXCEPT !.held_resp = TRUE]
      OBVIOUS
    <3>2. /\ HasFields(v) /\ Stir(e, v) /\ v.queue = e.queue /\ v.r_fifo = e.r_fifo
          /\ v.w_fifo = e.w_fifo
      BY <1>1, <3>1 DEF HasFields, Stir, SameTimers
    <3>3. resp_meth(e) = wake(v, 1)
      BY <2>2, <3>1 DEF resp_meth
    <3> QED BY <1>2, <3>2, <3>3
  <2> QED BY <2>1, <2>2
<1>5. WakeInv(wake(send_beat([e EXCEPT !.held_beat = "none"],
                             e.held_beat = "last", answer), 1))
  <2>1. PICK f, last, v : /\ f = [e EXCEPT !.held_beat = "none"]
                          /\ last = (e.held_beat = "last") /\ v = send_beat(f, last, answer)
    OBVIOUS
  <2>2. /\ HasFields(f) /\ Stir(e, f) /\ f.queue = e.queue /\ f.r_fifo = e.r_fifo
        /\ f.w_fifo = e.w_fifo
    BY <1>1, <2>1 DEF HasFields, Stir, SameTimers
  <2>3. SameCopy(f, v) /\ SamePorts(f, v) /\ Stir(f, v)
    BY <2>1, <2>2, SendQuiet, StirSend
  <2>4. Stir(e, v)
    BY <2>2, <2>3, StirTwice
  <2>5. /\ HasFields(v) /\ v.queue = e.queue /\ v.r_fifo = e.r_fifo /\ v.w_fifo = e.w_fifo
    BY <2>2, <2>3 DEF SameCopy, SamePorts
  <2>6. WakeInv(wake(v, 1))
    BY <1>2, <2>4, <2>5
  <2> QED BY <2>1, <2>6
<1>6. WakeInv(write_burst_done([e EXCEPT !.acks = @ - 1]))
  <2>1. PICK f, v : f = [e EXCEPT !.acks = @ - 1] /\ v = write_burst_done(f)
    OBVIOUS
  <2>2. /\ HasFields(f) /\ Stir(e, f) /\ f.queue = e.queue /\ f.r_fifo = e.r_fifo
        /\ f.w_fifo = e.w_fifo
    BY <1>1, <2>1 DEF HasFields, Stir, SameTimers
  <2>3. SameCopy(f, v) /\ Stir(f, v) /\ 1 \in v.wake_targets
    BY <2>1, <2>2, BurstDoneQuiet, StirAck
  <2>4. Stir(e, v) /\ e.wake_targets \subseteq v.wake_targets
    BY <2>2, <2>3, StirTwice
  <2>5. Waits(v)
    BY <1>1, <2>2, <2>3, <2>4, WaitsFrame DEF SameCopy
  <2> QED BY <1>1, <2>1, <2>3, <2>4, <2>5, StirWakes
<1>7. WakeInv(done_handler([e EXCEPT !.done = NoEvent]))
  <2>1. PICK f, g, b : /\ f = [e EXCEPT !.done = NoEvent] /\ g = count_done(f)
                       /\ b = [g EXCEPT !.busy = is_busy(g)]
    OBVIOUS
  <2>2. HasFields(f) /\ SameTimers(e, f) /\ SameWork(e, f) /\ SameFlags(e, f)
    BY <1>1, <2>1 DEF HasFields, SameTimers, SameWork, SameFlags
  <2>3. HasFields(g) /\ SameTimers(f, g) /\ SameWork(f, g) /\ SameFlags(f, g)
    BY <2>1, <2>2 DEF count_done, HasFields, SameTimers, SameWork, SameFlags
  <2>4. SameTimers(g, b) /\ SameWork(g, b) /\ SameFlags(g, b)
    BY <2>1, <2>3 DEF HasFields, SameTimers, SameWork, SameFlags
  <2>5. WakeInv(f)
    BY <2>2, WakeFrame
  <2>6. WakeInv(g)
    BY <2>3, <2>5, WakeFrame
  <2>7. WakeInv(b)
    BY <2>4, <2>6, WakeFrame
  <2>8. done_handler(f) = b
    BY <2>1 DEF done_handler
  <2> QED BY <2>1, <2>7, <2>8
<1> QED BY <1>3, <1>4, <1>5, <1>6, <1>7

\* Every step keeps what waits covered.
LEMMA WakeNext ==
  ASSUME DataInv(d), Owed(d, 0), WakeInv(d), [Next]_vars
  PROVE  WakeInv(d')
<1>1. HasFields(d)
  BY DEF DataInv, Ports
<1>2. ASSUME NEW p \in Port, NEW tr \in Transfers, Launch(p, tr) PROVE WakeInv(d')
  BY <1>2, LaunchWake DEF Launch
<1>3. ASSUME NEW ar_answer, NEW w_answer, Tick(ar_answer, w_answer) PROVE WakeInv(d')
  BY <1>3, TickWake
<1>4. CASE Ready
  <2>1. PICK f : f = [d EXCEPT !.ready = NoEvent]
    OBVIOUS
  <2>2. /\ SameCopy(d, f) /\ SamePorts(d, f)
        /\ SameTimers(d, f) /\ SameWork(d, f) /\ SameFlags(d, f)
    BY <1>1, <2>1 DEF SameCopy, SamePorts, SameTimers, SameWork, SameFlags, HasFields
  <2>3. DataInv(f) /\ WakeInv(f)
    BY <2>2, DataFrame, WakeFrame
  <2>4. PICK S : Tried(f, S)
    BY ReadyKeeps
  <2> DEFINE G == {x \in S : DataInv(x) /\ WakeInv(x)}
  <2>5. G \in SUBSET S /\ f \in G
    BY <2>3, <2>4 DEF Tried
  <2>6. ASSUME NEW x \in G PROVE DataInv(retry_port(x)) /\ WakeInv(retry_port(x))
    BY RetryData, RetryWake
  <2>7. stream_ready(f) \in G
    <3>1. \A x \in G : retry_port(x) \in S => retry_port(x) \in G
      BY <2>6
    <3> HIDE DEF G
    <3> QED BY <2>4, <2>5, <3>1 DEF Tried
  <2> QED BY <1>4, <2>1, <2>7 DEF Ready
<1>5. CASE Done
  BY <1>5, BusWake DEF Done
<1>6. CASE Cycle
  BY <1>6, CycleWake DEF Cycle
<1>7. CASE RetryRead \/ ReadBeat \/ WriteAck
  BY <1>7, BusWake DEF RetryRead, ReadBeat, WriteAck
<1>8. ASSUME NEW answer, RetryWrite(answer) PROVE WakeInv(d')
  BY <1>8, BusWake DEF RetryWrite
<1>9. CASE UNCHANGED vars
  BY <1>9 DEF vars
<1> QED BY <1>2, <1>3, <1>4, <1>5, <1>6, <1>7, <1>8, <1>9 DEF Next

\* The slots stay those of the bursts, for transfers of no length too.
LEMMA OwedNext ==
  ASSUME DataInv(d), WakeInv(d), Owed(d, 0), [Next]_vars
  PROVE  Owed(d', 0)
<1>1. HasFields(d) /\ Waits(d)
  BY DEF DataInv, Ports, WakeInv
<1>2. ASSUME NEW p \in Port, NEW tr \in Transfers, Launch(p, tr) PROVE Owed(d', 0)
  <2>1. SameSlots(d, launch(d, p, tr))
    BY LaunchDone
  <2>2. Owed(launch(d, p, tr), 0)
    BY <2>1, DoneFrame
  <2> QED BY <1>2, <2>2 DEF Launch
<1>3. ASSUME NEW ar_answer, NEW w_answer, Tick(ar_answer, w_answer) PROVE Owed(d', 0)
  <2>1. PICK d0, d1, d2, d3, active :
            /\ d0 = [d EXCEPT !.tick = NoEvent, !.wake_targets = @ \ {0}]
            /\ d1 = step(d0, ar_answer) /\ d2 = write_tick(d1, w_answer)
            /\ d3 = retry_held_beat(d2) /\ d' = rearm(d3, active)
    BY <1>3 DEF Tick
  <2>2. /\ SameCopy(d, d0) /\ SamePorts(d, d0) /\ SameSlots(d, d0)
        /\ d0.wake_targets = d.wake_targets \ {0}
    BY <1>1, <2>1 DEF SameCopy, SamePorts, SameSlots, HasFields
  <2>3. DataInv(d0) /\ Owed(d0, 0) /\ Waits(d0)
    <3>1. DataInv(d0) /\ Owed(d0, 0)
      BY <2>2, DataFrame, DoneFrame
    <3> QED BY <1>1, <2>2, <3>1 DEF Waits, Remembered, SameCopy
  <2>4. DataInv(d1) /\ Owed(d1, 0)
    <3>1. CopyInv(d1) /\ SamePorts(d0, d1) /\ Tidy(d1)
      BY <2>1, <2>3, StepCopy DEF DataInv
    <3>2. DataInv(d1)
      BY <2>3, <3>1 DEF DataInv, Ports, SamePorts
    <3> QED BY <2>1, <2>3, <3>2, StepWaits
  <2>5. HasFields(d2) /\ Owed(d2, 0)
    <3>1. SamePorts(d1, d2)
      BY <2>1, <2>4, WriteTickCopy DEF DataInv
    <3> QED BY <2>1, <2>4, <3>1, WriteTickOwed DEF SamePorts
  <2>6. HasFields(d3) /\ Owed(d3, 0)
    <3>1. SameSlots(d2, d3)
      BY <2>1, <2>5, ReadSlots
    <3> QED BY <2>5, <3>1, DoneFrame DEF SameSlots
  <2>7. PICK f, b : /\ f = (IF active THEN enqueue(d3, "tick", 1) ELSE d3)
                    /\ b = rearm(d3, active)
    OBVIOUS
  <2>8. HasFields(f) /\ Owed(f, 0)
    <3>1. SameSlots(d3, enqueue(d3, "tick", 1)) /\ SameSlots(d3, d3)
      BY <2>6, SlotsQuiet DEF SameSlots
    <3>2. SameSlots(d3, f)
      BY <2>7, <3>1
    <3> QED BY <2>6, <3>2, DoneFrame DEF SameSlots
  <2>9. SameSlots(f, b)
    <3>1. b = f \/ b = enqueue(f, "tick", Min(f.wake_targets))
      BY <2>7 DEF rearm
    <3>2. SameSlots(f, f)
      BY <2>8 DEF SameSlots
    <3> QED BY <2>8, <3>1, <3>2, SlotsQuiet
  <2>10. Owed(b, 0)
    BY <2>8, <2>9, DoneFrame
  <2> QED BY <2>1, <2>7, <2>10
<1>4. CASE Ready
  <2>1. PICK f : f = [d EXCEPT !.ready = NoEvent]
    OBVIOUS
  <2>2. SameCopy(d, f) /\ SamePorts(d, f) /\ SameSlots(d, f)
    BY <1>1, <2>1 DEF SameCopy, SamePorts, SameSlots, HasFields
  <2>3. DataInv(f) /\ Owed(f, 0)
    BY <2>2, DataFrame, DoneFrame
  <2>4. PICK S : Tried(f, S)
    BY ReadyKeeps
  <2> DEFINE G == {x \in S : DataInv(x) /\ Owed(x, 0)}
  <2>5. G \in SUBSET S /\ f \in G
    BY <2>3, <2>4 DEF Tried
  <2>6. ASSUME NEW x \in G PROVE DataInv(retry_port(x)) /\ Owed(retry_port(x), 0)
    <3>1. DataInv(retry_port(x)) /\ SameSlots(x, retry_port(x))
      BY RetryDone
    <3> QED BY <3>1, DoneFrame
  <2>7. stream_ready(f) \in G
    <3>1. \A x \in G : retry_port(x) \in S => retry_port(x) \in G
      BY <2>6
    <3> HIDE DEF G
    <3> QED BY <2>4, <2>5, <3>1 DEF Tried
  <2> QED BY <1>4, <2>1, <2>7 DEF Ready
<1>5. CASE Done
  BY <1>5, BusDone DEF Done
<1>6. CASE Cycle
  BY <1>6, CycleDone DEF Cycle
<1>7. CASE RetryRead \/ ReadBeat \/ WriteAck
  BY <1>7, BusDone DEF RetryRead, ReadBeat, WriteAck
<1>8. ASSUME NEW answer, RetryWrite(answer) PROVE Owed(d', 0)
  BY <1>8, BusDone DEF RetryWrite
<1>9. CASE UNCHANGED vars
  BY <1>9 DEF vars
<1> QED BY <1>2, <1>3, <1>4, <1>5, <1>6, <1>7, <1>8, <1>9 DEF Next

\* At the beginning there is nothing to do.
LEMMA WakeInit ==
  ASSUME Init
  PROVE  WakeInv(d)
<1>1. /\ d.tick = NoEvent /\ d.wake_targets = {} /\ d.queue = NewFifo /\ d.line = 0
      /\ d.r_left = 0 /\ d.w_left = 0 /\ d.took = FALSE /\ d.pushed = FALSE
      /\ d.r_fifo = NewFifo /\ d.w_fifo = NewFifo /\ d.wlast = NewFifo
      /\ d.held_resp = FALSE /\ d.data_queue = <<>>
  BY DEF Init
<1>2. NewFifo.queue = <<>> /\ NewFifo.popped = 0 /\ Len(<<>>) = 0
  BY DEF NewFifo
<1>3. Timers(d) /\ Waits(d)
  BY <1>1, <1>2 DEF Timers, Waits, Remembered, Soon
<1>4. ~Unsettled(d)
  BY <1>1, <1>2 DEF Unsettled
<1>5. Stuck(d)
  <2>1. ~head_visible(d.queue) /\ ~(d.line > 0)
    BY <1>1, <1>2 DEF head_visible, is_empty
  <2>2. all_cut(d) /\ peek_1d(d) = None
    BY <1>1, <2>1 DEF all_cut, peek_1d
  <2>3. ~write_can_tick(d) /\ ~d.held_resp
    BY <1>1 DEF write_can_tick
  <2> QED BY <2>2, <2>3 DEF Stuck
<1> QED BY <1>3, <1>4, <1>5 DEF WakeInv

WakeAlways == WakeInv(d) /\ Owed(d, 0)

\* The iDMA never sleeps on work, for all transfers, depths and answers of the
\* bus: while no tick is asked for, neither the legalizer nor the write side nor
\* a read beat that is held could move in the next cycle.
THEOREM IdmaNeverSleeps == Spec => []NothingSleeps
<1>1. Init => DataAlways /\ WakeAlways
  <2>1. ASSUME Init PROVE Owed(d, 0)
    BY <2>1, DoneInit DEF DoneInv
  <2> QED BY <2>1, DataInit, WakeInit DEF DataAlways, WakeAlways
<1>2. DataAlways /\ WakeAlways /\ [Next]_vars => DataAlways' /\ WakeAlways'
  BY DataNext, WakeNext, OwedNext DEF DataAlways, WakeAlways
<1>3. DataAlways /\ WakeAlways => NothingSleeps
  <2> SUFFICES ASSUME DataInv(d), WakeInv(d), Owed(d, 0), d.tick = NoEvent,
                      NEW n, n = next_cycle(d)
               PROVE  /\ step(n, "granted") = n
                      /\ ~write_can_tick(n)
                      /\ ~(n.held_resp /\ read_beat_can_accept(n))
    BY DEF DataAlways, WakeAlways, NothingSleeps
  <2>1. DataInv(n) /\ Stuck(n)
    BY CycleData, NextStuck
  <2>2. step(n, "granted") = n
    BY <2>1, StuckStep
  <2> QED BY <2>1, <2>2 DEF Stuck
<1>4. Spec => Init /\ [][Next]_vars
  BY DEF Spec
<1> QED BY <1>1, <1>2, <1>3, <1>4, PTL
=============================================================================
