-------------------------- MODULE SocEventsProofs --------------------------
(***************************************************************************)
(* Proofs about the way of a SoC event to the fabric controller, for every *)
(* size of the ring, every set of events and of interrupts.                *)
(*                                                                         *)
(* The safety properties of SocEvents are inductive together: that no      *)
(* event overtakes another (InOrder) needs that the queue is empty when    *)
(* the ring has room (QueuedOnlyWhenFull), and that the drop counters stay *)
(* in their range needs that they count the queue (WaitingIsCounted).      *)
(***************************************************************************)
EXTENDS SocEvents, Integers, Sequences, FiniteSets,
        SequenceTheorems, FunctionTheorems, FiniteSetTheorems,
        WellFoundedInduction, TLAPS

-----------------------------------------------------------------------------
(***************************************************************************)
(* Extrema, and queues that are split, joined and counted.                 *)
(***************************************************************************)

\* A finite set of numbers that is not empty has a largest element: a
\* smallest set without one would have one once any element is taken out.
LEMMA FiniteHasMax ==
  ASSUME NEW A \in SUBSET Int, IsFiniteSet(A), A # {}
  PROVE  \E i \in A : \A j \in A : j <= i
<1> DEFINE HasMax(T) == \E i \in T : \A j \in T : j <= i
           Bad == {T \in SUBSET A : T # {} /\ ~HasMax(T)}
<1> SUFFICES Bad = {}
  OBVIOUS
<1> SUFFICES ASSUME Bad # {} PROVE FALSE
  OBVIOUS
<1>1. Bad \subseteq FiniteSubsetsOf(A)
  BY FS_Subset DEF FiniteSubsetsOf
<1>2. PICK T \in Bad : \A U \in Bad : ~(<<U, T>> \in StrictSubsetOrdering(A))
  <2> HIDE DEF Bad
  <2> QED BY <1>1, FS_StrictSubsetOrderingWellFounded, WFMin
<1>3. PICK x \in T : TRUE
  OBVIOUS
<1>4. T \ {x} \notin Bad
  <2>1. <<T \ {x}, T>> \in StrictSubsetOrdering(A)
    BY <1>2, <1>3 DEF StrictSubsetOrdering
  <2> QED BY <2>1, <1>2
<1>5. T \ {x} # {} => HasMax(T \ {x})
  BY <1>2, <1>4
<1>6. HasMax(T)
  <2>1. CASE T = {x}
    BY <2>1, <1>2
  <2>2. CASE T # {x}
    <3>1. PICK i \in T \ {x} : \A j \in T \ {x} : j <= i
      BY <2>2, <1>3, <1>5
    <3>2. i \in Int /\ x \in Int /\ T \subseteq Int
      BY <1>2, <1>3
    <3>3. CASE i <= x
      BY <3>1, <3>2, <3>3
    <3>4. CASE ~(i <= x)
      BY <3>1, <3>2, <3>4
    <3> QED BY <3>3, <3>4
  <2> QED BY <2>1, <2>2
<1> QED BY <1>2, <1>6

\* A set of natural numbers that is not empty has a smallest element.
LEMMA NatHasMin ==
  ASSUME NEW A \in SUBSET Nat, A # {}
  PROVE  \E i \in A : \A j \in A : i <= j
<1> DEFINE R == {ss \in Nat \X Nat : ss[1] < ss[2]}
<1>1. PICK i \in A : \A j \in A : ~(<<j, i>> \in R)
  <2>1. IsWellFoundedOn(R, Nat)
    BY NatLessThanWellFounded, Zenon DEF OpToRel
  <2> HIDE DEF R
  <2> QED BY <2>1, WFMin
<1>2. ASSUME NEW j \in A PROVE i <= j
  <2>1. i \in Nat /\ j \in Nat /\ <<j, i>> \notin R
    BY <1>1
  <2>2. <<j, i>> \in Nat \X Nat => ~(<<j, i>>[1] < <<j, i>>[2])
    BY <2>1, Zenon
  <2> QED BY <2>1, <2>2
<1> QED BY <1>2

\* What is appended to the second part is appended to the whole.
LEMMA AppendToConcat ==
  ASSUME NEW S, NEW q \in Seq(S), NEW r \in Seq(S), NEW x \in S,
         NEW s, s = Append(r, x)
  PROVE  Append(q \o r, x) = q \o s
<1> DEFINE t == <<x>>
<1>1. t \in Seq(S) /\ q \o r \in Seq(S)
  BY ConcatProperties
<1>2. Append(q \o r, x) = (q \o r) \o t /\ s = r \o t
  BY <1>1, AppendIsConcat
<1> HIDE DEF t
<1>3. (q \o r) \o t = q \o (r \o t)
  <2>1. t \in Seq(S)
    BY <1>1
  <2> QED BY <2>1, ConcatAssociative, SMTT(20)
<1> QED BY <1>2, <1>3, Zenon

\* A sequence is its head followed by its tail.
LEMMA HeadThenTail ==
  ASSUME NEW S, NEW q \in Seq(S), q # <<>>
  PROVE  q = <<Head(q)>> \o Tail(q)
<1> DEFINE h == <<Head(q)>>
           t == Tail(q)
<1>1. /\ Head(q) \in S /\ t \in Seq(S) /\ Len(t) = Len(q) - 1
      /\ \A i \in 1 .. Len(t) : t[i] = q[i + 1]
      /\ Len(q) \in Nat \ {0}
  BY HeadTailProperties, EmptySeq
<1>2. h \in Seq(S) /\ Len(h) = 1 /\ h[1] = q[1]
  BY <1>1
<1> HIDE DEF h, t
<1>3. /\ h \o t \in Seq(S) /\ Len(h \o t) = Len(h) + Len(t)
      /\ \A i \in 1 .. Len(h) + Len(t) : (h \o t)[i] =
            IF i <= Len(h) THEN h[i] ELSE t[i - Len(h)]
  BY <1>1, <1>2, ConcatProperties
<1>4. Len(h) + Len(t) = Len(q)
  BY <1>1, <1>2
<1>5. \A i \in 1 .. Len(q) : q[i] = (h \o t)[i]
  BY <1>1, <1>2, <1>3, <1>4
<1>6. q = h \o t
  BY <1>3, <1>4, <1>5, SeqEqual
<1> QED BY <1>6 DEF h, t

\* Moving the head of the second part to the end of the first leaves the
\* whole as it is.
LEMMA MoveHead ==
  ASSUME NEW S, NEW q \in Seq(S), NEW r \in Seq(S), r # <<>>
  PROVE  Append(q, Head(r)) \o Tail(r) = q \o r
<1> DEFINE h == <<Head(r)>>
<1>1. h \in Seq(S) /\ Tail(r) \in Seq(S) /\ Append(q, Head(r)) = q \o h
  BY HeadTailProperties, AppendIsConcat
<1>2. r = h \o Tail(r)
  BY HeadThenTail
<1> HIDE DEF h
<1>3. (q \o h) \o Tail(r) = q \o (h \o Tail(r))
  BY <1>1, ConcatAssociative
<1> QED BY <1>1, <1>2, <1>3

\* The first element alone, and what is left without it.
LEMMA FirstAndRest ==
  ASSUME NEW S, NEW q \in Seq(S), q # <<>>
  PROVE  /\ SubSeq(q, 1, 1) = <<Head(q)>>
         /\ SubSeq(q, 2, Len(q)) = Tail(q)
<1>1. Len(q) \in Nat \ {0} /\ Head(q) = q[1] /\ Head(q) \in S
  BY EmptySeq, HeadTailProperties
<1>2. \A i \in 1 .. 1 : q[i] \in S
  BY <1>1
<1> DEFINE s == SubSeq(q, 1, 1)
<1>3. /\ s \in Seq(S) /\ Len(s) = IF 1 <= 1 THEN 1 - 1 + 1 ELSE 0
      /\ \A i \in 1 .. 1 - 1 + 1 : s[i] = q[1 + i - 1]
  BY <1>2, SubSeqProperties
<1> HIDE DEF s
<1>4. Len(s) = 1 /\ s[1] = q[1]
  BY <1>3
<1>5. s = <<q[1]>>
  <2> DEFINE t == <<q[1]>>
  <2>1. t \in Seq(S) /\ Len(t) = 1 /\ t[1] = q[1]
    BY <1>1
  <2> HIDE DEF t
  <2>2. \A i \in 1 .. Len(s) : s[i] = t[i]
    BY <1>4, <2>1
  <2>3. s = t
    BY <1>3, <1>4, <2>1, <2>2, SeqEqual
  <2> QED BY <2>3 DEF t
<1> QED BY <1>1, <1>5, TailIsSubSeq DEF s

\* Which positions of q hold e, and how many.
At(q, e) == {i \in DOMAIN q : q[i] = e}
Count(q, e) == Cardinality(At(q, e))

\* The positions of an element are finitely many.
LEMMA CountType ==
  ASSUME NEW S, NEW q \in Seq(S), NEW e
  PROVE  IsFiniteSet(At(q, e)) /\ Count(q, e) \in Nat
<1>1. IsFiniteSet(1 .. Len(q)) /\ DOMAIN q = 1 .. Len(q)
  BY FS_Interval, LenProperties
<1>2. At(q, e) \in SUBSET (1 .. Len(q))
  BY <1>1 DEF At
<1>3. IsFiniteSet(At(q, e))
  BY <1>1, <1>2, FS_Subset
<1> QED BY <1>3, FS_CardinalityType DEF Count

\* Nothing is in the empty sequence.
LEMMA CountEmpty ==
  ASSUME NEW e
  PROVE  Count(<<>>, e) = 0
<1>1. At(<<>>, e) = {}
  BY DEF At
<1> QED BY <1>1, FS_EmptySet DEF Count

\* A sequence of one element.
LEMMA CountOne ==
  ASSUME NEW x, NEW e
  PROVE  Count(<<x>>, e) = IF x = e THEN 1 ELSE 0
<1>1. At(<<x>>, e) = IF x = e THEN {1} ELSE {}
  BY DEF At
<1> QED BY <1>1, FS_EmptySet, FS_Singleton DEF Count

\* An element appended is counted.
LEMMA CountAppend ==
  ASSUME NEW S, NEW q \in Seq(S), NEW x \in S, NEW e
  PROVE  Count(Append(q, x), e) = Count(q, e) + (IF x = e THEN 1 ELSE 0)
<1> DEFINE n == Len(q) + 1
<1>1. /\ Append(q, x) \in Seq(S) /\ DOMAIN Append(q, x) = 1 .. n
      /\ \A i \in 1 .. Len(q) : Append(q, x)[i] = q[i]
      /\ Append(q, x)[n] = x /\ Len(q) \in Nat /\ DOMAIN q = 1 .. Len(q)
  BY AppendProperties, LenProperties
<1>2. IsFiniteSet(At(q, e)) /\ Count(q, e) \in Nat
  BY CountType
<1>3. n \notin At(q, e)
  BY <1>1 DEF At
<1>4. At(Append(q, x), e) = IF x = e THEN At(q, e) \cup {n} ELSE At(q, e)
  BY <1>1 DEF At
<1>5. Cardinality(At(q, e) \cup {n}) = Cardinality(At(q, e)) + 1
  BY <1>2, <1>3, FS_AddElement
<1> QED BY <1>2, <1>4, <1>5 DEF Count

\* An element taken from the front is no longer counted.
LEMMA CountTail ==
  ASSUME NEW S, NEW q \in Seq(S), q # <<>>, NEW e
  PROVE  Count(q, e) = Count(Tail(q), e) + (IF Head(q) = e THEN 1 ELSE 0)
<1> DEFINE A == At(q, e) \ {1}
           B == At(Tail(q), e)
           f == [i \in B |-> i + 1]
<1>1. /\ Tail(q) \in Seq(S) /\ Len(q) \in Nat \ {0}
      /\ DOMAIN q = 1 .. Len(q) /\ DOMAIN Tail(q) = 1 .. Len(q) - 1
      /\ \A i \in 1 .. Len(q) - 1 : Tail(q)[i] = q[i + 1]
      /\ Head(q) = q[1]
  BY HeadTailProperties, LenProperties, EmptySeq
<1>2. f \in Bijection(B, A)
  <2>1. \A i \in B : i + 1 \in A
    BY <1>1 DEF At
  <2>2. f \in [B -> A]
    BY <2>1
  <2>3. \A i, j \in B : f[i] = f[j] => i = j
    <3>1. B \subseteq Int
      BY <1>1 DEF At
    <3> QED BY <3>1
  <2>4. \A j \in A : \E i \in B : f[i] = j
    <3> SUFFICES ASSUME NEW j \in A PROVE j - 1 \in B /\ f[j - 1] = j
      OBVIOUS
    <3>1. j \in 2 .. Len(q) /\ q[j] = e
      BY <1>1 DEF At
    <3>2. j - 1 \in 1 .. Len(q) - 1 /\ (j - 1) + 1 = j
      BY <3>1, <1>1
    <3>3. j - 1 \in B
      BY <3>1, <3>2, <1>1 DEF At
    <3> QED BY <3>2, <3>3
  <2> QED BY <2>2, <2>3, <2>4, Fun_IsBij, Zenon
<1>3. IsFiniteSet(At(q, e)) /\ IsFiniteSet(B) /\ Count(Tail(q), e) \in Nat
  BY <1>1, CountType
<1>4. Cardinality(A) = Cardinality(B)
  BY <1>2, <1>3, FS_Bijection, Fun_ExistsBij
<1>5. At(q, e) = IF Head(q) = e THEN A \cup {1} ELSE A
  BY <1>1 DEF At
<1>6. IsFiniteSet(A) /\ Cardinality(A \cup {1}) = Cardinality(A) + 1
  <2>1. IsFiniteSet(A)
    BY <1>3, FS_RemoveElement
  <2> QED BY <2>1, FS_AddElement
<1> HIDE DEF A, B
<1> QED BY <1>3, <1>4, <1>5, <1>6 DEF Count, B

-----------------------------------------------------------------------------
\* The request on the wire is an interrupt, or none.
LEMMA HighestType ==
  ASSUME NEW S \in SUBSET Irq
  PROVE  Highest(S) \in Irq \cup {NoIrq}
<1>1. CASE S = {}
  BY <1>1 DEF Highest
<1>2. CASE S # {}
  <2>1. IsFiniteSet(S)
    BY ItcAssumption, FS_Subset
  <2>2. S \in SUBSET Int
    BY ItcAssumption
  <2>3. \E i \in S : \A j \in S : j <= i
    BY <1>2, <2>1, <2>2, FiniteHasMax
  <2>4. Highest(S) \in S
    BY <1>2, <2>3 DEF Highest
  <2> QED BY <2>4
<1> QED BY <1>1, <1>2

\* The lowest event of a set that is not empty is one of its elements.
LEMMA LowestIn ==
  ASSUME NEW S \in SUBSET Event, S # {}
  PROVE  Lowest(S) \in S
<1>1. \E i \in S : \A j \in S : i <= j
  BY NatHasMin, SocEuAssumption
<1> QED BY <1>1 DEF Lowest

-----------------------------------------------------------------------------
(***************************************************************************)
(* The inductive invariant.                                                *)
(***************************************************************************)
IInv ==
    /\ TypeOK
    /\ InOrder /\ QueuedOnlyWhenFull /\ WaitingIsCounted
    /\ WireIsCurrent
    /\ RaisedOrServed

\* What the way of the events is made of; most steps leave it alone.
way == <<fifo, queue, nb_waiting_events, accepted, taken>>

\* No line carries a number that stands for no interrupt.
LEMMA FifoIrqIsAnIrq == fifo_irq \in Irq /\ fifo_irq # NoIrq
BY ItcAssumption DEF NoIrq

\* The initial state: nothing waits, and no request is on the wire.
LEMMA InitIInv == Init => IInv
<1> SUFFICES ASSUME Init PROVE IInv
  OBVIOUS
<1> USE DEF Init, ItcInit
<1>1. <<>> \in Seq(Event) /\ Len(<<>>) = 0
  BY EmptySeq
<1>2. TypeOK
  <2>1. ItcTypeOK
    BY <1>1, ItcAssumption DEF ItcTypeOK
  <2>2. nb_waiting_events \in [Event -> 0 .. MaxWaiting]
    BY SocEuAssumption
  <2> QED BY <1>1, <2>1, <2>2 DEF TypeOK
<1>3. InOrder
  BY <1>1, ConcatEmptySeq DEF InOrder
<1>4. WaitingIsCounted
  BY CountEmpty DEF WaitingIsCounted, Count, At
<1>5. WireIsCurrent
  BY DEF WireIsCurrent, Highest
<1> QED BY <1>2, <1>3, <1>4, <1>5 DEF IInv, QueuedOnlyWhenFull, RaisedOrServed

\* Steps that leave the way of the events alone keep the facts about it.
LEMMA WayUnchanged ==
  ASSUME IInv, UNCHANGED way
  PROVE  InOrder' /\ QueuedOnlyWhenFull' /\ WaitingIsCounted'
BY DEF IInv, way, InOrder, QueuedOnlyWhenFull, WaitingIsCounted, ready

\* Whatever check_state() is called with, the wire is current afterwards.
LEMMA DriveWire ==
  ASSUME IInv, NEW s \in SUBSET Irq, NEW m \in SUBSET Irq, drive(s, m)
  PROVE  /\ status' = s /\ mask' = m
         /\ WireIsCurrent'
         /\ sync_irq' \in Irq \cup {NoIrq} /\ irq_req' \in Irq \cup {NoIrq}
<1>1. Highest(s \cap m) \in Irq \cup {NoIrq}
  BY HighestType
<1>2. status' = s /\ mask' = m
  BY DEF drive
<1>3. sync_irq' = Highest(s \cap m) /\ irq_req' = Highest(s \cap m)
  <2>1. CASE Highest(s \cap m) = sync_irq
    BY <2>1 DEF drive, check_state, IInv, WireIsCurrent
  <2>2. CASE Highest(s \cap m) # sync_irq
    BY <2>2 DEF drive, check_state
  <2> QED BY <2>1, <2>2
<1> QED BY <1>1, <1>2, <1>3 DEF WireIsCurrent

\* The acknowledge drives the wire a second time, from the state of a wire
\* without request: it is current however the first call left it.
LEMMA AckWire ==
  ASSUME IInv, NEW irq \in Irq, irq_ack_sync(irq)
  PROVE  /\ status' = status \ {irq} /\ mask' = mask
         /\ WireIsCurrent'
         /\ sync_irq' \in Irq \cup {NoIrq} /\ irq_req' \in Irq \cup {NoIrq}
<1> DEFINE s == status \ {irq}
           h == Highest(s \cap mask)
<1>1. h \in Irq \cup {NoIrq}
  BY HighestType DEF IInv, TypeOK, ItcTypeOK
<1>2. status' = s /\ mask' = mask
  BY DEF irq_ack_sync
<1>3. sync_irq' = h /\ irq_req' = h
  BY DEF irq_ack_sync, check_state
<1> QED BY <1>1, <1>2, <1>3 DEF WireIsCurrent

-----------------------------------------------------------------------------
(***************************************************************************)
(* The SoC event unit.                                                     *)
(***************************************************************************)

\* trigger_event() keeps the invariant in each of its outcomes: the event is
\* masked, goes to the ring, waits, or is dropped.
LEMMA TriggerKeeps ==
  ASSUME IInv, NEW e \in Event, trigger_event(e),
         UNCHANGED <<taken, handler, served>>
  PROVE  /\ ItcTypeOK'
         /\ queue' \in Seq(Event) /\ accepted' \in Seq(Event)
         /\ nb_waiting_events' \in [Event -> 0 .. MaxWaiting]
         /\ InOrder' /\ QueuedOnlyWhenFull' /\ WaitingIsCounted'
         /\ WireIsCurrent' /\ RaisedOrServed'
<1> USE DEF IInv, TypeOK, ItcTypeOK
<1>1. CASE e \in fc_mask
           /\ UNCHANGED <<irqs, fifo, queue, nb_waiting_events, accepted>>
  <2>1. UNCHANGED way
    BY <1>1 DEF way
  <2> QED BY <1>1, <2>1, WayUnchanged DEF irqs, WireIsCurrent, RaisedOrServed
<1>2. CASE /\ ready /\ soc_event_sync(<<e>>)
           /\ accepted' = Append(accepted, e)
           /\ UNCHANGED <<queue, nb_waiting_events>>
  <2>1. /\ fifo' = fifo \o <<e>>
        /\ drive(status \cup raised_by_push(fifo, fifo'), mask)
        /\ UNCHANGED <<ack, input_status>>
    BY <1>2 DEF soc_event_sync, itc_status_setValue
  <2>2. status \cup raised_by_push(fifo, fifo') \in SUBSET Irq
    BY FifoIrqIsAnIrq DEF raised_by_push
  <2>3. /\ status' = status \cup raised_by_push(fifo, fifo') /\ mask' = mask
        /\ WireIsCurrent'
        /\ sync_irq' \in Irq \cup {NoIrq} /\ irq_req' \in Irq \cup {NoIrq}
    BY <2>1, <2>2, DriveWire
  <2>4. fifo' = Append(fifo, e) /\ fifo' \in Seq(Event) /\ fifo' # <<>>
        /\ Len(fifo') = Len(fifo) + 1
    BY <2>1, AppendIsConcat, AppendProperties
  <2>5. queue = <<>>
    BY <1>2 DEF QueuedOnlyWhenFull
  <2>6. ItcTypeOK'
    <3>1. Len(fifo') <= nb_fifo_events
      BY <1>2, <2>4, LenProperties, ItcAssumption DEF ready
    <3> QED BY <2>1, <2>2, <2>3, <2>4, <3>1
  <2>7. InOrder'
    <3>1. taken \o fifo = accepted
      <4>1. taken \o fifo \in Seq(Event)
        BY ConcatProperties
      <4> QED BY <2>5, <4>1, ConcatEmptySeq DEF InOrder
    <3>2. Append(taken \o fifo, e) = taken \o Append(fifo, e)
      <4> HIDE DEF IInv
      <4>1. taken \in Seq(Event) /\ fifo \in Seq(Event)
        BY DEF IInv
      <4> QED BY <4>1, AppendToConcat
    <3>4. accepted' = taken' \o fifo'
      BY <1>2, <2>4, <3>1, <3>2
    <3>3. taken' \o fifo' \in Seq(Event) /\ queue' = <<>>
      BY <1>2, <2>4, <2>5, ConcatProperties
    <3> QED BY <3>4, <3>3, ConcatEmptySeq DEF InOrder
  <2>8. RaisedOrServed'
    <3>1. fifo = <<>> => fifo_irq \in status'
      BY <2>3, <2>4 DEF raised_by_push
    <3> QED BY <2>3, <3>1 DEF RaisedOrServed
  <2> QED BY <1>2, <2>3, <2>5, <2>6, <2>7, <2>8, AppendProperties
          DEF QueuedOnlyWhenFull, WaitingIsCounted
<1>3. CASE ~ready /\ enqueue(e) /\ UNCHANGED <<irqs, fifo>>
  <2>1. CASE nb_waiting_events[e] = MaxWaiting
    <3>1. UNCHANGED way
      BY <1>3, <2>1 DEF way, enqueue
    <3> QED BY <1>3, <2>1, <3>1, WayUnchanged
            DEF enqueue, irqs, way, WireIsCurrent, RaisedOrServed
  <2>2. CASE nb_waiting_events[e] # MaxWaiting
    <3>1. /\ nb_waiting_events' = [nb_waiting_events EXCEPT ![e] = @ + 1]
          /\ queue' = Append(queue, e) /\ accepted' = Append(accepted, e)
      BY <1>3, <2>2 DEF enqueue
    <3>2. queue' \in Seq(Event) /\ accepted' \in Seq(Event)
      BY <3>1, AppendProperties
    <3>3. nb_waiting_events' \in [Event -> 0 .. MaxWaiting]
      BY <2>2, <3>1, SocEuAssumption
    <3>4. InOrder'
      <4>1. taken \o fifo \in Seq(Event)
        BY ConcatProperties
      <4>2. Append((taken \o fifo) \o queue, e) = (taken \o fifo) \o Append(queue, e)
        <5> HIDE DEF IInv
        <5>1. queue \in Seq(Event)
          BY DEF IInv
        <5> QED BY <4>1, <5>1, AppendToConcat, ZenonT(60)
      <4> QED BY <1>3, <3>1, <4>2 DEF InOrder
    <3>5. WaitingIsCounted'
      <4>1. \A d \in Event : nb_waiting_events[d] = Count(queue, d)
        BY DEF WaitingIsCounted, Count, At
      <4>2. \A d \in Event : nb_waiting_events'[d] =
                nb_waiting_events[d] + (IF e = d THEN 1 ELSE 0)
        BY <3>1, SocEuAssumption
      <4>3. \A d \in Event : nb_waiting_events'[d] = Count(queue', d)
        BY <3>1, <4>1, <4>2, CountAppend
      <4> QED BY <4>3 DEF WaitingIsCounted, Count, At
    <3>6. QueuedOnlyWhenFull' /\ ItcTypeOK' /\ WireIsCurrent' /\ RaisedOrServed'
      BY <1>3 DEF QueuedOnlyWhenFull, ready, irqs, WireIsCurrent, RaisedOrServed
    <3> QED BY <3>2, <3>3, <3>4, <3>5, <3>6
  <2> QED BY <2>1, <2>2
<1> QED BY <1>1, <1>2, <1>3 DEF trigger_event

\* An event from a wire.
LEMMA EventInStep ==
  ASSUME IInv, NEW e \in Event, EventIn(e)
  PROVE  IInv'
<1>1. trigger_event(e) /\ UNCHANGED <<fc_mask, sw_event, triggering, fc, taken, inputs>>
  BY DEF EventIn
<1>2. UNCHANGED <<taken, handler, served>>
  BY <1>1 DEF fc
<1> QED BY <1>1, <1>2, TriggerKeeps DEF IInv, TypeOK, fc

\* One turn of the loop over the software events.
LEMMA TriggerSwEventStep ==
  ASSUME IInv, TriggerSwEvent
  PROVE  IInv'
<1> DEFINE e == Lowest(triggering)
<1>1. e \in Event
  <2>1. triggering \in SUBSET Event /\ triggering # {}
    BY SocEuAssumption DEF TriggerSwEvent, Idle, IInv, TypeOK
  <2> QED BY <2>1, LowestIn
<1>2. /\ trigger_event(e) /\ triggering' = triggering \ {e}
      /\ UNCHANGED <<fc_mask, sw_event, fc, taken, inputs>>
  BY DEF TriggerSwEvent
<1>3. UNCHANGED <<taken, handler, served>>
  BY <1>2 DEF fc
<1> HIDE DEF e
<1> QED BY <1>1, <1>2, <1>3, TriggerKeeps DEF IInv, TypeOK, fc

-----------------------------------------------------------------------------
(***************************************************************************)
(* The FC.                                                                 *)
(***************************************************************************)

\* How many events a read of the FIFO moves: none when the queue is empty, and
\* else one, for the ring was full.
LEMMA OneIsSent ==
  ASSUME IInv
  PROVE  /\ queue = <<>> => sent(nb_fifo_events - Len(fifo) + 1) = 0
         /\ queue # <<>> => ~ready /\ sent(nb_fifo_events - Len(fifo) + 1) = 1
<1>1. queue \in Seq(Event) /\ fifo \in Seq(Event) /\ Len(fifo) <= nb_fifo_events
  BY DEF IInv, TypeOK, ItcTypeOK
<1>2. Len(queue) \in Nat /\ Len(fifo) \in Nat /\ nb_fifo_events \in Nat
  BY <1>1, LenProperties, ItcAssumption
<1>3. ASSUME queue = <<>> PROVE Len(queue) = 0
  BY <1>3
<1>4. ASSUME queue # <<>> PROVE ~ready /\ Len(queue) # 0
  BY <1>1, <1>4, EmptySeq DEF IInv, QueuedOnlyWhenFull
<1> DEFINE free == nb_fifo_events - Len(fifo) + 1
<1>5. free \in Nat /\ (~ready => free = 1)
  BY <1>1, <1>2 DEF ready
<1> HIDE DEF free
<1>6. queue = <<>> => sent(free) = 0
  BY <1>3, <1>5 DEF sent
<1>7. ASSUME queue # <<>> PROVE ~ready /\ sent(free) = 1
  <2>1. ~ready
    BY <1>4, <1>7
  <2>2. Len(queue) # 0 /\ free = 1
    BY <2>1, <1>4, <1>5, <1>7
  <2> DEFINE n == Len(queue)
  <2>3. n \in Nat /\ n # 0 /\ sent(free) = IF n <= free THEN n ELSE free
    BY <1>2, <2>2 DEF sent
  <2> HIDE DEF n
  <2> QED BY <2>1, <2>2, <2>3
<1> QED BY <1>6, <1>7 DEF free

\* The events it moves and what stays in the queue.
LEMMA Moved ==
  ASSUME IInv
  PROVE  LET evs == IF ready THEN <<>>
                    ELSE SubSeq(queue, 1, sent(nb_fifo_events - Len(fifo) + 1))
             rest == SubSeq(queue, Len(evs) + 1, Len(queue))
         IN  /\ queue = <<>> => evs = <<>> /\ rest = <<>>
             /\ queue # <<>> => evs = <<Head(queue)>> /\ rest = Tail(queue) /\ ~ready
<1> DEFINE evs == IF ready THEN <<>>
                  ELSE SubSeq(queue, 1, sent(nb_fifo_events - Len(fifo) + 1))
<1>1. queue \in Seq(Event)
  BY DEF IInv, TypeOK
<1>2. CASE queue = <<>>
  <2>1. SubSeq(queue, 1, 0) = <<>> /\ Len(queue) = 0
    BY <1>2, SubSeqEmpty
  <2>2. evs = <<>>
    BY <1>2, <2>1, OneIsSent
  <2> HIDE DEF evs
  <2>3. Len(evs) + 1 = 1
    BY <2>2
  <2> QED BY <1>2, <2>1, <2>2, <2>3 DEF evs
<1>3. CASE queue # <<>>
  <2>1. evs = <<Head(queue)>> /\ ~ready
    BY <1>1, <1>3, OneIsSent, FirstAndRest
  <2> HIDE DEF evs
  <2>2. Len(evs) + 1 = 2
    BY <2>1
  <2>3. SubSeq(queue, Len(evs) + 1, Len(queue)) = Tail(queue)
    BY <1>1, <1>3, <2>2, FirstAndRest
  <2> QED BY <1>3, <2>1, <2>3 DEF evs
<1> QED BY <1>2, <1>3

\* The read hands the oldest event over and refills the ring from the queue.
LEMMA ReadFifoWay ==
  ASSUME IInv, ReadFifo
  PROVE  /\ fifo # <<>> /\ fifo' \in Seq(Event) /\ Len(fifo') <= nb_fifo_events
         /\ queue' \in Seq(Event) /\ taken' \in Seq(Event)
         /\ nb_waiting_events' \in [Event -> 0 .. MaxWaiting]
         /\ InOrder' /\ QueuedOnlyWhenFull' /\ WaitingIsCounted'
<1> DEFINE evs == IF ready THEN <<>>
                  ELSE SubSeq(queue, 1, sent(nb_fifo_events - Len(fifo) + 1))
           rest == SubSeq(queue, Len(evs) + 1, Len(queue))
           h == Head(fifo)
           t == Tail(fifo)
<1>1. /\ fifo # <<>> /\ taken' = Append(taken, h) /\ fifo' = t \o evs
      /\ queue' = rest /\ nb_waiting_events' = uncount(evs)
      /\ accepted' = accepted
  BY DEF ReadFifo, itc_fifo_ioReq
<1>2. /\ queue = <<>> => evs = <<>> /\ rest = <<>>
      /\ queue # <<>> => evs = <<Head(queue)>> /\ rest = Tail(queue) /\ ~ready
  BY Moved
<1> HIDE DEF evs, rest
<1>3. /\ fifo \in Seq(Event) /\ queue \in Seq(Event) /\ taken \in Seq(Event)
      /\ Len(fifo) <= nb_fifo_events /\ nb_fifo_events \in Nat
      /\ nb_waiting_events \in [Event -> 0 .. MaxWaiting] /\ MaxWaiting \in Nat
  BY ItcAssumption, SocEuAssumption DEF IInv, TypeOK, ItcTypeOK
<1>4. h \in Event /\ t \in Seq(Event) /\ Len(t) = Len(fifo) - 1 /\ Len(fifo) \in Nat
  BY <1>1, <1>3, HeadTailProperties, LenProperties
<1>5. Append(taken, h) \o t = taken \o fifo
  BY <1>1, <1>3, MoveHead
<1> HIDE DEF h, t
<1>6. queue # <<>> => Head(queue) \in Event /\ Tail(queue) \in Seq(Event)
  BY <1>3, HeadTailProperties
<1>7. /\ evs \in Seq(Event) /\ rest \in Seq(Event)
      /\ Len(evs) \in Nat /\ Len(evs) <= 1
      /\ queue # <<>> => Len(evs) = 1
  <2>1. CASE queue = <<>>
    BY <1>2, <2>1
  <2>2. CASE queue # <<>>
    <3> DEFINE x == Head(queue)
    <3>1. x \in Event /\ evs = <<x>> /\ rest \in Seq(Event)
      BY <1>2, <1>6, <2>2
    <3> HIDE DEF x
    <3> QED BY <3>1
  <2> QED BY <2>1, <2>2
<1>8. evs \o rest = queue
  <2>1. CASE queue = <<>>
    BY <1>2, <2>1
  <2>2. CASE queue # <<>>
    BY <1>2, <1>3, <2>2, HeadThenTail
  <2> QED BY <2>1, <2>2
<1>9. /\ fifo' \in Seq(Event) /\ Len(fifo') = Len(t) + Len(evs)
      /\ taken' \in Seq(Event) /\ queue' \in Seq(Event)
  BY <1>1, <1>3, <1>4, <1>7, ConcatProperties, AppendProperties, ZenonT(60)
<1>10. Len(fifo') <= nb_fifo_events
  <2>1. Len(t) + Len(evs) <= Len(fifo)
    BY <1>4, <1>7
  <2> QED BY <2>1, <1>3, <1>4, <1>7, <1>9
<1>11. QueuedOnlyWhenFull'
  <2> SUFFICES ASSUME rest # <<>> PROVE ~ready'
    BY <1>1 DEF QueuedOnlyWhenFull
  <2>1. queue # <<>> /\ ~ready /\ Len(evs) = 1
    BY <1>2, <1>7
  <2> QED BY <2>1, <1>3, <1>4, <1>9 DEF ready
<1>12. InOrder'
  <2>1. Append(taken, h) \in Seq(Event) /\ taken \o fifo \in Seq(Event)
    BY <1>3, <1>4, AppendProperties, ConcatProperties
  <2>2. Append(taken, h) \o (t \o evs) = (Append(taken, h) \o t) \o evs
    <3> DEFINE a == Append(taken, h)
    <3>1. a \in Seq(Event)
      BY <2>1
    <3> HIDE DEF a
    <3>2. (a \o t) \o evs = a \o (t \o evs)
      <4>1. t \in Seq(Event) /\ evs \in Seq(Event)
        BY <1>4, <1>7
      <4> QED BY <3>1, <4>1, ConcatAssociative, SMTT(20)
    <3> QED BY <3>2 DEF a
  <2>3. ((taken \o fifo) \o evs) \o rest = (taken \o fifo) \o (evs \o rest)
    <3> DEFINE a == taken \o fifo
    <3>1. a \in Seq(Event)
      BY <2>1
    <3> HIDE DEF a
    <3>2. (a \o evs) \o rest = a \o (evs \o rest)
      BY <1>7, <3>1, ConcatAssociative
    <3> QED BY <3>2 DEF a
  <2> QED BY <1>1, <1>5, <1>8, <2>2, <2>3 DEF InOrder, IInv
<1>13. \A e \in Event : Count(queue, e) = Count(evs, e) + Count(rest, e)
  <2> SUFFICES ASSUME NEW e \in Event
               PROVE  Count(queue, e) = Count(evs, e) + Count(rest, e)
    OBVIOUS
  <2>1. CASE queue = <<>>
    BY <2>1, <1>2, CountEmpty
  <2>2. CASE queue # <<>>
    <3> DEFINE x == Head(queue)
    <3>1. evs = <<x>> /\ rest = Tail(queue)
      BY <2>2, <1>2
    <3>2. Count(queue, e) = Count(rest, e) + (IF x = e THEN 1 ELSE 0)
      BY <1>3, <2>2, <3>1, CountTail
    <3> HIDE DEF x
    <3>3. Count(evs, e) = IF x = e THEN 1 ELSE 0
      BY <3>1, CountOne
    <3>4. Count(rest, e) \in Nat
      BY <1>7, CountType
    <3> QED BY <3>2, <3>3, <3>4
  <2> QED BY <2>1, <2>2
<1>14. \A e \in Event : Count(evs, e) \in Nat /\ Count(rest, e) \in Nat
  BY <1>7, CountType
<1>15. /\ nb_waiting_events' =
             [e \in Event |-> nb_waiting_events[e] - Count(evs, e)]
       /\ \A e \in Event : nb_waiting_events[e] = Count(queue, e)
  BY <1>1 DEF uncount, Count, At, IInv, WaitingIsCounted
<1>16. \A e \in Event : nb_waiting_events'[e] = Count(rest, e)
  BY <1>13, <1>14, <1>15
<1>17. \A e \in Event : nb_waiting_events'[e] \in 0 .. MaxWaiting
  BY <1>3, <1>13, <1>14, <1>15
<1>18. nb_waiting_events' \in [Event -> 0 .. MaxWaiting]
  BY <1>15, <1>17
<1>19. WaitingIsCounted'
  BY <1>1, <1>16 DEF WaitingIsCounted, Count, At
<1> QED BY <1>1, <1>9, <1>10, <1>11, <1>12, <1>18, <1>19

\* It leaves the interrupt pending while there is more to read.
LEMMA ReadFifoStep ==
  ASSUME IInv, ReadFifo
  PROVE  IInv'
<1> DEFINE s == status \cup raised_by_pop(Tail(fifo))
                       \cup raised_by_push(Tail(fifo), fifo')
<1>1. /\ drive(s, mask)
      /\ served' = (handler # NoIrq)
      /\ UNCHANGED <<ack, input_status, fc_mask, sw_event, triggering, handler,
                     accepted, inputs>>
  BY DEF ReadFifo, itc_fifo_ioReq, itc_status_setValue
<1>2. s \in SUBSET Irq /\ mask \in SUBSET Irq
  BY FifoIrqIsAnIrq DEF raised_by_pop, raised_by_push, IInv, TypeOK, ItcTypeOK
<1>3. fifo' # <<>> => fifo_irq \in s
  BY DEF raised_by_pop, raised_by_push
<1> HIDE DEF s
<1>4. /\ status' = s /\ mask' = mask /\ WireIsCurrent'
      /\ sync_irq' \in Irq \cup {NoIrq} /\ irq_req' \in Irq \cup {NoIrq}
  BY <1>1, <1>2, DriveWire
<1>5. RaisedOrServed'
  BY <1>3, <1>4 DEF RaisedOrServed
<1>6. TypeOK'
  BY <1>1, <1>2, <1>4, ReadFifoWay DEF IInv, TypeOK, ItcTypeOK
<1> QED BY <1>4, <1>5, <1>6, ReadFifoWay DEF IInv

\* The acknowledge of the interrupt clears its status; if it is the FIFO's,
\* its handler has begun and has still to read.
LEMMA TakeIrqStep ==
  ASSUME IInv, NEW irq \in Irq, TakeIrq(irq)
  PROVE  IInv'
<1>1. /\ handler = NoIrq /\ irq_ack_sync(irq)
      /\ handler' = irq /\ served' = FALSE
      /\ ack' = ack \cup {irq}
      /\ UNCHANGED <<input_status, fifo, soc_eu, accepted, taken, inputs>>
  BY DEF TakeIrq, irq_ack_sync
<1>2. /\ status' = status \ {irq} /\ mask' = mask /\ WireIsCurrent'
      /\ sync_irq' \in Irq \cup {NoIrq} /\ irq_req' \in Irq \cup {NoIrq}
  BY <1>1, AckWire
<1>3. TypeOK'
  BY <1>1, <1>2 DEF IInv, TypeOK, ItcTypeOK, soc_eu
<1>4. UNCHANGED way
  BY <1>1 DEF way, soc_eu
<1>5. RaisedOrServed'
  BY <1>1, <1>2, FifoIrqIsAnIrq DEF RaisedOrServed, IInv
<1> QED BY <1>2, <1>3, <1>4, <1>5, WayUnchanged DEF IInv

\* The handler of the FIFO has read before it returns, so what is left in the
\* ring has its interrupt pending.
LEMMA ReturnFromIrqStep ==
  ASSUME IInv, ReturnFromIrq
  PROVE  IInv'
<1>1. /\ handler = fifo_irq => served
      /\ handler' = NoIrq /\ served' = FALSE
      /\ UNCHANGED <<irqs, fifo, soc_eu, accepted, taken, inputs>>
  BY DEF ReturnFromIrq
<1>2. TypeOK' /\ WireIsCurrent' /\ RaisedOrServed'
  BY <1>1 DEF IInv, TypeOK, ItcTypeOK, soc_eu, irqs, WireIsCurrent, RaisedOrServed
<1>3. UNCHANGED way
  BY <1>1 DEF way, soc_eu
<1> QED BY <1>2, <1>3, WayUnchanged DEF IInv

\* Writes to the registers of the interrupt controller and its input lines
\* drive the wire, and leave the interrupt of the FIFO pending.
LEMMA DrivingStep ==
  ASSUME IInv, NEW s \in SUBSET Irq, NEW m \in SUBSET Irq, drive(s, m),
         fifo_irq \in status => fifo_irq \in s,
         ack' \subseteq Irq, input_status' \subseteq Irq, inputs' \in Nat,
         UNCHANGED <<fifo, soc_eu, fc, accepted, taken>>
  PROVE  IInv'
<1>1. /\ status' = s /\ mask' = m /\ WireIsCurrent'
      /\ sync_irq' \in Irq \cup {NoIrq} /\ irq_req' \in Irq \cup {NoIrq}
  BY DriveWire
<1>2. TypeOK' /\ RaisedOrServed'
  BY <1>1 DEF IInv, TypeOK, ItcTypeOK, soc_eu, fc, RaisedOrServed
<1>3. UNCHANGED way
  BY DEF way, soc_eu
<1> QED BY <1>1, <1>2, <1>3, WayUnchanged DEF IInv

\* Steps that touch neither the interrupts nor the way of the events.
LEMMA QuietStep ==
  ASSUME IInv, UNCHANGED <<status, mask, sync_irq, irq_req, input_status>>,
         UNCHANGED <<way, handler>>,
         ack' \subseteq Irq, fc_mask' \subseteq Event, sw_event' \subseteq FcEvent,
         triggering' \subseteq FcEvent, inputs' \in Nat, served' \in BOOLEAN,
         fifo # <<>> => served' = served
  PROVE  IInv'
<1>1. TypeOK' /\ WireIsCurrent' /\ RaisedOrServed'
  BY DEF IInv, TypeOK, ItcTypeOK, way, WireIsCurrent, RaisedOrServed
<1> QED BY <1>1, WayUnchanged DEF IInv, way

\* The reset empties the ring and the queue together.
LEMMA ResetStep ==
  ASSUME IInv, Reset
  PROVE  IInv'
<1> USE DEF Reset, ItcReset
<1>1. <<>> \in Seq(Event) /\ Len(<<>>) = 0
  BY EmptySeq
<1>2. TypeOK'
  <2>1. ItcTypeOK'
    BY <1>1, ItcAssumption DEF IInv, TypeOK, ItcTypeOK
  <2>2. nb_waiting_events' \in [Event -> 0 .. MaxWaiting]
    BY SocEuAssumption
  <2> QED BY <1>1, <2>1, <2>2 DEF TypeOK
<1>3. InOrder'
  BY <1>1, ConcatEmptySeq DEF InOrder
<1>4. WaitingIsCounted'
  BY CountEmpty DEF WaitingIsCounted, Count, At
<1>5. WireIsCurrent'
  BY DEF WireIsCurrent, Highest
<1> QED BY <1>2, <1>3, <1>4, <1>5 DEF IInv, QueuedOnlyWhenFull, RaisedOrServed

-----------------------------------------------------------------------------
\* Every step keeps the invariant.
LEMMA NextIInv == IInv /\ [Next]_vars => IInv'
<1> SUFFICES ASSUME IInv, [Next]_vars PROVE IInv'
  OBVIOUS
<1>0. /\ status \subseteq Irq /\ mask \subseteq Irq /\ ack \subseteq Irq
      /\ input_status \subseteq Irq /\ fc_mask \subseteq Event
      /\ sw_event \subseteq FcEvent /\ triggering \subseteq FcEvent
      /\ inputs \in Nat /\ served \in BOOLEAN
  BY DEF IInv, TypeOK, ItcTypeOK
<1>1. CASE \E e \in Event : EventIn(e)
  BY <1>1, EventInStep
<1>2. ASSUME NEW value \in SUBSET FcEvent, AccessSwEvent(value) PROVE IInv'
  BY <1>0, <1>2, QuietStep DEF AccessSwEvent, irqs, fc, way
<1>3. CASE TriggerSwEvent
  BY <1>3, TriggerSwEventStep
<1>4. ASSUME NEW value \in SUBSET Event, FcMaskWrite(value) PROVE IInv'
  BY <1>0, <1>4, QuietStep DEF FcMaskWrite, irqs, fc, way
<1>5. CASE ReadFifo
  BY <1>5, ReadFifoStep
<1>6. CASE HandlerReadsNothing
  BY <1>0, <1>6, QuietStep DEF HandlerReadsNothing, irqs, soc_eu, way
<1>7. CASE \E irq \in Irq : TakeIrq(irq)
  BY <1>7, TakeIrqStep
<1>8. CASE ReturnFromIrq
  BY <1>8, ReturnFromIrqStep
<1>9. ASSUME NEW value \in SUBSET Irq, WriteMask(value) PROVE IInv'
  <2>1. drive(status, value) /\ UNCHANGED <<ack, input_status, inputs>>
        /\ UNCHANGED <<fifo, soc_eu, fc, accepted, taken>>
    BY <1>9 DEF WriteMask, MaskWrite
  <2> QED BY <1>0, <2>1, DrivingStep
<1>10. ASSUME NEW value \in SUBSET SwIrq, WriteStatus(value) PROVE IInv'
  <2> DEFINE s == value \cup (status \ SwIrq)
  <2>1. drive(s, mask) /\ UNCHANGED <<ack, input_status>> /\ inputs' = inputs + 1
        /\ UNCHANGED <<fifo, soc_eu, fc, accepted, taken>>
    BY <1>10 DEF WriteStatus, StatusWrite, itc_status_setValue
  <2>2. s \in SUBSET Irq /\ (fifo_irq \in status => fifo_irq \in s)
    BY <1>0, SocEuAssumption
  <2> HIDE DEF s
  <2> QED BY <1>0, <2>1, <2>2, DrivingStep
<1>11. CASE ClearAck
  BY <1>0, <1>11, QuietStep DEF ClearAck, AckWrite, soc_eu, fc, way
<1>12. ASSUME NEW i \in InIrq, InEvent(i) PROVE IInv'
  <2> DEFINE s == status \cup {i}
  <2>1. drive(s, mask) /\ UNCHANGED <<fifo, soc_eu, fc, accepted, taken>>
    BY <1>12 DEF InEvent, in_event_sync
  <2>2. i \in Irq /\ s \in SUBSET Irq /\ (fifo_irq \in status => fifo_irq \in s)
    BY <1>0, SocEuAssumption
  <2>3. ack' \subseteq Irq /\ input_status' \subseteq Irq /\ inputs' \in Nat
    BY <1>0, <1>12, <2>2 DEF InEvent, in_event_sync
  <2> HIDE DEF s
  <2> QED BY <1>0, <2>1, <2>2, <2>3, DrivingStep
<1>13. CASE Reset
  BY <1>13, ResetStep
<1>14. CASE UNCHANGED vars
  BY <1>0, <1>14, QuietStep DEF vars, irqs, soc_eu, fc, way
<1> QED BY <1>1, <1>2, <1>3, <1>4, <1>5, <1>6, <1>7, <1>8, <1>9, <1>10, <1>11,
           <1>12, <1>13, <1>14 DEF Next

\* The inductive invariant of the way of a SoC event.
THEOREM Invariance == Spec => []IInv
<1> QED BY InitIInv, NextIInv, PTL DEF Spec

\* The state stays typed; the counts of waiting events never leave 0 .. 4.
THEOREM TypeCorrect == Spec => []TypeOK
<1>1. IInv => TypeOK
  BY DEF IInv
<1> QED BY <1>1, Invariance, PTL

\* What the FC has read, what the ring holds and what waits in the queue are
\* the events that were kept, in the order they came: soc_eu's trigger_event
\* and the refill by the ITC lose, double and overtake none.
THEOREM EventsInOrder == Spec => []InOrder
<1>1. IInv => InOrder
  BY DEF IInv
<1> QED BY <1>1, Invariance, PTL

\* Events wait in the queue of the SoC event unit only while the ring is full.
THEOREM QueueOnlyWhenFull == Spec => []QueuedOnlyWhenFull
<1>1. IInv => QueuedOnlyWhenFull
  BY DEF IInv
<1> QED BY <1>1, Invariance, PTL

\* nb_waiting_events counts the queue: no event is dropped early.
THEOREM DropsAreExact == Spec => []WaitingIsCounted
<1>1. IInv => WaitingIsCounted
  BY DEF IInv
<1> QED BY <1>1, Invariance, PTL

\* The request at the core is the highest pending and enabled interrupt, and
\* the ITC knows what it last sent.
THEOREM WireStaysCurrent == Spec => []WireIsCurrent
<1>1. IInv => WireIsCurrent
  BY DEF IInv
<1> QED BY <1>1, Invariance, PTL

\* A ring that holds an event has its interrupt pending, or a handler that
\* will read: no acknowledge loses the interrupt.
THEOREM NoInterruptLost == Spec => []RaisedOrServed
<1>1. IInv => RaisedOrServed
  BY DEF IInv
<1> QED BY <1>1, Invariance, PTL

=============================================================================
