----------------------------- MODULE TimedFifo ------------------------------
(***************************************************************************)
(* IdmaTimedFifo (models/ips/pulp/idma_v3/be/idma_fifo.hpp), the queue     *)
(* between the blocks of the iDMA: an entry is visible some cycles after   *)
(* it was pushed, and a slot freed by a pop is not refilled in its cycle.  *)
(* Cycle numbers are the distances to them.                                *)
(***************************************************************************)
EXTENDS Naturals, Sequences

\* wait: cycles until the entry is visible; popped: pops of this cycle.
NewFifo == [queue |-> <<>>, popped |-> 0]
FifoType(Entry) ==
    [queue : Seq([entry : Entry, wait : Nat]), popped : Nat]

can_push(f, depth) == Len(f.queue) + f.popped < depth
push(f, entry, extra_delay) ==
    [f EXCEPT !.queue = Append(@, [entry |-> entry, wait |-> 1 + extra_delay])]
is_empty(f) == f.queue = <<>>
head_visible(f) == ~is_empty(f) /\ Head(f.queue).wait = 0
head(f) == Head(f.queue).entry
pop(f) == [queue |-> Tail(f.queue), popped |-> f.popped + 1]

Entries(f) == {f.queue[i].entry : i \in DOMAIN f.queue}

\* The next cycle begins.
clocked(f) ==
    [queue |-> [i \in DOMAIN f.queue |->
                    [f.queue[i] EXCEPT !.wait = IF @ = 0 THEN 0 ELSE @ - 1]],
     popped |-> 0]
=============================================================================
