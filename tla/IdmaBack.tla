------------------------------ MODULE IdmaBack ------------------------------
(***************************************************************************)
(* The back-end of the iDMA with AXI on both sides: the legalizer          *)
(* (be/idma_legalizer.cpp), which cuts lines into bursts, the data path    *)
(* (be/idma_be.cpp, be/idma_buffer.cpp) and the two managers that talk to  *)
(* the bus (be/idma_axi_read.cpp, be/idma_axi_write.cpp).                  *)
(*                                                                         *)
(* Addresses and lengths count words of the bus: the buffer then moves     *)
(* whole words and its lanes go together.  The bus answers a read burst by *)
(* its beats, never in the call that asks for it (IO_REQ_DONE): the code   *)
(* would then free the context of the burst and leave its split waiting    *)
(* for beats.  Beats and acknowledges with an error status are left out.   *)
(***************************************************************************)
EXTENDS IdmaFront

CONSTANTS num_ax_in_flight, meta_fifo_depth, buffer_depth,
          page_size,        \* words a burst may not cross
          nb_write_ctxs,    \* write bursts from address to acknowledge
          raw_coupling      \* a write waits for the first beat of a read

ASSUME IdmaBackAssumption ==
    /\ num_ax_in_flight \in Nat \ {0} /\ meta_fifo_depth \in Nat \ {0}
    /\ buffer_depth \in Nat \ {0} /\ page_size \in Nat \ {0}
    /\ nb_write_ctxs \in Nat \ {0} /\ raw_coupling \in BOOLEAN

-----------------------------------------------------------------------------
(***************************************************************************)
(* The buffer between the two sides.  One word enters per cycle, and it    *)
(* does not leave in that cycle.                                           *)
(***************************************************************************)
buffer_can_push(d) == ~d.pushed /\ Len(d.buffer) < buffer_depth
buffer_push(d, word) == [d EXCEPT !.buffer = Append(@, word), !.pushed = TRUE]
buffer_can_pop(d) == Len(d.buffer) - (IF d.pushed THEN 1 ELSE 0) > 0
buffer_pop(d) == [d EXCEPT !.buffer = Tail(@)]

-----------------------------------------------------------------------------
(***************************************************************************)
(* Write side of the bus.  data_queue has an entry per burst whose data is *)
(* not all taken: whether its address has left.  held_beat is a beat the   *)
(* bus denied, acks the bursts that wait for their acknowledge.            *)
(***************************************************************************)
write_ctxs(d) ==
    Len(d.data_queue) + d.acks + (IF d.held_beat = "last" THEN 1 ELSE 0)

aw_waiting(d) == {i \in DOMAIN d.data_queue : ~d.data_queue[i]}

aw_ready(d) ==
    /\ write_ctxs(d) < nb_write_ctxs
    /\ raw_coupling => Cardinality(aw_waiting(d)) < num_ax_in_flight

issue_aw(d, decouple_aw) ==
    IF ~raw_coupling \/ decouple_aw
    THEN [d EXCEPT !.data_queue = Append(@, TRUE)]
    ELSE [d EXCEPT !.data_queue = Append(@, d.aw_credits > 0),
                   !.aw_credits = IF @ > 0 THEN @ - 1 ELSE 0]

on_read_first_beat(d) ==
    IF ~raw_coupling THEN d
    ELSE IF aw_waiting(d) = {} THEN [d EXCEPT !.aw_credits = @ + 1]
    ELSE wake([d EXCEPT !.data_queue[Min(aw_waiting(d))] = TRUE], 1)

\* complete() and write_burst_done(): the oldest write burst is acknowledged.
write_burst_done(d) ==
    LET slot == head(d.wlast)
        e == [d EXCEPT !.wlast = pop(@)]
    IN  wake(IF slot.last THEN complete_1d(e, slot.req, FALSE) ELSE e, 1)

\* The bus answers a beat: denied, granted, or (the last one) acknowledged.
send_beat(d, is_last, answer) ==
    IF answer = "denied"
    THEN [d EXCEPT !.held_beat = IF is_last THEN "last" ELSE "beat"]
    ELSE IF ~is_last THEN d
    ELSE IF answer = "done" THEN write_burst_done(d)
    ELSE [d EXCEPT !.acks = @ + 1]

write_beat_ready(d) == head_visible(d.w_fifo) /\ buffer_can_pop(d)

write_beat_take(d) ==
    LET slot == head(d.w_fifo)
        last == d.w_beat_idx + 1 = slot.beats
        word == [nr |-> slot.req.nr, line |-> slot.req.line,
                 word |-> slot.first + d.w_beat_idx]
    IN  wake([buffer_pop(d) EXCEPT
                       !.written = Append(@, [data |-> Head(d.buffer), at |-> word]),
                       !.w_beat_idx = IF last THEN 0 ELSE @ + 1,
                       !.w_fifo = IF last THEN pop(@) ELSE @], 1)

\* IdmaAxiWrite::tick: at most one beat.
write_can_tick(d) ==
    /\ d.held_beat = "none"
    /\ d.data_queue # <<>> /\ Head(d.data_queue)
    /\ write_beat_ready(d)
write_tick(d, answer) ==
    LET is_last == d.w_beat_idx + 1 = head(d.w_fifo).beats
        e == write_beat_take(d)
    IN  IF ~write_can_tick(d) THEN d
        ELSE send_beat([e EXCEPT !.data_queue = IF is_last THEN Tail(@) ELSE @],
                       is_last, answer)

-----------------------------------------------------------------------------
(***************************************************************************)
(* Read side of the bus.  held_ar is the length of a burst the bus denied  *)
(* (0: none), reads the beats that are to come of the bursts it granted,   *)
(* held_resp a beat the back-end had no room for.                          *)
(***************************************************************************)
read_ctxs(d) == Len(d.reads) + (IF d.held_ar > 0 THEN 1 ELSE 0)

ar_ready(d) == d.held_ar = 0 /\ read_ctxs(d) < num_ax_in_flight + 1

issue_ar(d, beats, answer) ==
    IF answer = "denied" THEN [d EXCEPT !.held_ar = beats]
    ELSE [d EXCEPT !.reads = Append(@, beats)]

read_beat_can_accept(d) == head_visible(d.r_fifo) /\ buffer_can_push(d)

read_beat_accept(d) ==
    LET slot == head(d.r_fifo)
        last == d.r_beat_idx + 1 = slot.beats
        word == [nr |-> slot.req.nr, line |-> slot.req.line,
                 word |-> slot.first + d.r_beat_idx]
        e == buffer_push(d, word)
        f == IF d.r_beat_idx = 0 /\ ~slot.req.decouple_aw
             THEN on_read_first_beat(e) ELSE e
        reads == IF Head(d.reads) = 1 THEN Tail(d.reads)
                 ELSE [d.reads EXCEPT ![1] = @ - 1]
    IN  wake([f EXCEPT !.r_beat_idx = IF last THEN 0 ELSE @ + 1,
                       !.r_fifo = IF last THEN pop(@) ELSE @,
                       !.reads = reads], 1)

\* IdmaAxiRead::resp_meth: the beat is taken, or left with the bus.
resp_meth(d) ==
    IF read_beat_can_accept(d) THEN read_beat_accept(d)
    ELSE wake([d EXCEPT !.held_resp = TRUE], 1)

retry_held_beat(d) ==
    IF d.held_resp /\ read_beat_can_accept(d)
    THEN read_beat_accept([d EXCEPT !.held_resp = FALSE]) ELSE d

-----------------------------------------------------------------------------
(***************************************************************************)
(* The legalizer.  r_left and w_left are the words of the two sides of req *)
(* that are still to be cut; took says that a request was taken in this    *)
(* cycle.                                                                  *)
(***************************************************************************)
\* A request of no length is answered at once, as the last of its transfer.
take_request(d) ==
    LET req == peek_1d(d)
        e == [take_1d(d) EXCEPT !.took = TRUE]
    IN  IF d.took \/ req = None THEN d
        ELSE IF req.length = 0 THEN complete_1d(e, req, TRUE)
        ELSE [e EXCEPT !.req = req, !.r_left = req.length, !.w_left = req.length]

\* The request behind the current one, if it has no length, does not wait.
bypass(d) ==
    LET next == peek_1d(d)
    IN  IF next # None /\ ~d.took
        THEN IF next.length = 0
             THEN complete_1d([take_1d(d) EXCEPT !.took = TRUE], next, TRUE)
             ELSE d
        ELSE d

\* The words up to the boundary of one side.
burst(base, length, left) ==
    Min({left, page_size - ((base + length - left) % page_size)})
r_burst(d) == IF d.r_left = 0 THEN 0
              ELSE burst(d.req.src, d.req.length, d.r_left)
w_burst(d) == IF d.w_left = 0 THEN 0
              ELSE burst(d.req.dst, d.req.length, d.w_left)

r_ready(d) == d.r_left > 0 /\ can_push(d.r_fifo, num_ax_in_flight) /\ ar_ready(d)
w_ready(d) == /\ d.w_left > 0 /\ can_push(d.w_fifo, num_ax_in_flight)
              /\ can_push(d.wlast, meta_fifo_depth) /\ aw_ready(d)

\* Which sides go.  Coupled, both go together.
r_go(d) == r_ready(d) /\ (d.req.decouple_rw \/ w_ready(d))
w_go(d) == w_ready(d) /\ (d.req.decouple_rw \/ r_ready(d))
coupled_to(d, words) ==
    IF d.req.decouple_rw THEN words ELSE Min({r_burst(d), w_burst(d)})

read_split(d, answer) ==
    LET n == coupled_to(d, r_burst(d))
        split == [req |-> d.req, first |-> d.req.length - d.r_left, beats |-> n]
        e == issue_ar(d, n, answer)
    IN  [e EXCEPT !.r_fifo = push(@, split, 0), !.r_left = @ - n]

write_split(d, n) ==
    LET split == [req |-> d.req, first |-> d.req.length - d.w_left, beats |-> n]
        e == issue_aw(d, d.req.decouple_aw)
    IN  [e EXCEPT !.w_fifo = push(@, split, 0),
                  !.wlast = push(@, [req |-> d.req, last |-> n = d.w_left], 0),
                  !.w_left = @ - n]

\* The splits of one cycle; what both may do is decided before either is made.
cut(d, answer) ==
    LET n == coupled_to(d, w_burst(d))
        e == IF r_go(d) THEN read_split(d, answer) ELSE d
    IN  IF w_go(d) THEN write_split(e, n) ELSE e

\* Faulty: the next request is taken when the reads of this one are cut.
all_cut_reads(d) == d.r_left = 0

all_cut(d) == d.r_left = 0 /\ d.w_left = 0

step(d, answer) ==
    IF all_cut(d) THEN take_request(d)
    ELSE LET e == cut(bypass(d), answer)
         IN  IF all_cut(e) THEN take_request([e EXCEPT !.req = None]) ELSE e

-----------------------------------------------------------------------------
\* The end of a tick: it is asked for again while something moved, and for the
\* cycles that were remembered.
rearm(d, active) ==
    LET e == IF active THEN enqueue(d, "tick", 1) ELSE d
    IN  IF e.wake_targets = {} THEN e
        ELSE enqueue(e, "tick", Min(e.wake_targets))

be_is_busy(d) ==
    \/ d.buffer # <<>> \/ d.r_left > 0 \/ d.w_left > 0
    \/ ~is_empty(d.r_fifo) \/ ~is_empty(d.w_fifo) \/ ~is_empty(d.wlast)
    \/ read_ctxs(d) > 0 \/ write_ctxs(d) > 0

is_busy(d) == ~is_empty(d.queue) \/ be_is_busy(d)

\* Faulty: the wire goes low with every completion.
done_handler_low(d) == [count_done(d) EXCEPT !.busy = FALSE]

done_handler(d) == LET e == count_done(d) IN [e EXCEPT !.busy = is_busy(e)]

\* The next cycle begins.
next_cycle(d) ==
    LET closer(cycles) == IF cycles = NoEvent THEN NoEvent ELSE cycles - 1
    IN  [d EXCEPT !.tick = closer(@), !.ready = closer(@), !.done = closer(@),
                  !.wake_targets = {n - 1 : n \in @},
                  !.queue = clocked(@), !.r_fifo = clocked(@),
                  !.w_fifo = clocked(@), !.wlast = clocked(@),
                  !.took = FALSE, !.pushed = FALSE]
=============================================================================
