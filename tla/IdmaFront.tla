----------------------------- MODULE IdmaFront ------------------------------
(***************************************************************************)
(* The front half of the iDMA of models/ips/pulp/idma_v3: the register     *)
(* front-end (fe/idma_fe_reg.cpp), which launches transfers and counts     *)
(* their completions, and the ND mid-end (me/idma_me_nd.cpp), which queues *)
(* them and splits them into lines.                                        *)
(*                                                                         *)
(* One stream.  The state of all blocks is one record, transformed by      *)
(* operators with the names of the functions; clock events are given by    *)
(* the cycles until they fire.                                             *)
(***************************************************************************)
EXTENDS Integers, FiniteSetsExt, TimedFifo

CONSTANTS NbPorts,          \* register ports
          req_fifo_depth, nb_dims, launch_bubble,
          IdMod             \* 2^32 in the code: identifiers are below

FIRST_ID == 2
NoEvent == -1
None == [none |-> TRUE]
Port == 0 .. NbPorts - 1

ASSUME IdmaFrontAssumption ==
    /\ NbPorts \in Nat \ {0} /\ req_fifo_depth \in Nat \ {0}
    /\ nb_dims \in 1 .. 3 /\ launch_bubble \in Nat
    /\ IdMod \in Nat /\ IdMod > FIRST_ID

\* ClockEvent::enqueue: the earliest request of an event counts.
enqueue(d, event, cycles) ==
    IF d[event] = NoEvent \/ cycles < d[event]
    THEN [d EXCEPT ![event] = cycles] ELSE d

\* Faulty: the cycle is not remembered.
wake_forgetful(d, cycles) == enqueue(d, "tick", cycles)

\* IdmaBackend::wake: the tick is asked for, and the cycle remembered in case
\* the tick is already pending for an earlier one.
wake(d, cycles) ==
    enqueue([d EXCEPT !.wake_targets = @ \cup {cycles}], "tick", cycles)

-----------------------------------------------------------------------------
(***************************************************************************)
(* The mid-end.  A request stays at the head of the queue until its last   *)
(* line is handed over; line counts the lines handed over.                 *)
(***************************************************************************)
reps(req, i) ==
    IF req.nd >= i /\ nb_dims > i /\ req.reps[i] # 0 THEN req.reps[i] ELSE 1

\* The address of a line: the second strides after every line, the third
\* strides instead when the second dimension wraps.
line_addr(req, base, stride, line) ==
    LET wraps == line \div reps(req, 1)
    IN  base + (line - wraps) * stride[1] + wraps * stride[2]

build_1d(entry, line) ==
    LET req == entry.req
    IN  [nr |-> entry.nr, line |-> line, length |-> req.length,
         src |-> line_addr(req, req.src, req.src_stride, line),
         dst |-> line_addr(req, req.dst, req.dst_stride, line),
         decouple_rw |-> req.decouple_rw, decouple_aw |-> req.decouple_aw,
         super_last |-> line + 1 >= reps(req, 1) * reps(req, 2)]

peek_1d(d) ==
    IF d.line > 0 \/ head_visible(d.queue)
    THEN build_1d(head(d.queue), d.line) ELSE None

\* Faulty: the front-end is not told that a slot is free.
take_1d_silent(d) ==
    IF peek_1d(d).super_last
    THEN [d EXCEPT !.queue = pop(@), !.line = 0]
    ELSE [d EXCEPT !.line = @ + 1]

take_1d(d) ==
    IF peek_1d(d).super_last
    THEN enqueue([d EXCEPT !.queue = pop(@), !.line = 0], "ready", 1)
    ELSE [d EXCEPT !.line = @ + 1]

\* Faulty: every line completes the transfer.
complete_1d_each(d, req, force_last) ==
    enqueue([d EXCEPT !.pending_done = @ + 1], "done", 1)

\* complete_1d() and stream_done(), which it calls for the last line.
complete_1d(d, req, force_last) ==
    IF req.super_last \/ force_last
    THEN enqueue([d EXCEPT !.pending_done = @ + 1], "done", 1)
    ELSE d

-----------------------------------------------------------------------------
(***************************************************************************)
(* The front-end.                                                          *)
(***************************************************************************)
\* The counters skip the identifiers below FIRST_ID when they wrap.
next_identifier(id) == IF (id + 1) % IdMod < FIRST_ID THEN FIRST_ID ELSE id + 1

\* A read of NEXT_ID on port p whose registers describe tr: launched, or denied
\* while the queue is full.  The wire to the power model goes busy.
launch(d, p, tr) ==
    LET delay == IF d.busy THEN 0 ELSE launch_bubble
        nr == Len(d.launched) + 1
        e == [d EXCEPT !.next_id = next_identifier(@),
                       !.queue = push(@, [nr |-> nr, req |-> tr], delay),
                       !.launch_pending[p] = None,
                       !.launched = Append(@, tr)]
    IN  IF can_push(d.queue, req_fifo_depth)
        THEN [wake(e, 1 + delay) EXCEPT !.busy = TRUE]
        ELSE [d EXCEPT !.launch_pending[p] = tr]

\* stream_ready(): the denied launches are tried again, round-robin, while
\* the queue takes them.
retry_port(d) ==
    LET p == d.rr_port
        e == [d EXCEPT !.rr_port = (p + 1) % NbPorts]
    IN  IF ~can_push(d.queue, req_fifo_depth) THEN d
        ELSE IF d.launch_pending[p] = None THEN e
        ELSE launch(e, p, d.launch_pending[p])

stream_ready(d) ==
    LET tried[n \in 0 .. NbPorts] == IF n = 0 THEN d ELSE retry_port(tried[n - 1])
    IN  tried[NbPorts]

\* done_handler() without its call of update_busy() and without the pulses on
\* the completion wires, which go to the event units of the cluster and the FC.
count_done(d) ==
    LET id[n \in 0 .. d.pending_done] ==
            IF n = 0 THEN d.done_id ELSE next_identifier(id[n - 1])
    IN  [d EXCEPT !.done_id = id[d.pending_done],
                  !.counted = @ + d.pending_done,
                  !.pending_done = 0]
=============================================================================
