-------------------------------- MODULE Idma --------------------------------
(***************************************************************************)
(* A register-driven iDMA at work: software launches transfers, the bus    *)
(* grants, denies and answers bursts when it likes, and the clock events   *)
(* of the iDMA run in their cycles.  There is no polling: the back-end     *)
(* moves only in its tick, which every callback that ends a stall has to   *)
(* ask for.                                                                *)
(*                                                                         *)
(* Callbacks and events of one cycle come in any order.  External: the     *)
(* bus, which answers bursts in order, and the software.                   *)
(***************************************************************************)
EXTENDS IdmaBack

CONSTANTS Transfers,        \* what software writes into the registers of a port
          MaxLaunch         \* bound: transfers

Transfer == [src : Nat, dst : Nat, length : Nat, nd : 0 .. 2, reps : Nat \X Nat,
             src_stride : Int \X Int, dst_stride : Int \X Int,
             decouple_rw : BOOLEAN, decouple_aw : BOOLEAN]

ASSUME IdmaAssumption == MaxLaunch \in Nat /\ Transfers \subseteq Transfer

VARIABLE d
vars == <<d>>

Word == [nr : 1 .. MaxLaunch, line : Nat, word : Nat]
Distance == Nat \cup {NoEvent}

TypeOK ==
    /\ d.next_id \in FIRST_ID .. IdMod - 1 /\ d.done_id \in FIRST_ID - 1 .. IdMod - 1
    /\ d.pending_done \in Nat /\ d.counted \in Nat /\ d.busy \in BOOLEAN
    /\ d.rr_port \in Port
    /\ d.launch_pending \in [Port -> Transfers \cup {None}]
    /\ {d.tick, d.ready, d.done} \subseteq Distance
    /\ d.wake_targets \subseteq Nat
    /\ d.buffer \in Seq(Word) /\ Len(d.buffer) <= buffer_depth
    /\ Len(d.wlast.queue) <= meta_fifo_depth
    /\ Len(d.r_fifo.queue) <= num_ax_in_flight
    /\ Len(d.w_fifo.queue) <= num_ax_in_flight
    /\ Len(d.queue.queue) <= req_fifo_depth
    /\ d.reads \in Seq(Nat \ {0}) /\ d.held_ar \in Nat /\ d.held_resp \in BOOLEAN
    /\ d.data_queue \in Seq(BOOLEAN) /\ d.aw_credits \in Nat /\ d.acks \in Nat
    /\ d.held_beat \in {"none", "beat", "last"}

Init ==
    d = [next_id |-> FIRST_ID, done_id |-> FIRST_ID - 1, pending_done |-> 0,
         launch_pending |-> [p \in Port |-> None], rr_port |-> 0,
         busy |-> FALSE,
         tick |-> NoEvent, ready |-> NoEvent, done |-> NoEvent,
         wake_targets |-> {},
         queue |-> NewFifo, line |-> 0,
         req |-> None, r_left |-> 0, w_left |-> 0, took |-> FALSE,
         r_fifo |-> NewFifo, w_fifo |-> NewFifo, wlast |-> NewFifo,
         r_beat_idx |-> 0, w_beat_idx |-> 0,
         buffer |-> <<>>, pushed |-> FALSE,
         held_ar |-> 0, reads |-> <<>>, held_resp |-> FALSE,
         data_queue |-> <<>>, aw_credits |-> 0, held_beat |-> "none",
         acks |-> 0,
         launched |-> <<>>,     \* history: the transfers launched
         counted |-> 0,         \* history: completions counted in done_id
         written |-> <<>>]      \* history: words written, and where to

-----------------------------------------------------------------------------
Waiting == {p \in Port : d.launch_pending[p] # None}

\* A port whose launch was denied waits for its retry.
Launch(p, tr) ==
    /\ p \notin Waiting
    /\ Len(d.launched) + Cardinality(Waiting) < MaxLaunch
    /\ d' = launch(d, p, tr)

\* tick_handler(): the legalizer, the write manager, then the read manager.
\* Each works on what the one before left (the singletons name that).
Tick(ar_answer, w_answer) ==
    /\ d.tick = 0
    /\ \E d0 \in {[d EXCEPT !.tick = NoEvent, !.wake_targets = @ \ {0}]} :
       \E d1 \in {step(d0, ar_answer)} :
       \E d2 \in {write_tick(d1, w_answer)} :
       \E d3 \in {retry_held_beat(d2)} :
            d' = rearm(d3, d1 # d0 \/ d2 # d1)

Ready == d.ready = 0 /\ d' = stream_ready([d EXCEPT !.ready = NoEvent])

Done == d.done = 0 /\ d' = done_handler([d EXCEPT !.done = NoEvent])

Cycle ==
    /\ 0 \notin {d.tick, d.ready, d.done}
    /\ d' = next_cycle(d)

\* The bus.  A denied burst or beat is offered again, a read answers beat by
\* beat, a write is acknowledged.
RetryRead ==
    /\ d.held_ar > 0
    /\ d' = wake([d EXCEPT !.reads = Append(@, d.held_ar), !.held_ar = 0], 1)

ReadBeat ==
    /\ d.reads # <<>> /\ ~d.held_resp
    /\ d' = resp_meth(d)

RetryWrite(answer) ==
    LET e == send_beat([d EXCEPT !.held_beat = "none"], d.held_beat = "last", answer)
    IN  /\ d.held_beat # "none" /\ answer # "denied"
        /\ answer = "done" => d.acks = 0
        /\ d' = wake(e, 1)

WriteAck ==
    /\ d.acks > 0
    /\ d' = write_burst_done([d EXCEPT !.acks = @ - 1])

Answer == {"denied", "granted", "done"}

Next ==
    \/ \E p \in Port, tr \in Transfers : Launch(p, tr)
    \/ \E ar_answer \in {"denied", "granted"}, w_answer \in Answer :
        (w_answer = "done" => d.acks = 0) /\ Tick(ar_answer, w_answer)
    \/ Ready \/ Done \/ Cycle
    \/ RetryRead \/ ReadBeat \/ WriteAck
    \/ \E answer \in Answer : RetryWrite(answer)

\* Time goes on, an event that is due runs (only it makes its distance other
\* than 0), and the bus serves what it was given.  The last three say
\* WF_vars(...), with what enables the action spelt out for TLC.
Fairness ==
    /\ WF_vars(Cycle) /\ WF_vars(RetryRead)
    /\ []<>(d.tick # 0) /\ []<>(d.ready # 0) /\ []<>(d.done # 0)
    /\ []<>(d.reads = <<>> \/ d.held_resp) \/ []<><<ReadBeat>>_vars
    /\ []<>(d.acks = 0) \/ []<><<WriteAck>>_vars
    /\ []<>(d.held_beat = "none") \/ []<><<RetryWrite("granted")>>_vars

Spec == Init /\ [][Next]_vars /\ Fairness

-----------------------------------------------------------------------------
(***************************************************************************)
(* Properties.                                                             *)
(***************************************************************************)
\* The lines of a transfer, and the words of the transfers before number n.
Lines(tr) == reps(tr, 1) * reps(tr, 2)
WordsBefore(launched) ==
    LET words[n \in 1 .. Len(launched) + 1] ==
            IF n = 1 THEN 0
            ELSE words[n - 1] + Lines(launched[n - 1]) * launched[n - 1].length
    IN  words

\* A word that some transfer copies, and how many are copied before it.
IsWord(launched, w) ==
    /\ w.nr \in DOMAIN launched /\ w.line \in 0 .. Lines(launched[w.nr]) - 1
    /\ w.word \in 0 .. launched[w.nr].length - 1
Place(launched, w) ==
    WordsBefore(launched)[w.nr] + w.line * launched[w.nr].length + w.word

\* Every word is copied once, in order, to its own place: the bursts of the two
\* sides may be cut differently and overlap, but the word a write beat takes
\* from the buffer is the one its address is for, and the next one.  A place is
\* a line and a position in it; the strides that make it an address are taken
\* as take_1d() computes them.
WordsInOrder ==
    \A i \in DOMAIN d.written :
        /\ d.written[i].data = d.written[i].at
        /\ IsWord(d.launched, d.written[i].at)
        /\ Place(d.launched, d.written[i].at) = i - 1

\* The transfer has left the iDMA.
Finished(nr) ==
    /\ nr \notin {r.nr : r \in Entries(d.queue)}
    /\ d.req # None => d.req.nr # nr
    /\ nr \notin {s.req.nr : s \in Entries(d.r_fifo) \cup Entries(d.w_fifo)
                                       \cup Entries(d.wlast)}

\* DONE_ID counts in order: when it has counted n transfers, the first n that
\* were launched have been written and acknowledged to the last word.
DoneIdTracks ==
    /\ d.counted + d.pending_done <= Len(d.launched)
    /\ \A nr \in 1 .. d.counted + d.pending_done : Finished(nr)

\* Nothing sleeps: while no tick is asked for, a tick would find nothing to
\* do.  Every callback that ends a stall of the legalizer, of the write side
\* or of a held beat has asked for one.
NothingSleeps ==
    LET n == next_cycle(d)
    IN  d.tick = NoEvent => /\ step(n, "granted") = n
                            /\ ~write_can_tick(n)
                            /\ ~(n.held_resp /\ read_beat_can_accept(n))

\* The busy wire is never low while a transfer is queued or in flight.
BusyCovers == is_busy(d) => d.busy

\* Every launch ends: a denied one is retried, and every transfer is copied
\* and counted, so that DONE_ID meets the identifier last given and the busy
\* wire goes low.
AllDone ==
    <>[](/\ Waiting = {} /\ d.counted = Len(d.launched) /\ ~d.busy
         /\ next_identifier(d.done_id) = d.next_id)
=============================================================================
