------------------------------- MODULE MCIdma -------------------------------
EXTENDS Idma

Simple == [src |-> 0, dst |-> 0, length |-> 1, nd |-> 0, reps |-> <<0, 0>>,
           src_stride |-> <<0, 0>>, dst_stride |-> <<0, 0>>,
           decouple_rw |-> FALSE, decouple_aw |-> FALSE]

\* A word, three words whose bursts are cut differently on the two sides,
\* four of which the writes are cut into more bursts than the reads, and two
\* lines of two words.
MCTransfers ==
    {Simple,
     [Simple EXCEPT !.length = 3, !.dst = 1],
     [Simple EXCEPT !.length = 4, !.dst = 1, !.decouple_rw = TRUE,
                    !.decouple_aw = TRUE],
     [Simple EXCEPT !.length = 2, !.nd = 1, !.reps = <<2, 0>>,
                    !.src_stride = <<3, 0>>, !.dst_stride = <<2, 0>>]}

\* Transfers of one word and of none.
ZeroTransfers == {Simple, [Simple EXCEPT !.length = 0]}
=============================================================================
