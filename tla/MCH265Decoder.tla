--------------------------- MODULE MCH265Decoder ---------------------------
(* Values of the constants of H265Decoder for TLC.                         *)
EXTENDS H265Decoder

Sps(resolution, size, buffering, reorder, latency) ==
    [res |-> resolution, size |-> size, buffering |-> buffering, reorder |-> reorder,
     latency |-> latency]

Entry(curr, foll, longCurr, longFoll) ==
    [st_curr |-> curr, st_foll |-> foll, lt_curr |-> longCurr, lt_foll |-> longFoll]

(* The second sequence has another resolution and a smaller buffer.        *)
TwoSequences == {Sps(1, 16, 2, 1, 1), Sps(2, 6, 1, 0, 0)}
OneSequence == {Sps(1, 6, 3, 2, 0)}
SmallerThen == OneSequence \union {Sps(2, 6, 2, 1, 0)}

(* Pictures without references, one of them not output; and one that       *)
(* refers to the picture before, keeps the one before that and a long-term *)
(* reference.                                                              *)
Header(type, lsb, noOutput, out, rps) ==
    [type |-> type, lsb |-> lsb, tid0 |-> TRUE, no_output_of_prior_pics |-> noOutput,
     pic_output_flag |-> out, rps |-> rps]
SomeSlices ==
    {Header("IDR", 0, TRUE, TRUE, NoEntries), Header("CRA", 1, FALSE, TRUE, NoEntries),
     Header("RASL", 0, FALSE, FALSE, NoEntries),
     Header("TRAIL", 2, FALSE, TRUE, Entry({-1}, {-2}, {}, {[poc |-> 0, msb |-> FALSE]}))}

ZeroOnly == {TRUE}
AnyLayer == BOOLEAN
FewTypes == {"IDR", "CRA", "RASL", "TRAIL"}
PocsAround == {-1, 0, 1, 2, 5, 8, 9}
=============================================================================
