--------------------------- MODULE MCH264Decoder ---------------------------
(* Values of the constants of H264Decoder for TLC.                         *)
EXTENDS H264Decoder

Sps(size, refs, reorder, gaps, profile, res) ==
    [size |-> size, refs |-> refs, reorder |-> reorder, gaps |-> gaps,
     profile |-> profile, res |-> res]

MCMinPoc == -100

(* Two sequences of one resolution whose buffers differ, the second one    *)
(* without num_reorder_frames.                                             *)
TwoSizes == {Sps(2, 1, 1, TRUE, "other", 1), Sps(1, 1, -1, TRUE, "other", 1)}
OneSize == {Sps(2, 2, 1, FALSE, "other", 1)}
(* The second is refused: num_reorder_frames is larger than the buffer.    *)
Shrinking == {Sps(2, 2, 2, TRUE, "other", 1), Sps(1, 1, 2, FALSE, "other", 1)}
(* The first one without reordering, the second without gaps.              *)
GapsOrNot == {Sps(2, 2, 0, TRUE, "other", 1), Sps(3, 1, 1, FALSE, "other", 2)}
Deep == {Sps(3, 2, 2, FALSE, "other", 1)}

PocsMixed == {0, 2, 4}
PocsUp == {2, 4, 6}
PocsLonger == {2, 4, 6, 8, 10}
GapPocs0 == {0}
Both == BOOLEAN
=============================================================================
