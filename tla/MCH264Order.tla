---------------------------- MODULE MCH264Order ----------------------------
(* Values of the constants of H264Order for TLC.                           *)
EXTENDS MCH264Decoder, H264Order

(* With 16 values of the low bits they wrap upwards from 8 to 16 and       *)
(* downwards from 0 to -2. The others are the counts of types 1 and 2, up  *)
(* to the third or fourth picture of a sequence, after frame_num wrapped.  *)
PocsAround == {-2, 8, 16}
PocsOfAll == PocsAround \union {-1} \union 1..8
GapPocsAround == {-16, 0, 1, 16, 32}
AllTypes == 0..2
TwoOffsets == <<2, 4>>
BeforeReference == -1
BottomFirstOrNot == {0, -1}
=============================================================================
