--------------------------- MODULE MCH264Element ---------------------------
(* The instance of MCH264Decoder with the client's reference list.         *)
EXTENDS MCH264Decoder, H264Element
=============================================================================
