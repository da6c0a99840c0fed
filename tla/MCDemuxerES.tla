---------------------------- MODULE MCDemuxerES ----------------------------
(* The pads of DemuxerES for TLC are model values.                         *)
EXTENDS DemuxerES

CONSTANTS video, audio
=============================================================================
