---------------------------- MODULE H264Element ----------------------------
(***************************************************************************)
(* The list of reference frames that gst_vk_h264_dec_start_picture         *)
(* (lib/plugins/gstvkh264dec.cpp) hands to the client with a picture.      *)
(***************************************************************************)
EXTENDS H264Decoder
LOCAL INSTANCE SequencesExt

DpbEntries == 17  (* the array has 16 + 1 of them                          *)

Existing(S) == {p \in S : ~p.nonexisting}
InArrayOrder(S) == SetToSortSeq(S, Before)

(* The two loops of start_picture share their index and the second one     *)
(* does not start it again: it skips as many long-term references as there *)
(* are short-term ones.                                                    *)
ReferenceEntries(d) ==
    LET short == InArrayOrder(Existing(ShortTermRefs(d)))
        long == InArrayOrder(LongTermRefs(d))
        filled == short \o SubSeq(long, Len(short) + 1, Len(long))
    IN  {filled[n] : n \in DOMAIN filled \intersect 1..DpbEntries}

(* "List of reference frames within the DPB": every reference frame of the *)
(* buffer is listed for the picture that is decoded.                       *)
EntriesComplete ==
    phase = "slices" =>
        Ids(Existing(ReferenceFrames(dpb))) \subseteq Ids(ReferenceEntries(dpb))
=============================================================================
