------------------------------ MODULE H264Dpb ------------------------------
(***************************************************************************)
(* The decoded picture buffer of lib/codecs/gsth264picture.c, as operators *)
(* on a value: the C struct becomes a record, its GArray of pictures a set *)
(* of records whose field "order" is the position in the array (pictures   *)
(* are only ever appended, and removals keep the order).                   *)
(*                                                                         *)
(* Streams are progressive (frame_mbs_only_flag = 1): every picture is a   *)
(* frame, second_field is FALSE and other_field is NULL, so the branches   *)
(* of the code on those fields are the ones taken for frames.              *)
(***************************************************************************)
EXTENDS Integers, FiniteSets

CONSTANT MinPoc  (* G_MININT32: "nothing was output yet"                   *)

ASSUME MinPocAssumption == MinPoc \in Int

-----------------------------------------------------------------------------
References == {"none", "short", "long"}

(* Id is the system_frame_number, which also names the client's buffer; a  *)
(* picture inferred for a gap in frame_num has neither, and its id is 0.   *)
Picture ==
    [id: Nat, order: Nat, frame_num: Nat, poc: Int,
     ref: References, ref_pic: BOOLEAN,
     long_term_frame_idx: Nat, long_term_pic_num: Nat,
     needed_for_output: BOOLEAN, nonexisting: BOOLEAN]

Dpb ==
    [pic_list: SUBSET Picture, tail: Nat, max_num_frames: Nat,
     max_num_reorder_frames: Nat, num_output_needed: Int,
     last_output_poc: Int, last_output_non_ref: BOOLEAN]

(* gst_h264_dpb_clear keeps the two limits and the array.                  *)
DpbClear(d) ==
    [d EXCEPT !.pic_list = {}, !.tail = 0, !.num_output_needed = 0,
              !.last_output_poc = MinPoc, !.last_output_non_ref = FALSE]

NewDpb ==
    [pic_list |-> {}, tail |-> 0, max_num_frames |-> 0,
     max_num_reorder_frames |-> 0, num_output_needed |-> 0,
     last_output_poc |-> MinPoc, last_output_non_ref |-> FALSE]

-----------------------------------------------------------------------------
Before(p, q) == p.order < q.order
Ids(S) == {p.id : p \in S}

NeededForOutput(d) == {p \in d.pic_list : p.needed_for_output}
ReferenceFrames(d) == {p \in d.pic_list : p.ref # "none"}
ShortTermRefs(d) == {p \in d.pic_list : p.ref = "short"}
LongTermRefs(d) == {p \in d.pic_list : p.ref = "long"}

HasEmptyFrameBuffer(d) == Cardinality(d.pic_list) < d.max_num_frames

IsLowestOutputNeeded_FirstStored(d, p) ==
    /\ p \in NeededForOutput(d)
    /\ \A q \in NeededForOutput(d) : ~Before(q, p)

(* The first of the pictures with the smallest picture order count.        *)
IsLowestOutputNeeded(d, p) ==
    /\ p \in NeededForOutput(d)
    /\ \A q \in NeededForOutput(d) : p.poc < q.poc \/ (p.poc = q.poc /\ ~Before(q, p))

DpbAdd_CountsNonexisting(d, p) ==
    [d EXCEPT !.pic_list = @ \union {[p EXCEPT !.order = d.tail,
                                               !.needed_for_output = ~p.nonexisting]},
              !.tail = @ + 1,
              !.num_output_needed = @ + 1,
              !.last_output_poc = IF p.poc = 0 THEN MinPoc ELSE @,
              !.last_output_non_ref = IF p.poc = 0 THEN FALSE ELSE @]

(* A picture whose order count is 0 resets the output history: meant for   *)
(* IDR and memory_management_control_operation 5, it is every such picture *)
(* and also the ones inferred for a gap.                                   *)
DpbAdd(d, p) ==
    [d EXCEPT !.pic_list = @ \union {[p EXCEPT !.order = d.tail,
                                               !.needed_for_output = ~p.nonexisting]},
              !.tail = @ + 1,
              !.num_output_needed = IF p.nonexisting THEN @ ELSE @ + 1,
              !.last_output_poc = IF p.poc = 0 THEN MinPoc ELSE @,
              !.last_output_non_ref = IF p.poc = 0 THEN FALSE ELSE @]

Unused_AlsoNeeded(d) == {p \in d.pic_list : p.ref = "none"}
Unused(d) == {p \in d.pic_list : ~p.needed_for_output /\ p.ref = "none"}
DeleteUnused(d) == [d EXCEPT !.pic_list = @ \ Unused(d)]

SetLastOutput(d, p) ==
    [d EXCEPT !.last_output_poc = p.poc, !.last_output_non_ref = ~p.ref_pic]

(* gst_h264_dpb_bump once the lowest picture p is found: p stays in the    *)
(* array, as a reference, unless the buffer is being drained.              *)
Leaves_OnlyDrained(p, drain) == drain
Leaves(p, drain) == drain \/ p.ref = "none"
Output(p) == [p EXCEPT !.needed_for_output = FALSE]

Bump_Peek(d, p, drain) == SetLastOutput(d, p)
Bump(d, p, drain) ==
    [SetLastOutput(d, p) EXCEPT
        !.num_output_needed = @ - 1,
        !.pic_list = (@ \ {p}) \union (IF Leaves(p, drain) THEN {} ELSE {Output(p)})]

-----------------------------------------------------------------------------
(* gst_h264_dpb_needs_bump. "insert" is the set of the picture about to be *)
(* stored, empty where the code passes NULL; "low" is the lowest picture.  *)

Modes == {"normal", "low", "very_low"}

(* "7.4.1.2.2 ... Safe." in the code.                                      *)
ContinuousNonRef(d, low) == d.last_output_non_ref /\ ~low.ref_pic

ReorderSatisfied_OneLess(d, low) ==
    Cardinality({q \in NeededForOutput(d) : Before(q, low)}) + 1 >= d.max_num_reorder_frames

(* "num_reorder_frames ... Safe." in the code.                             *)
ReorderSatisfied(d, low) ==
    Cardinality({q \in NeededForOutput(d) : Before(q, low)}) >= d.max_num_reorder_frames

(* low.poc - last_output_poc is a signed 32-bit subtraction: it overflows  *)
(* when nothing was output yet and low.poc >= 0, and "overflowed" is what  *)
(* the comparison with 2 then yields.                                      *)
AdjacentInOutput(d, low, overflowed) ==
    /\ low.poc > d.last_output_poc
    /\ IF d.last_output_poc = MinPoc /\ low.poc >= 0
       THEN overflowed
       ELSE low.poc - d.last_output_poc <= 2

LowLatencyBump(d, low, insert, mode, overflowed) ==
    \/ ContinuousNonRef(d, low)
    \/ ReorderSatisfied(d, low)
    \/ low.poc < 0 /\ \E p \in insert : p.poc > 0
    \/ /\ low.poc = 0 /\ Cardinality(d.pic_list) <= 1
       /\ \E p \in insert : p.poc > 0
    \/ /\ low.poc # 0 \/ Cardinality(d.pic_list) > 1
       /\ \/ ~low.ref_pic
          \/ \E p \in insert : ~p.ref_pic /\ low.poc < p.poc
          \/ mode = "very_low" /\ AdjacentInOutput(d, low, overflowed)

NormalBump_PocOnly(low, insert) == \E p \in insert : p.poc > low.poc
NormalBump(low, insert) == \E p \in insert : p.ref_pic \/ p.poc > low.poc

NeedsBump(d, low, insert, mode, overflowed) ==
    IF HasEmptyFrameBuffer(d)
    THEN mode # "normal" /\ LowLatencyBump(d, low, insert, mode, overflowed)
    ELSE NormalBump(low, insert)

-----------------------------------------------------------------------------
(* Reference marking (gst_h264_picture_set_reference and section 8.2.5).   *)

Marked(p, reference) ==
    [p EXCEPT !.ref = reference, !.ref_pic = @ \/ reference # "none"]

SetReference(d, S, reference) ==
    [d EXCEPT !.pic_list = {IF p \in S THEN Marked(p, reference) ELSE p : p \in @}]

MarkAllNonRef(d) == SetReference(d, d.pic_list, "none")

(* What gst_h264_decoder_update_pic_nums computes for frames: frame_num_wrap*)
(* (and pic_num) of a short-term reference, seen from a picture whose      *)
(* frame_num is fn, and the long_term_pic_num of the long-term ones.       *)
FrameNumWrap_Plain(p, fn, maxFrameNum) == p.frame_num
FrameNumWrap(p, fn, maxFrameNum) ==
    IF p.frame_num > fn THEN p.frame_num - maxFrameNum ELSE p.frame_num

UpdatePicNums(d) ==
    [d EXCEPT !.pic_list = {IF p.ref = "long"
                            THEN [p EXCEPT !.long_term_pic_num = p.long_term_frame_idx]
                            ELSE p : p \in @}]

First(S) == {p \in S : \A q \in S : ~Before(q, p)}

ShortRefByPicNum(d, picNum, fn, maxFrameNum) ==
    First({p \in ShortTermRefs(d) : FrameNumWrap(p, fn, maxFrameNum) = picNum})

LongRefByIdx(d, idx) == First({p \in LongTermRefs(d) : p.long_term_frame_idx = idx})

(* Sliding window: the pictures unmarked are the "excess" oldest short-term*)
(* references by frame_num_wrap; it fails when there are too few of them.  *)
Older(p, q, fn, maxFrameNum) ==
    LET wp == FrameNumWrap(p, fn, maxFrameNum)
        wq == FrameNumWrap(q, fn, maxFrameNum)
    IN  wp < wq \/ (wp = wq /\ Before(p, q))

Excess_OffByOne(d, maxNumRefFrames) == Cardinality(ReferenceFrames(d)) - maxNumRefFrames
Excess(d, maxNumRefFrames) == Cardinality(ReferenceFrames(d)) - maxNumRefFrames + 1

SlidingVictims(d, maxNumRefFrames, fn, maxFrameNum) ==
    {p \in ShortTermRefs(d) :
        Cardinality({q \in ShortTermRefs(d) : Older(q, p, fn, maxFrameNum)})
            < Excess(d, maxNumRefFrames)}

SlidingWindow(d, maxNumRefFrames, fn, maxFrameNum) ==
    SetReference(d, SlidingVictims(d, maxNumRefFrames, fn, maxFrameNum), "none")

SlidingWindowFails(d, maxNumRefFrames) ==
    Cardinality(ShortTermRefs(d)) < Excess(d, maxNumRefFrames)

-----------------------------------------------------------------------------
(* Memory management control operations (8.2.5.4), on the pictures in the  *)
(* buffer; 5 and 6 also change the current picture, in the decoder.        *)

Mmco1(d, picNum, fn, maxFrameNum) ==
    SetReference(d, ShortRefByPicNum(d, picNum, fn, maxFrameNum), "none")

Mmco2(d, picNum) ==
    SetReference(d, First({p \in LongTermRefs(d) : p.long_term_pic_num = picNum}), "none")

AssignLongTerm(d, S, idx) ==
    [SetReference(d, S, "long") EXCEPT
        !.pic_list = {IF p.order \in {s.order : s \in S}
                      THEN [p EXCEPT !.long_term_frame_idx = idx]
                      ELSE p : p \in @}]

Mmco3(d, picNum, idx, fn, maxFrameNum) ==
    LET other == ShortRefByPicNum(d, picNum, fn, maxFrameNum)
    IN  IF other = {}
        THEN d
        ELSE AssignLongTerm(SetReference(d, LongRefByIdx(d, idx), "none"), other, idx)

Mmco4(d, maxIdxPlus1) ==
    SetReference(d, {p \in LongTermRefs(d) : p.long_term_frame_idx > maxIdxPlus1 - 1}, "none")

Mmco6_KeepsOld(d, idx) == d
Mmco6(d, idx) == SetReference(d, LongRefByIdx(d, idx), "none")
=============================================================================
