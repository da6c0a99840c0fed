---------------------------- MODULE H264Decoder ----------------------------
(***************************************************************************)
(* The H.264 decoder base class (lib/codecs/gsth264decoder.c) driving the  *)
(* decoded picture buffer of H264Dpb and, through the element of           *)
(* lib/plugins/gstvkh264dec.cpp, the client's callbacks.                   *)
(*                                                                         *)
(* One streaming thread runs everything. An action is one operation on an  *)
(* access unit, or one turn of a loop that calls the client: "phase" is    *)
(* the place in the code, "after" the place where a drain of the buffer    *)
(* returns to. Access units are numbered; number n is at once the          *)
(* GstVideoCodecFrame, the picture decoded from it and the client's buffer.*)
(* Streams are progressive; a picture order count is an input here.        *)
(***************************************************************************)
EXTENDS H264Dpb

CONSTANTS
    MaxFrameNum,  (* frame_num is counted modulo MaxFrameNum               *)
    Pocs,         (* picture order counts of non-IDR pictures              *)
    GapPocs,      (* picture order counts inferred for gaps                *)
    LongIdxs,     (* long_term_frame_idx values                            *)
    NalRefs,      (* which of "is a reference" a non-IDR picture may be    *)
    SpsSet,       (* the sequence parameter sets of the stream             *)
    Compliance,   (* the property of the element                           *)
    Live,         (* the upstream latency query answered "live"            *)
    CanFail,      (* the callbacks that may return false                   *)
    Conforming,   (* the stream obeys the constraints in MayFollow, Fits   *)
    MaxAus,       (* bound: access units handled                           *)
    MaxMmco       (* bound: operations in one slice header (10 in the code)*)

ASSUME ConstantsAssumption ==
    /\ MaxFrameNum \in Nat \ {0}
    /\ Pocs \subseteq Int /\ GapPocs \subseteq Int /\ LongIdxs \subseteq Nat
    /\ NalRefs \subseteq BOOLEAN
    /\ SpsSet \subseteq [size: Nat, refs: Nat, reorder: Int, gaps: BOOLEAN,
                         profile: {"baseline", "intra", "other"}, res: Nat]
    /\ Compliance \in {"auto", "strict", "normal", "flexible"}
    /\ Live \in BOOLEAN /\ Conforming \in BOOLEAN
    /\ CanFail \subseteq {"alloc", "decode", "display"}
    /\ MaxAus \in Nat /\ MaxMmco \in Nat

VARIABLES
    phase,              \* where the streaming thread is
    after,              \* where drain_internal returns to
    ret,                \* the flow return of the call in progress
    aus,                \* access units handled; the current frame
    cur,                \* priv->current_picture; its id is 0 when there is none
    hdr,                \* priv->current_slice.header
    gap,                \* unused_short_term_frame_num
    mmcos,              \* marking operations performed for this picture
    mem_mgmt_5,         \* picture->mem_mgmt_5 of the current picture
    dpb,                \* priv->dpb
    sps,                \* the sequence parameter set held by the parser
    new_sps,            \* the one process_sps is working on
    seq,                \* the one new_sequence was last called with (priv->width,
                        \* priv->height, priv->profile_idc)
    prev_ref_frame_num, \* priv->prev_ref_frame_num
    last_output_poc,    \* priv->last_output_poc
    pending,            \* frames the GstVideoDecoder class still holds
    held,               \* client buffers that are not released
    decoded,            \* pictures DecodePicture accepted
    shown,              \* pictures DisplayPicture accepted
    discarded,          \* pictures dropped on purpose or refused by the client
    trust,              \* the "Safe." rule that let the last picture out
    cvs                 \* the stream so far, for MayFollow

callVars == <<after, ret, cur, hdr, gap, mmcos, mem_mgmt_5>>
spsVars == <<sps, new_sps, seq>>
clientVars == <<held, decoded, shown, discarded>>
vars == <<phase, callVars, aus, dpb, spsVars, prev_ref_frame_num, last_output_poc,
          pending, clientVars, trust, cvs>>

-----------------------------------------------------------------------------
Phases == {"idle", "nals", "slices", "newseq", "drain", "gap", "gapbump", "marking",
           "bump", "livebump", "fail", "stopped"}

Frames == 1..MaxAus

NoPicture ==
    [id |-> 0, order |-> 0, frame_num |-> 0, poc |-> 0, ref |-> "none", ref_pic |-> FALSE,
     long_term_frame_idx |-> 0, long_term_pic_num |-> 0,
     needed_for_output |-> FALSE, nonexisting |-> FALSE]

NoSps == [size |-> 0, refs |-> 0, reorder |-> 0, gaps |-> FALSE, profile |-> "other", res |-> 0]

(* IDR pictures are as section 7.4.1.2.4 wants them: references, with      *)
(* frame_num and picture order count 0.                                    *)
IdrSlices ==
    [idr: {TRUE}, no_output_of_prior_pics: BOOLEAN, long_term_reference: BOOLEAN,
     adaptive: {FALSE}, frame_num: {0}, ref: {TRUE}, poc: {0}]
OtherSlices ==
    [idr: {FALSE}, no_output_of_prior_pics: {FALSE}, long_term_reference: {FALSE},
     adaptive: BOOLEAN, frame_num: 0..(MaxFrameNum - 1), ref: NalRefs, poc: Pocs]
Slices == IdrSlices \union {h \in OtherSlices : h.adaptive => h.ref /\ MaxMmco > 0}

NoSlice ==
    [idr |-> FALSE, no_output_of_prior_pics |-> FALSE, long_term_reference |-> FALSE,
     adaptive |-> FALSE, frame_num |-> 0, ref |-> FALSE, poc |-> 0]

(* The current picture when it is allocated, and as init_current_picture   *)
(* fills it from the slice header.                                         *)
BlankPicture == [NoPicture EXCEPT !.id = aus]
PictureOf(h) ==
    [BlankPicture EXCEPT !.frame_num = h.frame_num, !.poc = h.poc,
                      !.ref = IF h.ref THEN "short" ELSE "none", !.ref_pic = h.ref]

GapPicture(frameNum, poc) ==
    [NoPicture EXCEPT !.frame_num = frameNum, !.poc = poc, !.ref = "short",
                      !.ref_pic = TRUE, !.nonexisting = TRUE]

Following_NoWrap(frameNum) == frameNum + 1
Following(frameNum) == (frameNum + 1) % MaxFrameNum
Preceding(frameNum) == (frameNum + MaxFrameNum - 1) % MaxFrameNum
MaxNumRefFrames == IF sps.refs > 1 THEN sps.refs ELSE 1

BumpLevel ==
    CASE Compliance = "strict" -> "normal"
      [] Compliance = "normal" -> "low"
      [] Compliance = "flexible" -> "very_low"
      [] Compliance = "auto" -> IF ~Live THEN "normal"
                                ELSE IF seq.profile = "baseline" THEN "very_low" ELSE "low"

(* update_max_num_reorder_frames: a negative "reorder" is a sequence       *)
(* parameter set without the VUI restriction.                              *)
ReorderFrames(s, size) ==
    IF s.reorder >= 0 THEN s.reorder
    ELSE IF Compliance # "strict" /\ s.profile # "other" THEN 0 ELSE size

-----------------------------------------------------------------------------
(* What a conforming stream is, as far as the buffer can tell. "cvs" is    *)
(* the coded video sequence so far: the picture order counts in it, the    *)
(* count of the last picture if it was no reference, its reference         *)
(* pictures, those of them that began as long-term ones, PrevRefFrameNum   *)
(* of section 7.4.3, and whether an IDR picture must come next.            *)
NewCvs == [seen |-> {}, non_ref |-> MinPoc, refs |-> {}, long |-> {}, prev_ref |-> 0,
           needs_idr |-> TRUE]

GapBefore(prev, h) ==
    /\ prev # h.frame_num
    /\ Following(prev) # h.frame_num
    /\ dpb.pic_list # {}
    /\ sps.gaps

MayFollow(h) ==
    ~h.idr =>
        /\ ~cvs.needs_idr
        /\ h.frame_num = Following(cvs.prev_ref) \/ GapBefore(cvs.prev_ref, h)
        /\ h.poc \notin cvs.seen
        /\ Cardinality({q \in cvs.seen : q > h.poc}) <= dpb.max_num_reorder_frames
        /\ ~h.ref => h.poc > cvs.non_ref
        /\ (h.ref /\ ~h.adaptive) \/ GapBefore(cvs.prev_ref, h)
               => ~SlidingWindowFails(dpb, MaxNumRefFrames)

Extended(h) ==
    IF ~Conforming THEN cvs
    ELSE [seen |-> IF h.idr THEN {0} ELSE cvs.seen \union {h.poc},
          non_ref |-> IF h.ref THEN MinPoc ELSE h.poc,
          refs |-> (IF h.idr THEN {} ELSE cvs.refs) \union (IF h.ref THEN {aus} ELSE {}),
          long |-> IF ~h.idr THEN cvs.long
                   ELSE IF h.long_term_reference THEN {aus} ELSE {},
          prev_ref |-> IF h.ref THEN h.frame_num ELSE Preceding(h.frame_num),
          needs_idr |-> FALSE]

(* After an interruption a conforming stream begins again.                 *)
Interrupted == IF Conforming THEN NewCvs ELSE cvs


(* Room for the current picture among the references.                      *)
Fits(d) == Cardinality(ReferenceFrames(d)) < MaxNumRefFrames

-----------------------------------------------------------------------------
Init ==
    /\ phase = "idle" /\ after = "idle" /\ ret = "ok"
    /\ aus = 0 /\ cur = NoPicture /\ hdr = NoSlice /\ gap = 0
    /\ mmcos = 0 /\ mem_mgmt_5 = FALSE
    /\ dpb = NewDpb
    /\ sps = NoSps /\ new_sps = NoSps /\ seq = NoSps
    /\ prev_ref_frame_num = 0 /\ last_output_poc = MinPoc
    /\ pending = {} /\ held = {} /\ decoded = {} /\ shown = {} /\ discarded = {}
    /\ trust = "none" /\ cvs = NewCvs

(* A call of the base class returns: its locals and current_picture go.    *)
Return ==
    /\ phase' = "idle" /\ after' = "idle" /\ ret' = "ok"
    /\ cur' = NoPicture /\ hdr' = NoSlice /\ gap' = 0 /\ mmcos' = 0
    /\ mem_mgmt_5' = FALSE

HandleFrame ==
    /\ phase = "idle" /\ aus < MaxAus
    /\ aus' = aus + 1
    /\ pending' = pending \union {aus + 1}
    /\ phase' = "nals"
    /\ UNCHANGED <<callVars, dpb, spsVars, prev_ref_frame_num, last_output_poc,
                   clientVars, trust, cvs>>

(* An access unit without a slice: no picture, and nothing takes the frame *)
(* back from the GstVideoDecoder class.                                    *)
NoSliceInFrame ==
    /\ phase = "nals"
    /\ Return
    /\ UNCHANGED <<aus, dpb, spsVars, prev_ref_frame_num, last_output_poc, pending,
                   clientVars, trust, cvs>>

(* A NAL unit that cannot be parsed, a PPS with FMO, or a slice that does  *)
(* not begin a picture when none is in progress.                           *)
BadNal ==
    /\ ~Conforming
    /\ phase \in {"nals", "slices"}
    /\ phase' = "fail"
    /\ UNCHANGED <<callVars, aus, dpb, spsVars, prev_ref_frame_num, last_output_poc,
                   pending, clientVars, trust, cvs>>

FailFrame_KeepsPicture ==
    /\ phase = "fail"
    /\ Return
    /\ pending' = pending \ {aus}
    /\ UNCHANGED <<aus, dpb, spsVars, prev_ref_frame_num, last_output_poc, clientVars,
                   trust, cvs>>

(* handle_frame after an error: drop_frame and clear current_picture.      *)
FailFrame ==
    /\ phase = "fail"
    /\ Return
    /\ pending' = pending \ {aus}
    /\ held' = held \ {cur.id}
    /\ UNCHANGED <<aus, dpb, spsVars, prev_ref_frame_num, last_output_poc,
                   decoded, shown, discarded, trust, cvs>>

-----------------------------------------------------------------------------
(* do_output_picture of p, which leaves the buffer (and drops the last     *)
(* reference on the client's buffer) or stays in it as a reference.        *)
OutputPicture(p, leaves) ==
    /\ last_output_poc' = p.poc
    /\ held' = IF leaves THEN held \ {p.id} ELSE held
    /\ \/ /\ p.id \in pending
          /\ shown' = shown \union {p.id}
          /\ pending' = pending \ {p.id}
          /\ UNCHANGED <<ret, discarded>>
       \/ /\ p.id \notin pending \/ "display" \in CanFail
          /\ discarded' = discarded \union {p.id}
          /\ ret' = "error"
          /\ UNCHANGED <<shown, pending>>

(* The two rules of needs_bump whose comment says "Safe.".                 *)
SafeRule(low, mode) ==
    IF mode = "normal" \/ ~HasEmptyFrameBuffer(dpb) THEN "none"
    ELSE IF ContinuousNonRef(dpb, low) THEN "non_ref"
    ELSE IF ReorderSatisfied(dpb, low) THEN "reorder"
    ELSE "none"

(* One turn of the loop of _bump_dpb.                                      *)
BumpTurn(insert, mode) ==
    \E low \in NeededForOutput(dpb), overflowed \in BOOLEAN :
        /\ IsLowestOutputNeeded(dpb, low)
        /\ NeedsBump(dpb, low, insert, mode, overflowed)
        /\ OutputPicture(low, Leaves(low, FALSE))
        /\ dpb' = Bump(dpb, low, FALSE)
        /\ trust' = SafeRule(low, mode)
        /\ UNCHANGED <<phase, after, aus, cur, hdr, gap, mmcos, mem_mgmt_5, spsVars,
                       prev_ref_frame_num, decoded, cvs>>

(* The loop is over: needs_bump says no, or there is nothing to output.    *)
BumpOver(insert, mode) ==
    \E overflowed \in BOOLEAN :
        \A low \in NeededForOutput(dpb) :
            IsLowestOutputNeeded(dpb, low)
                => ~NeedsBump(dpb, low, insert, mode, overflowed)

(* drain_internal: one turn of its loop, and what follows the loop.        *)
DrainTurn ==
    /\ phase = "drain"
    /\ \E low \in NeededForOutput(dpb) :
        /\ IsLowestOutputNeeded(dpb, low)
        /\ OutputPicture(low, Leaves(low, TRUE))
        /\ dpb' = Bump(dpb, low, TRUE)
    /\ trust' = "none"
    /\ UNCHANGED <<phase, after, aus, cur, hdr, gap, mmcos, mem_mgmt_5, spsVars,
                   prev_ref_frame_num, decoded, cvs>>

DrainOver ==
    /\ phase = "drain"
    /\ NeededForOutput(dpb) = {}
    /\ dpb' = DpbClear(dpb)
    /\ held' = held \ Ids(dpb.pic_list)
    /\ last_output_poc' = MinPoc
    /\ IF after = "idle" THEN Return
       ELSE /\ phase' = IF ret = "error" /\ after # "bump" THEN "fail" ELSE after
            /\ after' = "idle"
            /\ UNCHANGED <<ret, cur, hdr, gap, mmcos, mem_mgmt_5>>
    /\ trust' = "none"
    /\ UNCHANGED <<aus, spsVars, prev_ref_frame_num, pending, decoded, shown,
                   discarded, cvs>>

-----------------------------------------------------------------------------
(* parse_sps and process_sps. A sequence parameter set that changes the    *)
(* resolution or the size of the buffer drains it first; one whose         *)
(* num_reorder_frames exceeds the size is refused, in the second case when *)
(* the size and the client's sequence have changed already.                *)
SpsUpdated(s, d) ==
    IF ReorderFrames(s, d.max_num_frames) > d.max_num_frames
    THEN /\ phase' = "fail"
         /\ dpb' = d
         /\ UNCHANGED <<sps, cvs>>
    ELSE /\ phase' = "nals"
         /\ dpb' = [d EXCEPT !.max_num_reorder_frames = ReorderFrames(s, d.max_num_frames)]
         /\ sps' = s
         /\ cvs' = IF s = sps THEN cvs ELSE Interrupted

ParseSps(s) ==
    /\ phase = "nals"
    /\ IF seq.res # s.res \/ dpb.max_num_frames # s.size
       THEN /\ new_sps' = s
            /\ phase' = "drain" /\ after' = "newseq"
            /\ UNCHANGED <<sps, dpb, cvs>>
       ELSE /\ SpsUpdated(s, dpb)
            /\ UNCHANGED <<new_sps, after>>
    /\ UNCHANGED <<ret, cur, hdr, gap, mmcos, mem_mgmt_5, aus, seq, prev_ref_frame_num,
                   last_output_poc, pending, clientVars, trust>>

(* process_sps after the drain: klass->new_sequence tells the client.      *)
NewSequence ==
    /\ phase = "newseq"
    /\ seq' = new_sps
    /\ SpsUpdated(new_sps, [dpb EXCEPT !.max_num_frames = new_sps.size])
    /\ new_sps' = NoSps
    /\ UNCHANGED <<callVars, aus, prev_ref_frame_num, last_output_poc, pending,
                   clientVars, trust>>

-----------------------------------------------------------------------------
(* parse_slice for the first slice of a picture, up to the gap handling of *)
(* start_current_picture. "gap" is the next frame_num to infer; it equals  *)
(* the one of the slice when nothing is missing.                           *)
NewPicture(h) ==
    /\ phase = "nals" /\ sps # NoSps
    /\ Conforming => MayFollow(h)
    /\ LET prev == IF h.idr THEN 0 ELSE prev_ref_frame_num
       IN  /\ prev_ref_frame_num' = prev
           /\ gap' = IF GapBefore(prev, h) THEN Following(prev) ELSE h.frame_num
    /\ held' = held \union {aus}
    /\ cur' = BlankPicture
    /\ hdr' = h
    /\ cvs' = Extended(h)
    /\ phase' = "gap"
    /\ UNCHANGED <<after, ret, mmcos, mem_mgmt_5, aus, dpb, spsVars, last_output_poc,
                   pending, decoded, shown, discarded, trust>>

(* The client has no buffer for the picture.                               *)
NewPictureFails ==
    /\ phase = "nals" /\ sps # NoSps
    /\ "alloc" \in CanFail
    /\ phase' = "fail"
    /\ UNCHANGED <<callVars, aus, dpb, spsVars, prev_ref_frame_num, last_output_poc,
                   pending, clientVars, trust, cvs>>

(* handle_frame_num_gap, one turn: the sliding window makes room, ...      *)
GapMark ==
    /\ phase = "gap" /\ gap # hdr.frame_num
    /\ LET d == SlidingWindow(UpdatePicNums(dpb), MaxNumRefFrames, gap, MaxFrameNum)
       IN  IF SlidingWindowFails(dpb, MaxNumRefFrames)
           THEN /\ phase' = "fail" /\ dpb' = d /\ held' = held
           ELSE /\ phase' = "gapbump" /\ dpb' = DeleteUnused(d)
                /\ held' = held \ Ids(Unused(d))
    /\ UNCHANGED <<callVars, aus, spsVars, prev_ref_frame_num, last_output_poc, pending,
                   decoded, shown, discarded, trust, cvs>>

(* ... pictures are output until a frame buffer is empty, ...              *)
GapBump ==
    /\ phase = "gapbump"
    /\ BumpTurn({GapPicture(gap, 0)}, "normal")

(* ... and the inferred picture is stored. prev_ref_frame_num stays.       *)
GapStore ==
    /\ phase = "gapbump"
    /\ BumpOver({GapPicture(gap, 0)}, "normal")
    /\ IF ret = "error"
       THEN /\ phase' = "fail"
            /\ UNCHANGED <<dpb, gap>>
       ELSE /\ phase' = "gap"
            /\ \E poc \in GapPocs : dpb' = DpbAdd(dpb, GapPicture(gap, poc))
            /\ gap' = Following(gap)
    /\ UNCHANGED <<after, ret, cur, hdr, mmcos, mem_mgmt_5, aus, spsVars,
                   prev_ref_frame_num, last_output_poc, pending, clientVars, trust, cvs>>

(* The rest of start_current_picture: the picture is filled in, and an IDR *)
(* picture empties the buffer. The drain runs before update_pic_nums,      *)
(* which then has nothing to do.                                           *)
StartPicture ==
    /\ phase = "gap" /\ gap = hdr.frame_num
    /\ ~hdr.no_output_of_prior_pics
    /\ cur' = PictureOf(hdr)
    /\ IF hdr.idr
       THEN phase' = "drain" /\ after' = "slices" /\ dpb' = dpb
       ELSE phase' = "slices" /\ after' = after /\ dpb' = UpdatePicNums(dpb)
    /\ UNCHANGED <<ret, hdr, gap, mmcos, mem_mgmt_5, aus, spsVars, prev_ref_frame_num,
                   last_output_poc, pending, clientVars, trust, cvs>>

ClearDpb_KeepsFrames(flush) ==
    /\ dpb' = DpbClear(dpb)
    /\ last_output_poc' = MinPoc
    /\ pending' = IF flush THEN {} ELSE pending
    /\ discarded' = discarded \union Ids(NeededForOutput(dpb))
    /\ held' = held \ Ids(dpb.pic_list)
    /\ trust' = "none"

(* clear_dpb: the pictures go unseen. Their frames are released here,      *)
(* unless the class forgets them itself, as on a flush.                    *)
ClearDpb(flush) ==
    /\ dpb' = DpbClear(dpb)
    /\ last_output_poc' = MinPoc
    /\ pending' = IF flush THEN {} ELSE pending \ Ids(NeededForOutput(dpb))
    /\ discarded' = discarded \union Ids(NeededForOutput(dpb))
    /\ held' = held \ Ids(dpb.pic_list)
    /\ trust' = "none"

(* An IDR picture with no_output_of_prior_pics_flag.                       *)
StartPictureClear ==
    /\ phase = "gap" /\ gap = hdr.frame_num
    /\ hdr.no_output_of_prior_pics
    /\ cur' = PictureOf(hdr)
    /\ phase' = "slices"
    /\ ClearDpb(FALSE)
    /\ UNCHANGED <<after, ret, hdr, gap, mmcos, mem_mgmt_5, aus, spsVars,
                   prev_ref_frame_num, decoded, shown, cvs>>

-----------------------------------------------------------------------------
(* The end of the access unit: finish_current_picture.                     *)
EndPicture ==
    /\ phase = "slices"
    /\ decoded' = decoded \union {cur.id}
    /\ IF cur.ref # "none"
       THEN phase' = "marking" /\ UNCHANGED <<dpb, held>>
       ELSE /\ phase' = "bump"
            /\ dpb' = DeleteUnused(dpb)
            /\ held' = held \ Ids(Unused(dpb))
    /\ UNCHANGED <<callVars, aus, spsVars, prev_ref_frame_num, last_output_poc, pending,
                   shown, discarded, trust, cvs>>

EndPictureFails_Ignored ==
    /\ phase = "slices"
    /\ "decode" \in CanFail
    /\ phase' = IF cur.ref # "none" THEN "marking" ELSE "bump"
    /\ UNCHANGED <<callVars, aus, dpb, spsVars, prev_ref_frame_num, last_output_poc,
                   pending, clientVars, trust, cvs>>

(* DecodePicture returned false: current_picture is set to NULL without    *)
(* giving up its reference.                                                *)
EndPictureFails ==
    /\ phase = "slices"
    /\ "decode" \in CanFail
    /\ Return
    /\ pending' = pending \ {aus}
    /\ UNCHANGED <<aus, dpb, spsVars, prev_ref_frame_num, last_output_poc, clientVars,
                   trust, cvs>>

-----------------------------------------------------------------------------
(* finish_picture after the reference marking, with d the buffer and c the *)
(* current picture it leaves.                                              *)
Finish(d, c) ==
    /\ dpb' = DeleteUnused(d)
    /\ held' = held \ Ids(Unused(d))
    /\ cur' = c
    /\ prev_ref_frame_num' = c.frame_num
    /\ IF mem_mgmt_5
       THEN phase' = "drain" /\ after' = "bump"
       ELSE phase' = "bump" /\ after' = after
    /\ UNCHANGED <<ret, hdr, gap, mmcos, mem_mgmt_5, aus, spsVars, last_output_poc,
                   pending, decoded, shown, discarded, trust, cvs>>

MarkIdr ==
    /\ phase = "marking" /\ hdr.idr
    /\ Finish(MarkAllNonRef(dpb),
              Marked(cur, IF hdr.long_term_reference THEN "long" ELSE "short"))

(* The result of the sliding window is ignored here.                       *)
MarkSliding ==
    /\ phase = "marking" /\ ~hdr.idr /\ ~hdr.adaptive
    /\ Finish(SlidingWindow(dpb, MaxNumRefFrames, hdr.frame_num, MaxFrameNum), cur)

MmcoEnd ==
    /\ phase = "marking" /\ hdr.adaptive
    /\ Conforming => Fits(dpb)
    /\ Finish(dpb, cur)

(* One memory management control operation.                                *)
Mmco(d, c) ==
    /\ phase = "marking" /\ hdr.adaptive
    /\ mmcos < MaxMmco
    /\ Conforming /\ mmcos + 1 = MaxMmco => Fits(d)
    /\ mmcos' = mmcos + 1
    /\ dpb' = d /\ cur' = c
    /\ UNCHANGED <<phase, after, ret, hdr, gap, aus, spsVars, prev_ref_frame_num,
                   last_output_poc, pending, clientVars, trust>>

PicNumXs == {hdr.frame_num - difference : difference \in 1..MaxFrameNum}

UnmarkShort ==
    /\ \E picNumX \in PicNumXs : Mmco(Mmco1(dpb, picNumX, hdr.frame_num, MaxFrameNum), cur)
    /\ UNCHANGED <<mem_mgmt_5, cvs>>

UnmarkLong ==
    /\ \E picNum \in LongIdxs : Mmco(Mmco2(dpb, picNum), cur)
    /\ UNCHANGED <<mem_mgmt_5, cvs>>

ShortToLong ==
    /\ \E picNumX \in PicNumXs, idx \in LongIdxs :
        /\ Conforming => ~(cur.ref = "long" /\ cur.long_term_frame_idx = idx)
        /\ Mmco(Mmco3(dpb, picNumX, idx, hdr.frame_num, MaxFrameNum), cur)
    /\ UNCHANGED <<mem_mgmt_5, cvs>>

LimitLong ==
    /\ \E idx \in LongIdxs : Mmco(Mmco4(dpb, idx), cur)
    /\ UNCHANGED <<mem_mgmt_5, cvs>>

UnmarkAll ==
    /\ Mmco(MarkAllNonRef(dpb), [cur EXCEPT !.frame_num = 0, !.poc = 0])
    /\ mem_mgmt_5' = TRUE
    /\ cvs' = IF Conforming THEN [NewCvs EXCEPT !.seen = {0}, !.refs = {cur.id},
                                                !.needs_idr = FALSE]
              ELSE cvs

CurrentToLong ==
    /\ \E idx \in LongIdxs :
        Mmco(Mmco6(dpb, idx), [Marked(cur, "long") EXCEPT !.long_term_frame_idx = idx])
    /\ UNCHANGED <<mem_mgmt_5, cvs>>

-----------------------------------------------------------------------------
(* The rest of finish_picture: pictures are output while needs_bump says   *)
(* so, the current one is stored or shown, and in live mode the loop runs  *)
(* once more.                                                              *)
BumpBefore ==
    /\ phase = "bump"
    /\ BumpTurn({cur}, BumpLevel)

Stored == cur.ref # "none" \/ HasEmptyFrameBuffer(dpb)

Store ==
    /\ phase = "bump"
    /\ BumpOver({cur}, BumpLevel)
    /\ Stored
    /\ dpb' = DpbAdd(dpb, cur)
    /\ cur' = NoPicture
    /\ phase' = "livebump"
    /\ UNCHANGED <<after, ret, hdr, gap, mmcos, mem_mgmt_5, aus, spsVars,
                   prev_ref_frame_num, last_output_poc, pending, clientVars, trust, cvs>>

OutputDirectly ==
    /\ phase = "bump"
    /\ BumpOver({cur}, BumpLevel)
    /\ ~Stored
    /\ OutputPicture(cur, TRUE)
    /\ dpb' = SetLastOutput(dpb, cur)
    /\ trust' = "none"
    /\ cur' = NoPicture
    /\ phase' = "livebump"
    /\ UNCHANGED <<after, hdr, gap, mmcos, mem_mgmt_5, aus, spsVars,
                   prev_ref_frame_num, decoded, cvs>>

BumpsLive == Live /\ Compliance # "strict"

LiveBump ==
    /\ phase = "livebump" /\ BumpsLive
    /\ BumpTurn({}, BumpLevel)

FrameDone ==
    /\ phase = "livebump"
    /\ BumpsLive => BumpOver({}, BumpLevel)
    /\ Return
    /\ UNCHANGED <<aus, dpb, spsVars, prev_ref_frame_num, last_output_poc, pending,
                   clientVars, trust, cvs>>

-----------------------------------------------------------------------------
(* The other calls of the GstVideoDecoder class. drain and finish are the  *)
(* same function.                                                          *)
Drain ==
    /\ phase = "idle"
    /\ phase' = "drain" /\ after' = "idle"
    /\ cvs' = Interrupted
    /\ UNCHANGED <<ret, cur, hdr, gap, mmcos, mem_mgmt_5, aus, dpb, spsVars,
                   prev_ref_frame_num, last_output_poc, pending, clientVars, trust>>

Flush ==
    /\ phase = "idle"
    /\ ClearDpb(TRUE)
    /\ cvs' = Interrupted
    /\ UNCHANGED <<phase, callVars, aus, spsVars, prev_ref_frame_num, decoded, shown>>

(* The buffer is freed with its pictures and the class forgets its frames; *)
(* prev_ref_frame_num and last_output_poc survive.                         *)
Stop ==
    /\ phase = "idle"
    /\ phase' = "stopped"
    /\ dpb' = NewDpb
    /\ sps' = NoSps /\ new_sps' = NoSps /\ seq' = NoSps
    /\ pending' = {}
    /\ discarded' = discarded \union Ids(NeededForOutput(dpb))
    /\ held' = held \ Ids(dpb.pic_list)
    /\ cvs' = Interrupted /\ trust' = "none"
    /\ UNCHANGED <<callVars, aus, prev_ref_frame_num, last_output_poc, decoded, shown>>

Start ==
    /\ phase = "stopped"
    /\ phase' = "idle"
    /\ UNCHANGED <<callVars, aus, dpb, spsVars, prev_ref_frame_num, last_output_poc,
                   pending, clientVars, trust, cvs>>

-----------------------------------------------------------------------------
Nals == NoSliceInFrame \/ NewPictureFails \/ \E h \in Slices : NewPicture(h)
Bumping == GapBump \/ BumpBefore \/ LiveBump
Marking == MarkIdr \/ MarkSliding \/ MmcoEnd \/ UnmarkShort \/ UnmarkLong
           \/ ShortToLong \/ LimitLong \/ UnmarkAll \/ CurrentToLong

(* What the streaming thread does until its call returns.                  *)
Work ==
    \/ Nals \/ BadNal \/ FailFrame \/ NewSequence
    \/ \E s \in SpsSet : ParseSps(s)
    \/ GapMark \/ GapStore \/ StartPicture \/ StartPictureClear
    \/ EndPicture \/ EndPictureFails
    \/ Marking \/ Bumping
    \/ Store \/ OutputDirectly \/ FrameDone
    \/ DrainTurn \/ DrainOver

Calls == HandleFrame \/ Drain \/ Flush \/ Stop \/ Start

Next == Work \/ Calls

Spec == Init /\ [][Next]_vars

(* The thread is never stopped in the middle of a call, and an access unit *)
(* has finitely many NAL units: its parameter sets come to an end.         *)
FairSpec == Spec /\ WF_vars(Work) /\ SF_vars(Nals)

-----------------------------------------------------------------------------
(* The state has the shape the C structures give it.                       *)
TypeOK ==
    /\ phase \in Phases /\ after \in {"idle", "newseq", "slices", "bump"}
    /\ ret \in {"ok", "error"}
    /\ aus \in 0..MaxAus
    /\ cur \in Picture /\ hdr \in Slices \union {NoSlice}
    /\ gap \in 0..(MaxFrameNum - 1)
    /\ mmcos \in 0..MaxMmco /\ mem_mgmt_5 \in BOOLEAN
    /\ dpb \in Dpb
    /\ {sps, new_sps, seq} \subseteq SpsSet \union {NoSps}
    /\ prev_ref_frame_num \in 0..(MaxFrameNum - 1)
    /\ last_output_poc \in Int
    /\ pending \subseteq Frames /\ held \subseteq Frames
    /\ decoded \subseteq Frames /\ shown \subseteq Frames /\ discarded \subseteq Frames
    /\ trust \in {"none", "non_ref", "reorder"}

(* num_output_needed, which add, bump, drain and clear maintain separately *)
(* from the needed_for_output flags, counts exactly the flagged pictures;  *)
(* the code asserts in needs_bump and bump that it never gets negative.    *)
OutputCounter == dpb.num_output_needed = Cardinality(NeededForOutput(dpb))

(* A conforming stream never makes the buffer exceed max_num_frames: the   *)
(* case dpb_add reports as "exceed the max size" is unreachable, whatever  *)
(* mix of marking, bumping and gaps precedes.                              *)
DpbWithinSize == Cardinality(dpb.pic_list) <= dpb.max_num_frames

(* The sliding window's comment "In theory, num_ref_pics shouldn't be      *)
(* larger than max_num_ref_frames": a conforming stream keeps it so, also  *)
(* through gaps, long-term references and operation 5.                     *)
RefsWithinLimit == Cardinality(ReferenceFrames(dpb)) <= MaxNumRefFrames

(* Each picture buffer taken from the client belongs to a picture of the   *)
(* DPB or to the current one, so that it comes back when they go: none     *)
(* leaks on an error path, and none is given back while still referenced.  *)
BuffersAccounted == held = (Ids(dpb.pic_list) \union {cur.id}) \ {0}

(* A stored picture waiting for its output can be output: its codec frame  *)
(* is still with the GstVideoDecoder class. Conversely the class keeps no  *)
(* frame of a decoded picture that will never be output.                   *)
FramesOwed ==
    /\ \A p \in NeededForOutput(dpb) : p.id \in pending
    /\ pending \intersect decoded \subseteq Ids(NeededForOutput(dpb)) \union {cur.id}

(* A picture the client decoded is shown, waits for it, or was dropped for *)
(* a reason the stream or the application gave (no_output_of_prior_pics, a *)
(* flush, a stop) or because the client refused it.                        *)
NothingLost ==
    decoded \subseteq shown \union discarded \union Ids(NeededForOutput(dpb)) \union {cur.id}

(* The decoder never needs more client buffers than the                    *)
(* nMinNumDecodeSurfaces = max_dpb_size + 1 announced in BeginSequence.    *)
BuffersWithinSequence == Cardinality(held) <= dpb.max_num_frames + 1

(* At most one long-term reference per long_term_frame_idx, the current    *)
(* picture included, so that a later operation 2, 3 or 6 on an index finds *)
(* the picture the stream means.                                           *)
LongTermUnique ==
    \A p, q \in LongTermRefs(dpb) \union {c \in {cur} : c.ref = "long"} :
        p.long_term_frame_idx = q.long_term_frame_idx => p = q

(* With the sliding window alone, the references a picture is decoded with *)
(* are a long-term IDR picture and the latest reference pictures of the    *)
(* coded video sequence that fit beside it, also after frame_num wraps:    *)
(* neither bumping nor the deletion of unused pictures takes one, and none *)
(* stays too long.                                                         *)
RefsAreLatest ==
    phase = "slices" =>
        LET long == cvs.long \ {cur.id}
            short == cvs.refs \ (cvs.long \union {cur.id})
            room == MaxNumRefFrames - Cardinality(long)
        IN  Ids(ReferenceFrames(dpb)) =
              long \union {n \in short : Cardinality({m \in short : m > n}) < room}

-----------------------------------------------------------------------------
Shows == shown' # shown

(* Strict compliance: every picture is shown after all pictures with a     *)
(* lower picture order count of its coded video sequence, and a picture    *)
(* order count that starts over does so after everything before was shown. *)
ShownInOrder == [][Shows => last_output_poc' > last_output_poc]_vars

(* A picture output early because num_reorder_frames pictures precede it   *)
(* ("... Safe." in needs_bump) is never followed by one that belongs       *)
(* before it.                                                              *)
ReorderRuleSafe ==
    [][Shows /\ trust = "reorder" => last_output_poc' > last_output_poc]_vars

(* Every call into the decoder returns: the bumping loops, the drain and   *)
(* the loop over missing frame numbers come to an end whatever the client  *)
(* answers.                                                                *)
Resting == phase \in {"idle", "stopped"}
CallsReturn == ~Resting ~> Resting

(* The application sees its buffers used as ClientPictures says: shown     *)
(* only while held, after the decoding, once, and never used after the     *)
(* release.                                                                *)
Client == INSTANCE ClientPictures WITH Pictures <- Frames
ClientSpec == Client!Spec
=============================================================================
