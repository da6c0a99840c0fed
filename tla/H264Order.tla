----------------------------- MODULE H264Order -----------------------------
(***************************************************************************)
(* H264Decoder with the picture order counts the decoder calculates        *)
(* (gst_h264_decoder_calculate_poc). There the count of a picture is an    *)
(* input, "poc"; here the stream codes it in one of the three ways of      *)
(* section 8.2.1 and the decoder recovers it from the pictures before.     *)
(***************************************************************************)
EXTENDS H264Decoder, Sequences

CONSTANTS
    PocTypes,   (* the values of pic_order_cnt_type                        *)
    MaxPocLsb,  (* type 0: 1 << (log2_max_pic_order_cnt_lsb_minus4 + 4)    *)
    CodedPocs,  (* type 0: the counts of non-IDR pictures                  *)
    Cycle,      (* type 1: offset_for_ref_frame, not empty here            *)
    NonRefOffset, (* type 1: offset_for_non_ref_pic                        *)
    Deltas      (* how much later than the top field the bottom field is   *)

ASSUME OrderAssumption ==
    /\ PocTypes \subseteq 0..2
    /\ MaxPocLsb \in {2 ^ n : n \in 4..16}
    /\ CodedPocs \subseteq Pocs
    /\ Cycle \in Seq(Int) \ {<<>>} /\ NonRefOffset \in Int
    /\ Deltas \subseteq Int

VARIABLES
    poc_type, \* pic_order_cnt_type of the stream
    pic,      \* the counts of the current picture and what they come from
    prev_ref, \* priv->prev_ref_pic_order_cnt_msb, _lsb, prev_ref_top_field_order_cnt
              \* and prev_ref_has_memmgmnt5
    prev,     \* priv->prev_frame_num, _offset and prev_has_memmgmnt5
    anchor    \* what the encoder counts from: the previous reference picture's
              \* top field count and its number since the counts began

orderVars == <<poc_type, pic, prev_ref, prev, anchor>>

-----------------------------------------------------------------------------
NoOrder ==
    [msb |-> 0, lsb |-> 0, delta |-> 0, offset |-> 0, top |-> 0, bottom |-> 0, number |-> 0]
Lower(a, b) == IF a < b THEN a ELSE b

(* What the encoder means (8.2.1), without low bits and without frame_num: *)
(* a type-0 frame whose count is poc has the top field count TopOf, close  *)
(* enough to the previous reference picture's; in types 1 and 2 the        *)
(* reference pictures are numbered and the number gives the top field's.   *)
TopOf(poc, delta) == IF delta < 0 THEN poc - delta ELSE poc
Codable(top, from) ==
    /\ 2 * (top - from) <= MaxPocLsb
    /\ 2 * (from - top) < MaxPocLsb

NumberOf(h) ==
    IF h.idr THEN 0 ELSE anchor.number + ((h.frame_num - cvs.prev_ref) % MaxFrameNum)

RefCount[n \in Nat] ==
    IF n = 0 THEN 0 ELSE RefCount[n - 1] + Cycle[((n - 1) % Len(Cycle)) + 1]

NumberedTop(number, ref) ==
    IF poc_type = 1
    THEN IF ref THEN RefCount[number] ELSE RefCount[number - 1] + NonRefOffset
    ELSE IF ref THEN 2 * number ELSE 2 * number - 1

Encodes(h, delta) ==
    IF poc_type = 0
    THEN /\ h.poc \in CodedPocs \union {0}
         /\ Codable(TopOf(h.poc, delta), IF h.idr THEN 0 ELSE anchor.top)
    ELSE delta = 0 /\ h.poc = NumberedTop(NumberOf(h), h.ref)

-----------------------------------------------------------------------------
(* gst_h264_decoder_calculate_poc                                          *)
PrevOrder_NoMmco5(idr) ==
    IF idr THEN [msb |-> 0, lsb |-> 0] ELSE [msb |-> prev_ref.msb, lsb |-> prev_ref.lsb]

PrevOrder(idr) ==
    IF idr THEN [msb |-> 0, lsb |-> 0]
    ELSE IF prev_ref.mem_mgmt_5 THEN [msb |-> 0, lsb |-> prev_ref.top]
    ELSE [msb |-> prev_ref.msb, lsb |-> prev_ref.lsb]

CountType0(idr, o) ==
    LET before == PrevOrder(idr)
        msb == IF o.lsb < before.lsb /\ 2 * (before.lsb - o.lsb) >= MaxPocLsb
               THEN before.msb + MaxPocLsb
               ELSE IF o.lsb > before.lsb /\ 2 * (o.lsb - before.lsb) > MaxPocLsb
               THEN before.msb - MaxPocLsb
               ELSE before.msb
    IN  [o EXCEPT !.msb = msb, !.top = msb + o.lsb, !.bottom = msb + o.lsb + o.delta]

FrameNumOffset(idr, frameNum) ==
    LET before == IF prev.mem_mgmt_5 THEN 0 ELSE prev.offset
    IN  IF idr THEN 0
        ELSE IF prev.frame_num > frameNum THEN before + MaxFrameNum
        ELSE before

CycleSum[n \in 0..Len(Cycle)] == IF n = 0 THEN 0 ELSE CycleSum[n - 1] + Cycle[n]

(* expected_pic_order_cnt of the n-th reference picture.                   *)
Cycles(n) ==
    IF n = 0 THEN 0
    ELSE ((n - 1) \div Len(Cycle)) * CycleSum[Len(Cycle)]
             + CycleSum[((n - 1) % Len(Cycle)) + 1]

AbsFrameNum(h) ==
    LET number == FrameNumOffset(h.idr, h.frame_num) + h.frame_num
    IN  IF ~h.ref /\ number > 0 THEN number - 1 ELSE number

CountType1(h, o) ==
    LET top == Cycles(AbsFrameNum(h)) + (IF h.ref THEN 0 ELSE NonRefOffset)
    IN  [o EXCEPT !.offset = FrameNumOffset(h.idr, h.frame_num), !.top = top,
                  !.bottom = top + o.delta]

CountType2(h, o) ==
    LET offset == FrameNumOffset(h.idr, h.frame_num)
        top == IF h.idr THEN 0
               ELSE IF h.ref THEN 2 * (offset + h.frame_num)
               ELSE 2 * (offset + h.frame_num) - 1
    IN  [o EXCEPT !.offset = offset, !.top = top, !.bottom = top]

CalculatePoc(h, o) ==
    CASE poc_type = 0 -> CountType0(h.idr, o)
      [] poc_type = 1 -> CountType1(h, o)
      [] poc_type = 2 -> CountType2(h, o)

PicOrderCnt(o) == Lower(o.top, o.bottom)

-----------------------------------------------------------------------------
OrderInit ==
    /\ Init
    /\ poc_type \in PocTypes
    /\ pic = NoOrder
    /\ prev_ref = [msb |-> 0, lsb |-> 0, top |-> 0, mem_mgmt_5 |-> FALSE]
    /\ prev = [frame_num |-> 0, offset |-> 0, mem_mgmt_5 |-> FALSE]
    /\ anchor = [top |-> 0, number |-> 0]

(* The slice header of a new picture carries pic_order_cnt_lsb in type 0,  *)
(* and the distance of the bottom field; delta_pic_order_cnt[0] is 0.      *)
CodedPicture(h, delta) ==
    /\ NewPicture(h)
    /\ Encodes(h, delta)
    /\ pic' = [NoOrder EXCEPT
                  !.lsb = IF poc_type = 0 THEN TopOf(h.poc, delta) % MaxPocLsb ELSE 0,
                  !.delta = delta,
                  !.number = NumberOf(h)]
    /\ UNCHANGED <<poc_type, prev_ref, prev, anchor>>

(* init_current_picture calculates the counts from the slice header.       *)
CountPicture ==
    /\ StartPicture \/ StartPictureClear
    /\ pic' = CalculatePoc(hdr, pic)
    /\ UNCHANGED <<poc_type, prev_ref, prev, anchor>>

(* init_gap_picture leaves a picture inferred for a gap with type 0 and    *)
(* the low bits 0; it does not become the previous picture.                *)
CountGap ==
    /\ GapStore
    /\ phase' = "gap"
           => dpb' = DpbAdd(dpb, GapPicture(gap, PicOrderCnt(CountType0(FALSE, NoOrder))))
    /\ UNCHANGED orderVars

(* Operation 5 makes the counts relative to the picture's own.             *)
RebaseOrder ==
    /\ UnmarkAll
    /\ pic' = [pic EXCEPT !.top = @ - PicOrderCnt(pic), !.bottom = @ - PicOrderCnt(pic),
                          !.number = 0]
    /\ UNCHANGED <<poc_type, prev_ref, prev, anchor>>

Remembered == [frame_num |-> cur.frame_num, offset |-> pic.offset, mem_mgmt_5 |-> mem_mgmt_5]

(* finish_picture after the marking of a reference picture, ...            *)
RememberReference ==
    /\ MarkIdr \/ MarkSliding \/ MmcoEnd
    /\ prev_ref' = [msb |-> pic.msb, lsb |-> pic.lsb, top |-> pic.top,
                    mem_mgmt_5 |-> mem_mgmt_5]
    /\ prev' = Remembered
    /\ anchor' = [top |-> TopOf(cur.poc, pic.delta), number |-> pic.number]
    /\ UNCHANGED <<poc_type, pic>>

(* ... and for one that is no reference.                                   *)
RememberOther ==
    /\ EndPicture
    /\ IF cur.ref = "none"
       THEN prev' = Remembered /\ anchor' = [anchor EXCEPT !.number = pic.number - 1]
       ELSE UNCHANGED <<prev, anchor>>
    /\ UNCHANGED <<poc_type, pic, prev_ref>>

(* The current picture goes into the buffer or to the client.              *)
ForgetOrder ==
    /\ Store \/ OutputDirectly
    /\ pic' = NoOrder
    /\ UNCHANGED <<poc_type, prev_ref, prev, anchor>>

Elsewhere ==
    /\ \/ NoSliceInFrame \/ NewPictureFails \/ BadNal \/ FailFrame \/ NewSequence
       \/ \E s \in SpsSet : ParseSps(s)
       \/ GapMark \/ EndPictureFails
       \/ UnmarkShort \/ UnmarkLong \/ ShortToLong \/ LimitLong \/ CurrentToLong
       \/ Bumping \/ FrameDone
       \/ DrainTurn \/ DrainOver
       \/ Calls
    /\ UNCHANGED orderVars

OrderNext ==
    \/ \E h \in Slices, delta \in Deltas : CodedPicture(h, delta)
    \/ CountPicture \/ CountGap \/ RebaseOrder \/ RememberReference \/ RememberOther
    \/ ForgetOrder \/ Elsewhere

OrderSpec == OrderInit /\ [][OrderNext]_<<vars, orderVars>>

-----------------------------------------------------------------------------
(* The count calculated for a picture is the one its encoder gave it: when *)
(* the coded low bits wrap upwards and downwards, when frame_num wraps,    *)
(* after a reference picture with operation 5 whose bottom field comes     *)
(* first, after pictures that are no references and after gaps. It is the  *)
(* count the buffer is ordered by.                                         *)
PocAsMeant == Conforming /\ phase = "slices" => PicOrderCnt(pic) = cur.poc
=============================================================================
