---------------------------- MODULE H265Decoder ----------------------------
(***************************************************************************)
(* The H.265 decoder base class (lib/codecs/gsth265decoder.c) driving the  *)
(* decoded picture buffer of H265Dpb and, through the element of           *)
(* lib/plugins/gstvkh265dec.cpp, the client's callbacks.                   *)
(*                                                                         *)
(* An access unit is first parsed as a whole into the array "nalu", which  *)
(* is then decoded: what parsing changes is seen by the decoding of every  *)
(* unit. As in H264Decoder an action is one operation or one turn of a     *)
(* loop that calls the client, and number n is at once a frame, its        *)
(* picture and the client's buffer. The output queue is empty between      *)
(* calls, as the element asks for no output delay.                         *)
(***************************************************************************)
EXTENDS H265Dpb, H265Stream

CONSTANTS
    AnySlices,    (* the slice headers of arbitrary streams                *)
    Types,        (* the types of NAL units with slices                    *)
    StreamPocs,   (* picture order counts of conforming streams            *)
    Tid0s,        (* which of "has TemporalId 0" a picture may be          *)
    SpsSet,       (* the sequence parameter sets of the stream             *)
    Ends,         (* the NAL units that may end a sequence: "eos", "eob"   *)
    CanFail,      (* the callbacks that may return false                   *)
    Interruptions,(* the calls between access units: "drain", "flush", "stop" *)
    Conforming,   (* the stream is one of H265Stream                       *)
    MaxAus,       (* bound: access units handled                           *)
    MaxNalu       (* bound: parameter sets and slices in an access unit    *)

ASSUME ConstantsAssumption ==
    /\ AnySlices \subseteq SliceHeaders /\ Types \subseteq NalTypes
    /\ StreamPocs \subseteq Int /\ Tid0s \subseteq BOOLEAN
    /\ SpsSet \subseteq [res: Nat \ {0}, size: Nat, buffering: Nat, reorder: Nat, latency: Nat]
    /\ Ends \subseteq {"eos", "eob"}
    /\ CanFail \subseteq {"alloc", "decode", "display"}
    /\ Interruptions \subseteq {"drain", "flush", "stop"}
    /\ Conforming \in BOOLEAN
    /\ MaxAus \in Nat /\ MaxNalu \in Nat

VARIABLES
    phase,          \* where the streaming thread is
    after,          \* where drain_internal returns to
    ret,            \* the flow return of the call in progress
    aus,            \* access units handled; the current frame
    nalu,           \* priv->nalu: the units of the access unit, not decoded yet
    cur,            \* priv->current_picture; its id is 0 when there is none
    sets,           \* the RefPicSets, which hold references on their pictures
    data,           \* the reference arrays of the picture data
    dpb,            \* priv->dpb
    sps,            \* the sequence parameter set held by the parser
    res,            \* priv->width, priv->height
    max_latency,    \* priv->SpsMaxLatencyPictures
    no_output,      \* priv->no_output_of_prior_pics_flag
    new_bitstream,  \* priv->new_bitstream
    prev_nal_is_eos,\* priv->prev_nal_is_eos
    irap_no_rasl,   \* priv->associated_irap_NoRaslOutputFlag
    prev_tid0,      \* priv->prev_tid0pic_poc_lsb and priv->prev_tid0pic_poc_msb
    pending,        \* frames the GstVideoDecoder class still holds
    held,           \* client buffers that are not released
    submitted,      \* pictures DecodePicture was called for
    shown,          \* pictures DisplayPicture accepted
    discarded,      \* pictures dropped on purpose or refused by the client
    refused,        \* the ones the client refused to display
    stream,         \* the pictures of a conforming stream
    begin           \* how its next picture must begin: "any", "irap", "idr"

callVars == <<after, ret, nalu, cur, data, no_output>>
picVars == <<sets, irap_no_rasl, prev_tid0>>
spsVars == <<sps, res, max_latency>>
endVars == <<new_bitstream, prev_nal_is_eos>>
clientVars == <<held, submitted, shown, discarded, refused>>
streamVars == <<stream, begin>>
vars == <<phase, callVars, aus, dpb, picVars, spsVars, endVars, pending, clientVars, streamVars>>

-----------------------------------------------------------------------------
Phases == {"idle", "nals", "decode", "drain", "newseq", "begin", "clear", "room",
           "start", "bump", "fail", "stopped"}

Frames == 1..MaxAus

NoPicture ==
    [id |-> 0, order |-> 0, poc |-> 0, lsb |-> 0, ref |-> FALSE, long_term |-> FALSE,
     output_flag |-> FALSE, needed_for_output |-> FALSE, latency |-> 0]

NoSps == [res |-> 0, size |-> 0, buffering |-> 0, reorder |-> 0, latency |-> 0]

NoData == [RefPics |-> {}, StCurrBefore |-> {}, StCurrAfter |-> {}, LtCurr |-> {}, Long |-> {}]

(* A slice and what parse_slice works out for it. "first" is its           *)
(* first_slice_segment_in_pic_flag.                                        *)
SliceUnit(h, first, noRasl, clear, noOutput) ==
    [kind |-> "slice", header |-> h, first |-> first, no_rasl |-> noRasl,
     clear |-> clear, no_output |-> noOutput]
SliceUnits ==
    [kind: {"slice"}, header: SliceHeaders, first: BOOLEAN, no_rasl: BOOLEAN, clear: BOOLEAN,
     no_output: BOOLEAN]
SpsUnits == [kind: {"sps"}, sps: SpsSet]

-----------------------------------------------------------------------------
Init ==
    /\ phase = "idle" /\ after = "idle" /\ ret = "ok"
    /\ aus = 0 /\ nalu = <<>> /\ cur = NoPicture
    /\ sets = NoRefPicSets /\ data = NoData
    /\ dpb = NewDpb
    /\ sps = NoSps /\ res = 0 /\ max_latency = 0
    /\ no_output = FALSE /\ new_bitstream = TRUE /\ prev_nal_is_eos = FALSE
    /\ irap_no_rasl = FALSE /\ prev_tid0 = [lsb |-> 0, msb |-> 0]
    /\ pending = {} /\ held = {} /\ submitted = {} /\ shown = {} /\ discarded = {}
    /\ refused = {}
    /\ stream = <<>> /\ begin = "irap"

(* A call of the base class returns; handle_frame resets the frame state.  *)
Return ==
    /\ phase' = "idle" /\ after' = "idle" /\ ret' = "ok"
    /\ nalu' = <<>> /\ cur' = NoPicture /\ data' = NoData
    /\ no_output' = FALSE

HandleFrame ==
    /\ phase = "idle" /\ aus < MaxAus
    /\ aus' = aus + 1
    /\ pending' = pending \union {aus + 1}
    /\ phase' = "nals"
    /\ UNCHANGED <<callVars, dpb, picVars, spsVars, endVars, clientVars, streamVars>>

-----------------------------------------------------------------------------
(* Parsing the units of the access unit.                                   *)

HasSlice == \E n \in DOMAIN nalu : nalu[n].kind = "slice"

(* A conforming stream has a set wherever a sequence begins.               *)
ParseSps(s) ==
    /\ phase = "nals" /\ Len(nalu) < MaxNalu
    /\ Conforming => nalu = <<>>
    /\ sps' = s
    /\ nalu' = Append(nalu, [kind |-> "sps", sps |-> s])
    /\ UNCHANGED <<phase, after, ret, cur, data, no_output, aus, dpb, picVars, res,
                   max_latency, endVars, pending, clientVars, streamVars>>

NoRaslOutput_CraIsFirst(type) == type \in IrapTypes \/ prev_nal_is_eos
NoRaslOutput(type) ==
    type \in {"IDR", "BLA"} \/ (type = "CRA" /\ new_bitstream) \/ prev_nal_is_eos

(* The rest of parse_slice; after any slice the stream is neither new nor  *)
(* just ended.                                                             *)
ParseSlice(h, first) ==
    /\ phase = "nals" /\ Len(nalu) < MaxNalu /\ sps # NoSps
    /\ LET clear == h.type \in IrapTypes /\ NoRaslOutput(h.type) /\ ~new_bitstream
           noOutput == clear /\ (h.type = "CRA" \/ h.no_output_of_prior_pics)
       IN  /\ nalu' = Append(nalu, SliceUnit(h, first, NoRaslOutput(h.type), clear, noOutput))
           /\ no_output' = (no_output \/ noOutput)
    /\ new_bitstream' = FALSE /\ prev_nal_is_eos' = FALSE
    /\ UNCHANGED <<phase, after, ret, cur, data, aus, dpb, picVars, spsVars, pending,
                   clientVars>>

(* The slices of an access unit repeat what is modelled of the header.     *)
ParseAnySlice ==
    /\ ~Conforming
    /\ \E h \in AnySlices, first \in BOOLEAN :
           /\ \A n \in DOMAIN nalu : nalu[n].kind = "slice" => nalu[n].header = h
           /\ ParseSlice(h, first)
    /\ UNCHANGED streamVars

(* The next picture of a conforming stream, in one slice.                  *)
ParsePicture(x) ==
    /\ \E noOutput \in IF x.starts THEN BOOLEAN ELSE {FALSE} :
           ParseSlice(SliceOf(stream, x, noOutput), TRUE)
    /\ stream' = Append(stream, x)
    /\ begin' = "any"

ParseNextPicture ==
    /\ phase = "nals" /\ Conforming /\ ~HasSlice /\ sps # NoSps
    /\ \E type \in Types, poc \in StreamPocs, tid0 \in Tid0s :
         LET x == Begun(stream, type, poc, tid0, begin)
         IN  /\ x.starts = (nalu # <<>>)
             /\ TypeConforms(stream, x, begin)
             /\ OrderConforms(stream, x)
             /\ \E y \in Continuations(stream, x) :
                    /\ ReferencesConform(stream, y, sps)
                    /\ OutputConforms(stream, y, sps)
                    /\ ParsePicture(y)

ParseEnd(end) ==
    /\ phase = "nals" /\ end \in Ends
    /\ Conforming => HasSlice
    /\ IF end = "eos"
       THEN prev_nal_is_eos' = TRUE /\ UNCHANGED new_bitstream
       ELSE new_bitstream' = TRUE /\ UNCHANGED prev_nal_is_eos
    /\ begin' = IF Conforming THEN "irap" ELSE begin
    /\ UNCHANGED <<phase, callVars, aus, dpb, picVars, spsVars, pending, clientVars, stream>>

(* The end of the data, or a unit that can not be parsed: what was parsed  *)
(* before is decoded.                                                      *)
ParseOver ==
    /\ phase = "nals"
    /\ Conforming => HasSlice
    /\ phase' = "decode"
    /\ UNCHANGED <<callVars, aus, dpb, picVars, spsVars, endVars, pending, clientVars,
                   streamVars>>

(* A slice that can not be parsed has its effect on the two flags.         *)
BadSlice ==
    /\ phase = "nals" /\ ~Conforming
    /\ phase' = "decode"
    /\ new_bitstream' = FALSE /\ prev_nal_is_eos' = FALSE
    /\ UNCHANGED <<callVars, aus, dpb, picVars, spsVars, pending, clientVars, streamVars>>

-----------------------------------------------------------------------------
(* The last reference on a buffer is gone when neither the buffer of       *)
(* pictures nor a RefPicSet refers to its picture.                         *)
Released_Twice(gone, d, refSets) == gone \ Referred(refSets)
Released(gone, d, refSets) == gone \ (Ids(d.pic_list) \union Referred(refSets))

(* do_output_picture of p and the call of DisplayPicture; p leaves the     *)
(* buffer or stays in it. The RefPicSets may still refer to a picture that *)
(* left, as they do after a drain.                                         *)
OutputPicture(p, leaves) ==
    /\ held' = IF leaves THEN held \ Released({p.id}, DpbClear(dpb), sets) ELSE held
    /\ \/ /\ p.id \in pending
          /\ shown' = shown \union {p.id}
          /\ pending' = pending \ {p.id}
          /\ UNCHANGED <<ret, discarded, refused>>
       \/ /\ p.id \notin pending \/ "display" \in CanFail
          /\ discarded' = discarded \union {p.id} /\ refused' = refused \union {p.id}
          /\ ret' = "error"
          /\ UNCHANGED <<shown, pending>>

(* One turn of a loop that bumps.                                          *)
BumpTurn(drain) ==
    /\ \E low \in NeededForOutput(dpb) :
        /\ IsLowestOutputNeeded(dpb, low)
        /\ OutputPicture(low, Leaves(low, drain))
        /\ dpb' = Bump(dpb, low, drain)
    /\ UNCHANGED <<phase, after, nalu, cur, data, no_output, aus, picVars, spsVars,
                   endVars, submitted, streamVars>>

(* clear_dpb: the pictures go unseen. Their frames are released here,      *)
(* unless the class forgets them itself, as on a flush.                    *)
ClearDpb(flush) ==
    /\ dpb' = DpbClear(dpb)
    /\ pending' = IF flush THEN {} ELSE pending \ Ids(NeededForOutput(dpb))
    /\ discarded' = discarded \union Ids(NeededForOutput(dpb))
    /\ held' = held \ Released(Ids(dpb.pic_list), DpbClear(dpb), sets)

(* drain_internal: one turn of its loop, and what follows the loop.        *)
DrainTurn == phase = "drain" /\ BumpTurn(TRUE)

DrainOver ==
    /\ phase = "drain"
    /\ NeededForOutput(dpb) = {}
    /\ dpb' = DpbClear(dpb)
    /\ held' = held \ Released(Ids(dpb.pic_list), DpbClear(dpb), sets)
    /\ IF after = "idle" THEN Return
       ELSE /\ phase' = IF ret = "error" THEN "fail" ELSE after
            /\ after' = "idle"
            /\ UNCHANGED <<ret, nalu, cur, data, no_output>>
    /\ UNCHANGED <<aus, picVars, spsVars, endVars, pending, submitted, shown, discarded,
                   refused, streamVars>>

-----------------------------------------------------------------------------
(* process_sps. A set that changes the resolution or the size of the       *)
(* buffer empties the buffer first; SpsMaxLatencyPictures is left alone by *)
(* one that has no limit.                                                  *)
NextIs(kind) == phase = "decode" /\ nalu # <<>> /\ Head(nalu).kind = kind

Latency_Unlimited(s) == s.reorder + s.latency - 1
Latency(s) == IF s.latency # 0 THEN s.reorder + s.latency - 1 ELSE max_latency

Changes(s) == res # s.res \/ dpb.max_num_pics # s.size

KeepSps ==
    /\ NextIs("sps") /\ ~Changes(Head(nalu).sps)
    /\ max_latency' = Latency(Head(nalu).sps)
    /\ nalu' = Tail(nalu)
    /\ UNCHANGED <<phase, after, ret, cur, data, no_output, aus, dpb, picVars, sps, res,
                   endVars, pending, clientVars, streamVars>>

ChangeSps ==
    /\ NextIs("sps") /\ Changes(Head(nalu).sps)
    /\ IF no_output
       THEN phase' = "newseq" /\ after' = after /\ ClearDpb(FALSE)
       ELSE phase' = "drain" /\ after' = "newseq"
            /\ UNCHANGED <<dpb, pending, held, discarded>>
    /\ UNCHANGED <<ret, nalu, cur, data, no_output, aus, picVars, spsVars, endVars,
                   submitted, shown, refused, streamVars>>

(* klass->new_sequence tells the client.                                   *)
NewSequence ==
    /\ phase = "newseq"
    /\ LET s == Head(nalu).sps
       IN  /\ res' = s.res
           /\ dpb' = [dpb EXCEPT !.max_num_pics = s.size]
           /\ max_latency' = Latency(s)
    /\ nalu' = Tail(nalu)
    /\ phase' = "decode"
    /\ UNCHANGED <<after, ret, cur, data, no_output, aus, picVars, sps, endVars,
                   pending, clientVars, streamVars>>

-----------------------------------------------------------------------------
(* process_slice when a picture is in progress: a slice of that picture,   *)
(* or the first one of another, which is an error.                         *)
MoreSlice ==
    /\ NextIs("slice") /\ cur.id # 0
    /\ IF Head(nalu).first THEN phase' = "fail" /\ nalu' = nalu
       ELSE phase' = phase /\ nalu' = Tail(nalu)
    /\ UNCHANGED <<after, ret, cur, data, no_output, aus, dpb, picVars, spsVars,
                   endVars, pending, clientVars, streamVars>>

(* The client has no buffer for the picture.                               *)
NewPictureFails ==
    /\ NextIs("slice") /\ cur.id = 0
    /\ "alloc" \in CanFail
    /\ phase' = "fail"
    /\ UNCHANGED <<callVars, aus, dpb, picVars, spsVars, endVars, pending, clientVars,
                   streamVars>>

(* calculate_poc.                                                          *)
PocMsb_NeverBack(lsb) ==
    IF lsb < prev_tid0.lsb /\ prev_tid0.lsb - lsb >= MaxLsb \div 2 THEN prev_tid0.msb + MaxLsb
    ELSE prev_tid0.msb

PocMsb(lsb) ==
    LET prev == prev_tid0
    IN  IF lsb < prev.lsb /\ prev.lsb - lsb >= MaxLsb \div 2 THEN prev.msb + MaxLsb
        ELSE IF lsb > prev.lsb /\ lsb - prev.lsb > MaxLsb \div 2 THEN prev.msb - MaxLsb
        ELSE prev.msb

CountsForNext(h) == h.tid0 /\ h.type \in IrapTypes \union {"TRAIL"}

(* init_current_picture; "irap" is associated_irap_NoRaslOutputFlag with   *)
(* this picture's own value when it is an IRAP picture.                    *)
IrapNoRasl(unit) ==
    IF unit.header.type \in IrapTypes THEN unit.no_rasl ELSE irap_no_rasl

PictureOf(unit) ==
    LET h == unit.header
        msb == IF h.type \in IrapTypes /\ unit.no_rasl THEN 0 ELSE PocMsb(h.lsb)
    IN  [NoPicture EXCEPT
            !.id = aus, !.poc = msb + h.lsb, !.lsb = h.lsb,
            !.output_flag = h.pic_output_flag /\ ~(h.type = "RASL" /\ IrapNoRasl(unit))]

Drops(unit) == unit.header.type = "RASL" /\ IrapNoRasl(unit)

(* new_picture and init_current_picture.                                   *)
NewPicture ==
    /\ NextIs("slice") /\ cur.id = 0
    /\ LET unit == Head(nalu)
           p == PictureOf(unit)
       IN  /\ cur' = p
           /\ irap_no_rasl' = IrapNoRasl(unit)
           /\ prev_tid0' = IF CountsForNext(unit.header)
                           THEN [lsb |-> p.lsb, msb |-> p.poc - p.lsb] ELSE prev_tid0
    /\ held' = held \union {aus}
    /\ phase' = "begin"
    /\ UNCHANGED <<after, ret, nalu, data, no_output, aus, dpb, sets, spsVars, endVars, pending,
                   submitted, shown, discarded, refused, streamVars>>

(* A RASL picture that can not be decoded.                                 *)
DropPicture ==
    /\ phase = "begin" /\ Drops(Head(nalu))
    /\ cur' = NoPicture
    /\ held' = held \ {cur.id}
    /\ nalu' = Tail(nalu)
    /\ phase' = "decode"
    /\ UNCHANGED <<after, ret, data, no_output, aus, dpb, picVars, spsVars, endVars, pending,
                   submitted, shown, discarded, refused, streamVars>>

(* prepare_rps: the references of the current picture, none of them of the *)
(* sequence before.                                                        *)
RefsReset(unit) ==
    IF unit.header.type \in IrapTypes /\ unit.no_rasl THEN MarkAllNonRef(dpb) ELSE dpb

Entries(unit) == IF unit.header.type = "IDR" THEN NoEntries ELSE unit.header.rps

(* prepare_rps, and dpb_init up to its loop.                               *)
PreparePicture ==
    /\ phase = "begin" /\ ~Drops(Head(nalu))
    /\ LET unit == Head(nalu)
           d == MarkRps(RefsReset(unit), Entries(unit), cur.poc)
           unseen == unit.clear /\ unit.no_output
       IN  /\ sets' = RefPicSetsOf(RefsReset(unit), Entries(unit), cur.poc)
           /\ phase' = IF unseen THEN "start" ELSE IF unit.clear THEN "clear" ELSE "room"
           /\ dpb' = IF unseen THEN DpbClear(d) ELSE DeleteUnused(d)
           /\ held' = held \ Released(Ids(dpb.pic_list) \union Referred(sets), dpb', sets')
           /\ pending' = IF unseen THEN pending \ Ids(NeededForOutput(d)) ELSE pending
           /\ discarded' = IF unseen THEN discarded \union Ids(NeededForOutput(d))
                           ELSE discarded
    /\ UNCHANGED <<after, ret, nalu, cur, data, no_output, aus, irap_no_rasl, prev_tid0, spsVars,
                   endVars, submitted, shown, refused, streamVars>>

-----------------------------------------------------------------------------
(* dpb_init. An IRAP picture that begins a sequence outputs everything,    *)
(* any other picture what is needed to make room for it.                   *)
ClearTurn == phase = "clear" /\ BumpTurn(FALSE)

MakesRoom == NeedsBump(dpb, sps.reorder, max_latency, sps.buffering)
RoomTurn == phase = "room" /\ MakesRoom /\ BumpTurn(FALSE)

(* The loop ends, also for want of a picture to output.                    *)
InitOver ==
    /\ \/ phase = "clear" /\ NeededForOutput(dpb) = {}
       \/ phase = "room" /\ (~MakesRoom \/ NeededForOutput(dpb) = {})
    /\ phase' = IF ret = "error" THEN "fail" ELSE "start"
    /\ UNCHANGED <<callVars, aus, dpb, picVars, spsVars, endVars, pending, clientVars,
                   streamVars>>

(* klass->start_picture: RefPics takes the references of the buffer, 16 at *)
(* most, and the three arrays their places in it, found by order count.    *)
RefPic(p) == Ids(First({q \in References(dpb) : q.poc = p.poc}))
RefPicsOf(S) == UNION {RefPic(p) : p \in {q \in dpb.pic_list : q.id \in S}}

StartPicture ==
    /\ phase = "start"
    /\ IF Cardinality(References(dpb)) > 16
       THEN phase' = "fail" /\ UNCHANGED <<data, nalu>>
       ELSE /\ phase' = "decode"
            /\ nalu' = Tail(nalu)
            /\ data' = [RefPics |-> Ids(References(dpb)),
                        StCurrBefore |-> RefPicsOf(sets.StCurrBefore),
                        StCurrAfter |-> RefPicsOf(sets.StCurrAfter),
                        LtCurr |-> RefPicsOf(sets.LtCurr),
                        Long |-> Ids({p \in References(dpb) : p.long_term})]
    /\ UNCHANGED <<after, ret, cur, no_output, aus, dpb, picVars, spsVars, endVars,
                   pending, clientVars, streamVars>>

(* handle_frame after an error: drop_frame and clear current_picture.      *)
FailFrame_KeepsPicture ==
    /\ phase = "fail"
    /\ Return
    /\ pending' = pending \ {aus}
    /\ UNCHANGED <<aus, dpb, picVars, spsVars, endVars, clientVars, streamVars>>

FailFrame ==
    /\ phase = "fail"
    /\ Return
    /\ pending' = pending \ {aus}
    /\ held' = held \ {cur.id}
    /\ UNCHANGED <<aus, dpb, picVars, spsVars, endVars, submitted, shown, discarded,
                   refused, streamVars>>

(* The access unit gave no picture: its frame is released.                 *)
NoPictureInFrame ==
    /\ phase = "decode" /\ nalu = <<>> /\ cur.id = 0
    /\ Return
    /\ pending' = pending \ {aus}
    /\ UNCHANGED <<aus, dpb, picVars, spsVars, endVars, clientVars, streamVars>>

(* finish_current_picture up to the bumping. The picture is stored even if *)
(* DecodePicture returned false; one that is not output loses its frame.   *)
FinishPicture_KeepsFrame ==
    /\ phase = "decode" /\ nalu = <<>> /\ cur.id # 0
    /\ submitted' = submitted \union {cur.id}
    /\ IF "decode" \in CanFail THEN ret' \in {"ok", "error"} ELSE ret' = ret
    /\ dpb' = DpbAdd(DeleteUnused(dpb), cur)
    /\ held' = held \ Released(Ids(Unused(dpb)), DeleteUnused(dpb), sets)
    /\ discarded' = IF cur.output_flag THEN discarded ELSE discarded \union {cur.id}
    /\ cur' = NoPicture
    /\ phase' = "bump"
    /\ UNCHANGED <<after, nalu, data, no_output, aus, picVars, spsVars, endVars, pending,
                   shown, refused, streamVars>>

FinishPicture ==
    /\ phase = "decode" /\ nalu = <<>> /\ cur.id # 0
    /\ submitted' = submitted \union {cur.id}
    /\ IF "decode" \in CanFail THEN ret' \in {"ok", "error"} ELSE ret' = ret
    /\ dpb' = DpbAdd(DeleteUnused(dpb), cur)
    /\ held' = held \ Released(Ids(Unused(dpb)), DeleteUnused(dpb), sets)
    /\ IF cur.output_flag THEN UNCHANGED <<pending, discarded>>
       ELSE pending' = pending \ {cur.id} /\ discarded' = discarded \union {cur.id}
    /\ cur' = NoPicture
    /\ phase' = "bump"
    /\ UNCHANGED <<after, nalu, data, no_output, aus, picVars, spsVars, endVars,
                   shown, refused, streamVars>>

BumpsMore == NeedsBump(dpb, sps.reorder, max_latency, 0)
FinishTurn == phase = "bump" /\ BumpsMore /\ BumpTurn(FALSE)

FrameDone ==
    /\ phase = "bump"
    /\ ~BumpsMore \/ NeededForOutput(dpb) = {}
    /\ Return
    /\ UNCHANGED <<aus, dpb, picVars, spsVars, endVars, pending, clientVars, streamVars>>

-----------------------------------------------------------------------------
(* The other calls of the GstVideoDecoder class. drain and finish are the  *)
(* same function. The RefPicSets outlive a drain and a flush.              *)
(* A conforming stream is drained at its end.                              *)
Interrupted(call, beginning) ==
    /\ phase = "idle" /\ call \in Interruptions
    /\ Conforming => IF call = "drain" THEN aus = MaxAus ELSE begin = "any"
    /\ begin' = IF Conforming /\ begin = "any" THEN beginning ELSE begin

Drain ==
    /\ Interrupted("drain", "idr")
    /\ phase' = "drain" /\ after' = "idle"
    /\ UNCHANGED <<ret, nalu, cur, data, no_output, aus, dpb, picVars, spsVars, endVars,
                   pending, clientVars, stream>>

Flush ==
    /\ Interrupted("flush", "idr")
    /\ ClearDpb(TRUE)
    /\ UNCHANGED <<phase, callVars, aus, picVars, spsVars, endVars, submitted, shown,
                   refused, stream>>

(* The parser and the buffer are freed, the RefPicSets cleared, and the    *)
(* class forgets its frames; the resolution, SpsMaxLatencyPictures and     *)
(* what calculate_poc keeps survive.                                       *)
Stop ==
    /\ Interrupted("stop", "irap")
    /\ phase' = "stopped"
    /\ dpb' = NewDpb /\ sps' = NoSps /\ sets' = NoRefPicSets
    /\ pending' = {}
    /\ discarded' = discarded \union Ids(NeededForOutput(dpb))
    /\ held' = held \ Released(Ids(dpb.pic_list) \union Referred(sets), NewDpb, NoRefPicSets)
    /\ UNCHANGED <<callVars, aus, irap_no_rasl, prev_tid0, res, max_latency, endVars,
                   submitted, shown, refused, stream>>

Start ==
    /\ phase = "stopped"
    /\ phase' = "idle"
    /\ new_bitstream' = TRUE /\ prev_nal_is_eos' = FALSE
    /\ UNCHANGED <<callVars, aus, dpb, picVars, spsVars, pending, clientVars, streamVars>>

-----------------------------------------------------------------------------
Parsing ==
    \/ \E s \in SpsSet : ParseSps(s)
    \/ ParseAnySlice \/ ParseNextPicture
    \/ \E end \in Ends : ParseEnd(end)
    \/ ParseOver \/ BadSlice
Decoding ==
    \/ KeepSps \/ ChangeSps \/ NewSequence
    \/ MoreSlice \/ NewPictureFails \/ NewPicture \/ DropPicture \/ PreparePicture
    \/ InitOver \/ StartPicture
    \/ FailFrame \/ NoPictureInFrame \/ FinishPicture \/ FrameDone
Bumping == ClearTurn \/ RoomTurn \/ FinishTurn \/ DrainTurn \/ DrainOver

(* What the streaming thread does until its call returns.                  *)
Work == Parsing \/ Decoding \/ Bumping
Calls == HandleFrame \/ Drain \/ Flush \/ Stop \/ Start

Next == Work \/ Calls

Spec == Init /\ [][Next]_vars

(* The thread is never stopped in the middle of a call.                    *)
FairSpec == Spec /\ WF_vars(Work)

-----------------------------------------------------------------------------
(* The state has the shape the C structures give it.                       *)
TypeOK ==
    /\ phase \in Phases /\ after \in {"idle", "newseq"} /\ ret \in {"ok", "error"}
    /\ aus \in 0..MaxAus
    /\ nalu \in Seq(SpsUnits \union SliceUnits) /\ Len(nalu) <= MaxNalu
    /\ cur \in Picture
    /\ sets \in RefPicSets
    /\ data \in [RefPics: SUBSET Nat, StCurrBefore: SUBSET Nat, StCurrAfter: SUBSET Nat,
                  LtCurr: SUBSET Nat, Long: SUBSET Nat]
    /\ dpb \in Dpb
    /\ sps \in SpsSet \union {NoSps} /\ res \in Nat /\ max_latency \in Nat
    /\ {no_output, new_bitstream, prev_nal_is_eos, irap_no_rasl} \subseteq BOOLEAN
    /\ prev_tid0 \in [lsb: Nat, msb: Int]
    /\ pending \subseteq Frames /\ held \subseteq Frames
    /\ submitted \subseteq Frames /\ shown \subseteq Frames /\ discarded \subseteq Frames
    /\ refused \subseteq Frames
    /\ begin \in {"any", "irap", "idr"}

(* num_output_needed counts exactly the pictures that wait for their       *)
(* output; bump and needs_bump assert that it never gets negative.         *)
OutputCounter == dpb.num_output_needed = Cardinality(NeededForOutput(dpb))

(* A client's buffer is held exactly while a picture of the buffer, the    *)
(* current picture or an entry of the RefPicSets refers to it: none leaks  *)
(* on an error path or with a dropped RASL picture, and none is given back *)
(* that a reference picture set still names.                               *)
BuffersAccounted == held = (Ids(dpb.pic_list) \union Referred(sets) \union {cur.id}) \ {0}

(* A picture waiting for its output still has its codec frame, and between *)
(* calls the GstVideoDecoder class keeps no other frame but the ones of    *)
(* pictures the client refused to display: a dropped RASL picture, an      *)
(* access unit without a picture, a failed one, a picture that is not      *)
(* output and one that is cleared unseen all give theirs back.             *)
FramesOwed ==
    /\ Ids(NeededForOutput(dpb)) \subseteq pending
    /\ phase = "idle" => pending \subseteq Ids(NeededForOutput(dpb)) \union refused

(* A picture passed to DecodePicture is shown, waits for it, or was        *)
(* dropped for a reason the stream or the application gave or because the  *)
(* client refused it.                                                      *)
NothingLost ==
    submitted \subseteq shown \union discarded \union Ids(NeededForOutput(dpb))

-----------------------------------------------------------------------------
(* Conforming streams.                                                     *)

(* The picture order count worked out from its lowest bits is the one the  *)
(* encoder meant, across sequences, dropped pictures and wrap-arounds.     *)
PocAsMeant == Conforming /\ cur.id # 0 => cur.poc = stream[cur.id].poc

(* The references handed to the client with a picture are the ones its     *)
(* encoder kept, every entry the picture is predicted from is found, and   *)
(* the long-term marks agree.                                              *)
ReferencesAsMeant ==
    Conforming /\ phase = "decode" /\ cur.id # 0 =>
        LET x == stream[cur.id]
        IN  /\ data.RefPics = x.keep
            /\ data.StCurrBefore \union data.StCurrAfter = x.curr \ x.long
            /\ \A k \in data.StCurrBefore : stream[k].poc < x.poc
            /\ data.LtCurr = x.curr \intersect x.long
            /\ data.Long = x.long

(* Exactly the pictures that can be decoded reach the client: RASL         *)
(* pictures do unless their IRAP picture begins a sequence.                *)
DecodedAsMeant ==
    Conforming /\ phase = "idle" => submitted = {n \in 1..Len(stream) : ~stream[n].skip}

(* Bumping before and after a picture always finds it the room that        *)
(* sps_max_dec_pic_buffering promises: the buffer holds fewer pictures     *)
(* when one starts, and no more when one is done.                          *)
DpbWithinSize ==
    Conforming => /\ phase = "start" => Cardinality(dpb.pic_list) < sps.buffering
                  /\ phase = "idle" => Cardinality(dpb.pic_list) <= sps.buffering

(* Until the first picture of a sequence has its buffer cleared, pictures  *)
(* and RefPicSets of the sequence before, which may be larger, are left.   *)
Renewing ==
    cur.id # 0 /\ stream[cur.id].starts /\ phase \in {"begin", "clear", "room"}

(* With the pictures of the buffer, the current one and the ones the       *)
(* RefPicSets keep alive after a drain, the decoder never holds more than  *)
(* one client buffer over the size of the sequence in force:               *)
(* nMinNumDecodeSurfaces, MIN(max_dpb_size + 1, 8), are enough for every   *)
(* size of 7 or less.                                                      *)
BuffersWithinSequence ==
    Conforming /\ (cur.id # 0 \/ phase = "idle") /\ ~Renewing =>
        Cardinality(held) <= sps.buffering + 1

(* Pictures are shown in output order: by coded video sequence, and by     *)
(* picture order count within one. "Outputting out of order" is then what  *)
(* the code calls it, the sign of a broken stream.                         *)
Precedes(m, n) ==
    \/ stream[m].cvs < stream[n].cvs
    \/ stream[m].cvs = stream[n].cvs /\ stream[m].poc < stream[n].poc

ShownInOrder ==
    [][Conforming => \A n \in shown' \ shown, m \in shown : Precedes(m, n)]_vars

-----------------------------------------------------------------------------
(* Every call into the decoder returns: the bumping loops and the drain    *)
(* end whatever the client answers.                                        *)
Resting == phase \in {"idle", "stopped"}
CallsReturn == ~Resting ~> Resting

(* The application sees its buffers used as ClientPictures says, with the  *)
(* pictures it was asked to decode in the place of those it decoded.       *)
Client == INSTANCE ClientPictures WITH Pictures <- Frames, decoded <- submitted
ClientSpec == Client!Spec
=============================================================================
