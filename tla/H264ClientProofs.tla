-------------------------- MODULE H264ClientProofs --------------------------
(***************************************************************************)
(* Theorems about what H264Decoder hands to the client, for every value of *)
(* the constants: no buffer is leaked, no decoded picture is lost, the     *)
(* callbacks come in the order ClientPictures promises, and a picture is   *)
(* decoded with the references its stream means.                           *)
(***************************************************************************)
EXTENDS H264DecoderProofs

(* Before and after end_picture handed the picture in progress over.       *)
BeforeEnd ==
    \/ InHeaders
    \/ phase \in {"gap", "gapbump", "slices", "fail"}
    \/ phase = "drain" /\ after = "slices"
AfterEnd == phase \in {"marking", "bump"} \/ (phase = "drain" /\ after = "bump")

(* The buffers of all pictures the decoder has are held.                   *)
Backed == (Ids(dpb.pic_list) \union {cur.id}) \ {0} \subseteq held

(* And no others, unless the client may refuse to decode.                  *)
NoLeak == "decode" \in CanFail \/ held \subseteq Ids(dpb.pic_list) \union {cur.id}

(* How far the client has got with each picture.                           *)
Stages ==
    /\ \A n \in held \union decoded \union shown : n <= aus
    /\ InHeaders => aus \notin held
    /\ BeforeEnd => aus \notin decoded
    /\ AfterEnd => aus \in decoded
    /\ BeforeEnd \/ AfterEnd => aus \notin shown
    /\ Ids(NeededForOutput(dpb)) \subseteq decoded \ shown
    /\ shown \subseteq decoded

(* The frames the GstVideoDecoder class holds, unless the client may refuse*)
(* to display: the one in progress, those waiting for their output, and    *)
(* none else that was decoded.                                             *)
Owed ==
    "display" \in CanFail \/
        /\ BeforeEnd \/ AfterEnd => aus \in pending
        /\ \A n \in pending : n <= aus
        /\ Ids(NeededForOutput(dpb)) \subseteq pending
        /\ pending \intersect decoded \subseteq Ids(NeededForOutput(dpb)) \union {cur.id}

ClientInv == Backed /\ NoLeak /\ Stages /\ NothingLost /\ Owed
-----------------------------------------------------------------------------
(* The picture in progress is none of those in the buffer.                 *)
LEMMA CurrentApart ==
  ASSUME IInv
  PROVE  cur.id = 0 \/ cur.id \notin Ids(dpb.pic_list)
BY DEF IInv, CurrentPicture, StoredEarlier

LEMMA HeldAreFrames == IInv => 0 \notin held
BY DEF IInv, TypeOK, Frames

LEMMA IdsWithout ==
  ASSUME NEW d, DpbOk(d), NEW S \in SUBSET d.pic_list
  PROVE  Ids(d.pic_list \ S) \ {0} = (Ids(d.pic_list) \ Ids(S)) \ {0}
BY DEF DpbOk, Named, Ids

LEMMA NeededIds ==
  ASSUME NEW d, DpbOk(d)
  PROVE  /\ Ids(NeededForOutput(d)) \subseteq Ids(d.pic_list) \ {0}
         /\ \A p \in NeededForOutput(d) :
              Ids(NeededForOutput(d) \ {p}) = Ids(NeededForOutput(d)) \ {p.id}
BY DEF DpbOk, Named, Ids, NeededForOutput

(* do_output_picture shows a picture that is ready for it, or refuses it.  *)
LEMMA OutputPictureShows ==
  ASSUME NEW p, p.id \in Frames, p.id \in (held \intersect decoded) \ shown, NEW leaves,
         OutputPicture(p, leaves), decoded' = decoded
  PROVE  /\ shown \subseteq shown' /\ shown' \subseteq shown \union {p.id}
         /\ discarded \subseteq discarded'
         /\ p.id \in shown' \union discarded'
         /\ held' = IF leaves THEN held \ {p.id} ELSE held
         /\ "display" \in CanFail \/ p.id \notin pending \/ pending' = pending \ {p.id}
         /\ [Client!Next]_(Client!vars)
<1>1. /\ shown \subseteq shown' /\ shown' \subseteq shown \union {p.id}
      /\ discarded \subseteq discarded'
      /\ p.id \in shown' \union discarded'
      /\ held' = IF leaves THEN held \ {p.id} ELSE held
      /\ "display" \in CanFail \/ p.id \notin pending \/ pending' = pending \ {p.id}
  BY DEF OutputPicture
<1>2. CASE shown' = shown \union {p.id}
  <2>1. Client!Show(p.id)
    BY <1>1, <1>2 DEF Client!Show
  <2>2. Client!Next
    BY <2>1 DEF Client!Next
  <2> QED
    BY <1>1, <2>2
<1>3. CASE shown' = shown
  <2>1. Client!Release
    BY <1>1, <1>3 DEF Client!Release
  <2>2. Client!Next
    BY <2>1 DEF Client!Next
  <2> QED
    BY <1>1, <2>2
<1> QED
  BY <1>1, <1>2, <1>3 DEF OutputPicture

(* Bumping, while decoding or draining.                                    *)
LEMMA BumpClient ==
  ASSUME IInv, IInv', ClientInv, NEW p \in NeededForOutput(dpb), NEW drain \in BOOLEAN,
         OutputPicture(p, Leaves(p, drain)), dpb' = Bump(dpb, p, drain),
         UNCHANGED <<phase, after, aus, cur, decoded>>
  PROVE  /\ ClientInv' /\ [Client!Next]_(Client!vars)
         /\ held' = IF Leaves(p, drain) THEN held \ {p.id} ELSE held
         /\ Ids(dpb'.pic_list) =
              IF Leaves(p, drain) THEN Ids(dpb.pic_list) \ {p.id} ELSE Ids(dpb.pic_list)
<1>1. /\ p.id \in Frames /\ p.id \in Ids(dpb.pic_list) /\ p.id # 0
      /\ p.id \in Ids(NeededForOutput(dpb))
  BY NeededAreFrames DEF Ids, Frames
<1>2. p.id \in (held \intersect decoded) \ shown
  BY <1>1 DEF ClientInv, Backed, Stages
<1>3. /\ shown \subseteq shown' /\ shown' \subseteq shown \union {p.id}
      /\ discarded \subseteq discarded'
      /\ p.id \in shown' \union discarded'
      /\ held' = IF Leaves(p, drain) THEN held \ {p.id} ELSE held
      /\ "display" \in CanFail \/ p.id \notin pending \/ pending' = pending \ {p.id}
      /\ [Client!Next]_(Client!vars)
  BY <1>1, <1>2, OutputPictureShows
<1>4. /\ Ids(dpb'.pic_list) =
          IF Leaves(p, drain) THEN Ids(dpb.pic_list) \ {p.id} ELSE Ids(dpb.pic_list)
      /\ Ids(NeededForOutput(dpb')) = Ids(NeededForOutput(dpb)) \ {p.id}
  <2>1. DpbOk(dpb)
    BY DEF IInv
  <2>2. /\ Ids(Bump(dpb, p, drain).pic_list) =
            IF Leaves(p, drain) THEN Ids(dpb.pic_list) \ {p.id} ELSE Ids(dpb.pic_list)
        /\ NeededForOutput(Bump(dpb, p, drain)) = NeededForOutput(dpb) \ {p}
    BY <2>1, BumpOk
  <2>3. Ids(NeededForOutput(dpb) \ {p}) = Ids(NeededForOutput(dpb)) \ {p.id}
    BY <2>1, NeededIds
  <2> QED
    BY <2>2, <2>3
<1>5. cur.id # p.id
  BY <1>1, CurrentApart
<1>6. Backed'
  BY <1>3, <1>4, <1>5 DEF ClientInv, Backed
<1>7. NoLeak'
  BY <1>3, <1>4 DEF ClientInv, NoLeak
<1>8. ~(p.id = aus /\ (BeforeEnd \/ AfterEnd))
  BY <1>1 DEF IInv, StoredEarlier, BeforeEnd, AfterEnd, InHeaders, InPicture
<1>9. Stages'
  BY <1>2, <1>3, <1>4, <1>8 DEF ClientInv, Stages, BeforeEnd, AfterEnd, InHeaders
<1>10. NothingLost'
  BY <1>3, <1>4 DEF ClientInv, NothingLost
<1>11. Owed'
  BY <1>1, <1>3, <1>4, <1>8 DEF ClientInv, Owed, BeforeEnd, AfterEnd, InHeaders
<1> QED
  BY <1>3, <1>4, <1>6, <1>7, <1>9, <1>10, <1>11 DEF ClientInv

(* Actions that give buffers back at most. What stays in the decoder stays  *)
(* held, and what leaves was shown, dropped on purpose or never decoded.   *)
LEMMA ReleaseClient ==
  ASSUME ClientInv, UNCHANGED <<aus, decoded, shown>>,
         held' \subseteq held, discarded \subseteq discarded',
         (Ids(dpb'.pic_list) \union {cur'.id}) \ {0} \subseteq held', NoLeak', Owed',
         Ids(NeededForOutput(dpb')) \subseteq Ids(NeededForOutput(dpb)),
         decoded \intersect (Ids(NeededForOutput(dpb)) \union {cur.id})
           \subseteq discarded' \union Ids(NeededForOutput(dpb')) \union {cur'.id},
         InHeaders' => InHeaders, BeforeEnd' => BeforeEnd, AfterEnd' => AfterEnd
  PROVE  ClientInv' /\ [Client!Next]_(Client!vars)
<1>1. Backed'
  BY DEF Backed
<1>2. Stages'
  BY DEF ClientInv, Stages
<1>3. NothingLost'
  BY DEF ClientInv, NothingLost
<1>4. Client!Release
  BY DEF Client!Release
<1>5. Client!Next
  BY <1>4 DEF Client!Next
<1> QED
  BY <1>1, <1>2, <1>3, <1>5 DEF ClientInv

(* The same for actions that do not touch the client at all.               *)
LEMMA IdleClient ==
  ASSUME IInv, ClientInv, UNCHANGED <<aus, pending, clientVars>>,
         cur'.id = cur.id,
         Ids(dpb'.pic_list) \ {0} = Ids(dpb.pic_list) \ {0},
         Ids(NeededForOutput(dpb')) = Ids(NeededForOutput(dpb)),
         InHeaders' => InHeaders, BeforeEnd' => BeforeEnd, AfterEnd' => AfterEnd
  PROVE  ClientInv' /\ [Client!Next]_(Client!vars)
<1>1. UNCHANGED <<held, decoded, shown, discarded>>
  BY DEF clientVars
<1>2. (Ids(dpb'.pic_list) \union {cur'.id}) \ {0} \subseteq held'
  BY <1>1 DEF ClientInv, Backed
<1>3. NoLeak'
  BY <1>1, HeldAreFrames DEF ClientInv, NoLeak
<1>4. Owed'
  BY <1>1 DEF ClientInv, Owed
<1> QED
  BY <1>1, <1>2, <1>3, <1>4, ReleaseClient
-----------------------------------------------------------------------------
(* A picture in progress that end_picture has not handed over may go.      *)
LEMMA NotDecoded ==
  ASSUME IInv, ClientInv, BeforeEnd
  PROVE  cur.id \notin decoded
BY DEF IInv, TypeOK, CurrentPicture, ClientInv, Stages, Frames

(* Nor does the class keep its frame.                                      *)
LEMMA DropOwed ==
  ASSUME IInv, ClientInv, BeforeEnd, phase' = "idle", pending' = pending \ {aus},
         cur'.id = 0, UNCHANGED <<aus, decoded, dpb>>
  PROVE  Owed'
<1>1. cur.id \in {0, aus} /\ aus \notin decoded /\ 0 \notin pending
  BY DEF IInv, TypeOK, CurrentPicture, ClientInv, Stages, Frames
<1>2. aus \notin Ids(NeededForOutput(dpb))
  BY DEF IInv, StoredEarlier, BeforeEnd, InPicture, InHeaders, Ids, NeededForOutput
<1> QED
  BY <1>1, <1>2 DEF ClientInv, Owed, BeforeEnd, AfterEnd, InHeaders

LEMMA HeadersClient ==
  ASSUME IInv, ClientInv,
         \/ HandleFrame \/ NoSliceInFrame \/ BadNal \/ FailFrame
         \/ \E s \in SpsSet : ParseSps(s)
         \/ NewSequence
         \/ \E h \in Slices : NewPicture(h)
         \/ NewPictureFails
  PROVE  ClientInv' /\ [Client!Next]_(Client!vars)
<1>1. CASE HandleFrame
  <2>1. /\ UNCHANGED <<held, decoded, shown, discarded, dpb, cur>>
        /\ aus' = aus + 1 /\ pending' = pending \union {aus + 1}
        /\ phase = "idle" /\ phase' = "nals"
    BY <1>1 DEF HandleFrame, callVars, clientVars
  <2>2. aus \in Nat /\ held \union decoded \union shown \union pending \subseteq Nat
    BY DEF IInv, TypeOK, Frames
  <2>3. \A n \in held \union decoded \union shown : n <= aus' /\ n # aus'
    BY <2>1, <2>2 DEF ClientInv, Stages
  <2>4. Backed' /\ NoLeak' /\ NothingLost'
    BY <2>1 DEF ClientInv, Backed, NoLeak, NothingLost
  <2>5. Stages'
    BY <2>1, <2>3 DEF ClientInv, Stages, AfterEnd
  <2>6. Owed'
    BY <2>1, <2>2, <2>3 DEF ClientInv, Owed
  <2>7. UNCHANGED Client!vars
    BY <2>1 DEF Client!vars
  <2> QED
    BY <2>4, <2>5, <2>6, <2>7 DEF ClientInv
<1>2. CASE NoSliceInFrame
  <2>1. cur.id = 0 /\ cur'.id = 0
    BY <1>2, NoPictureType
       DEF IInv, CurrentPicture, InPicture, NoSliceInFrame, Return
  <2>2. phase' = "idle" /\ UNCHANGED <<aus, pending, clientVars, dpb>>
    BY <1>2 DEF NoSliceInFrame, Return
  <2> QED
    BY <2>1, <2>2, IdleClient DEF InHeaders, BeforeEnd, AfterEnd
<1>3. CASE BadNal
  <2>1. /\ phase \in {"nals", "slices"} /\ phase' = "fail"
        /\ UNCHANGED <<aus, pending, clientVars, dpb, cur>>
    BY <1>3 DEF BadNal, callVars
  <2> QED
    BY <2>1, IdleClient DEF InHeaders, BeforeEnd, AfterEnd
<1>4. CASE FailFrame
  <2>1. /\ UNCHANGED <<aus, decoded, shown, discarded, dpb>> /\ cur'.id = 0
        /\ held' = held \ {cur.id} /\ pending' = pending \ {aus}
        /\ phase = "fail" /\ phase' = "idle"
    BY <1>4, NoPictureType DEF FailFrame, Return
  <2>2. cur.id \notin decoded /\ (cur.id = 0 \/ cur.id \notin Ids(dpb.pic_list))
    BY <2>1, NotDecoded, CurrentApart DEF BeforeEnd
  <2>3. (Ids(dpb'.pic_list) \union {cur'.id}) \ {0} \subseteq held'
    BY <2>1, <2>2 DEF ClientInv, Backed
  <2>4. NoLeak'
    BY <2>1 DEF ClientInv, NoLeak
  <2>5. Owed'
    BY <2>1, DropOwed DEF BeforeEnd
  <2> QED
    BY <2>1, <2>2, <2>3, <2>4, <2>5, ReleaseClient DEF InHeaders, BeforeEnd, AfterEnd
<1>5. ASSUME NEW s \in SpsSet, ParseSps(s) PROVE ClientInv' /\ [Client!Next]_(Client!vars)
  <2>1. UNCHANGED <<aus, pending, clientVars, cur>> /\ phase = "nals"
    BY <1>5 DEF ParseSps
  <2>2. /\ dpb'.pic_list = dpb.pic_list
        /\ phase' \in {"fail", "nals"} \/ (phase' = "drain" /\ after' = "newseq")
    <3>1. CASE UNCHANGED dpb /\ phase' = "drain" /\ after' = "newseq"
      BY <3>1
    <3>2. CASE SpsUpdated(s, dpb)
      BY <3>2, SpsUpdatedInv DEF IInv
    <3> QED
      BY <1>5, <3>1, <3>2 DEF ParseSps
  <2>3. Ids(NeededForOutput(dpb')) = Ids(NeededForOutput(dpb))
    BY <2>2 DEF NeededForOutput
  <2> QED
    BY <2>1, <2>2, <2>3, IdleClient DEF InHeaders, BeforeEnd, AfterEnd
<1>6. CASE NewSequence
  <2> DEFINE d == [dpb EXCEPT !.max_num_frames = new_sps.size]
  <2>1. new_sps \in SpsSet \union {NoSps} /\ new_sps.size \in Nat
    BY SpsTypes DEF IInv, TypeOK
  <2>2. DpbOk(d) /\ d.pic_list = dpb.pic_list
    BY <2>1, LimitsOk DEF IInv, TypeOK, Dpb
  <2>3. SpsUpdated(new_sps, d) /\ UNCHANGED <<aus, pending, clientVars, cur>> /\ phase = "newseq"
    BY <1>6 DEF NewSequence, callVars
  <2> HIDE DEF d
  <2>4. phase' \in {"fail", "nals"} /\ dpb'.pic_list = dpb.pic_list
    BY <2>1, <2>2, <2>3, SpsUpdatedInv
  <2>5. Ids(NeededForOutput(dpb')) = Ids(NeededForOutput(dpb))
    BY <2>4 DEF NeededForOutput
  <2> QED
    BY <2>3, <2>4, <2>5, IdleClient DEF InHeaders, BeforeEnd, AfterEnd
<1>7. ASSUME NEW h \in Slices, NewPicture(h) PROVE ClientInv' /\ [Client!Next]_(Client!vars)
  <2>1. /\ UNCHANGED <<aus, pending, decoded, shown, discarded, dpb>>
        /\ cur' = BlankPicture /\ held' = held \union {aus}
        /\ phase = "nals" /\ phase' = "gap"
    BY <1>7 DEF NewPicture
  <2>2. aus \in Frames /\ cur'.id = aus /\ cur.id = 0
    BY <2>1, BlankPictureType
       DEF IInv, TypeOK, CurrentPicture, StoredEarlier, InPicture, InHeaders, Frames
  <2>3. aus \notin held \union decoded \union shown
    BY <2>1 DEF ClientInv, Stages, InHeaders, BeforeEnd
  <2>4. Client!Alloc(aus)
    BY <2>1, <2>3 DEF Client!Alloc
  <2>5. Client!Next
    BY <2>2, <2>4 DEF Client!Next
  <2>6. Backed' /\ NoLeak'
    BY <2>1, <2>2 DEF ClientInv, Backed, NoLeak, IInv, TypeOK, Frames
  <2>7. NothingLost'
    BY <2>1, <2>2 DEF ClientInv, NothingLost, IInv, TypeOK, Frames
  <2>8. aus <= aus /\ 0 \notin pending
    BY <2>2 DEF Frames, IInv, TypeOK
  <2>9. Owed'
    BY <2>1, <2>2, <2>8 DEF ClientInv, Owed, InHeaders, BeforeEnd, AfterEnd
  <2>10. Stages'
    BY <2>1, <2>3, <2>8 DEF ClientInv, Stages, InHeaders, BeforeEnd, AfterEnd
  <2> QED
    BY <2>5, <2>6, <2>7, <2>10, <2>9 DEF ClientInv
<1>8. CASE NewPictureFails
  <2>1. /\ phase = "nals" /\ phase' = "fail"
        /\ UNCHANGED <<aus, pending, clientVars, dpb, cur>>
    BY <1>8 DEF NewPictureFails, callVars
  <2> QED
    BY <2>1, IdleClient DEF InHeaders, BeforeEnd, AfterEnd
<1> QED
  BY <1>1, <1>2, <1>3, <1>4, <1>5, <1>6, <1>7, <1>8
-----------------------------------------------------------------------------
LEMMA UnusedLeave ==
  ASSUME NEW d, DpbOk(d)
  PROVE  /\ Ids(DeleteUnused(d).pic_list) \ {0} = (Ids(d.pic_list) \ Ids(Unused(d))) \ {0}
         /\ NeededForOutput(DeleteUnused(d)) = NeededForOutput(d)
<1>1. Unused(d) \in SUBSET d.pic_list
  BY DEF Unused
<1> QED
  BY <1>1, IdsWithout, DeleteUnusedOk

(* The buffer is remarked, and what became unused leaves it.               *)
LEMMA DeleteClient ==
  ASSUME IInv, ClientInv, NEW d, DpbOk(d), Ids(d.pic_list) = Ids(dpb.pic_list),
         Ids(NeededForOutput(d)) = Ids(NeededForOutput(dpb)),
         dpb' = DeleteUnused(d), held' = held \ Ids(Unused(d)), cur'.id = cur.id,
         UNCHANGED <<aus, pending, decoded, shown, discarded>>,
         InHeaders' => InHeaders, BeforeEnd' => BeforeEnd, AfterEnd' => AfterEnd
  PROVE  ClientInv' /\ [Client!Next]_(Client!vars)
<1>1. /\ Ids(dpb'.pic_list) \ {0} = (Ids(dpb.pic_list) \ Ids(Unused(d))) \ {0}
      /\ Ids(NeededForOutput(dpb')) = Ids(NeededForOutput(dpb))
  BY UnusedLeave
<1>2. Ids(Unused(d)) \subseteq Ids(dpb.pic_list)
  BY DEF Unused, Ids
<1>3. (Ids(dpb'.pic_list) \union {cur'.id}) \ {0} \subseteq held'
  BY <1>1, <1>2, CurrentApart DEF ClientInv, Backed
<1>4. NoLeak'
  <2> SUFFICES ASSUME "decode" \notin CanFail, NEW n \in held'
               PROVE  n \in Ids(dpb'.pic_list) \union {cur'.id}
    BY DEF NoLeak
  <2>1. n # 0 /\ n \notin Ids(Unused(d)) /\ n \in Ids(dpb.pic_list) \union {cur.id}
    BY HeldAreFrames DEF ClientInv, NoLeak
  <2> QED
    BY <1>1, <2>1
<1>5. Owed'
  BY <1>1 DEF ClientInv, Owed
<1> QED
  BY <1>1, <1>3, <1>4, <1>5, ReleaseClient

(* The buffer is emptied: its pictures are out or dropped on purpose.      *)
LEMMA ClearClient ==
  ASSUME IInv, ClientInv, dpb'.pic_list = {}, held' = held \ Ids(dpb.pic_list),
         discarded \union Ids(NeededForOutput(dpb)) \subseteq discarded',
         cur'.id = cur.id,
         \/ pending' = pending \ Ids(NeededForOutput(dpb))
         \/ pending' = {} /\ ~BeforeEnd' /\ ~AfterEnd',
         UNCHANGED <<aus, decoded, shown>>,
         InHeaders' => InHeaders, BeforeEnd' => BeforeEnd, AfterEnd' => AfterEnd
  PROVE  ClientInv' /\ [Client!Next]_(Client!vars)
<1>1. Ids(dpb'.pic_list) = {} /\ Ids(NeededForOutput(dpb')) = {}
  BY DEF Ids, NeededForOutput
<1>2. (Ids(dpb'.pic_list) \union {cur'.id}) \ {0} \subseteq held'
  BY <1>1, CurrentApart DEF ClientInv, Backed
<1>3. NoLeak'
  BY DEF ClientInv, NoLeak
<1>4. aus \notin Ids(NeededForOutput(dpb)) \/ ~(BeforeEnd \/ AfterEnd)
  BY DEF IInv, StoredEarlier, BeforeEnd, AfterEnd, InPicture, InHeaders, Ids,
         NeededForOutput
<1>5. Owed'
  BY <1>1, <1>4 DEF ClientInv, Owed
<1> QED
  BY <1>1, <1>2, <1>3, <1>5, ReleaseClient

LEMMA GapClient ==
  ASSUME IInv, ClientInv, GapMark \/ GapStore \/ StartPicture \/ StartPictureClear
  PROVE  ClientInv' /\ [Client!Next]_(Client!vars)
<1>0. dpb \in Dpb /\ DpbOk(dpb) /\ hdr \in Slices \union {NoSlice} /\ aus \in Nat
  BY DEF IInv, TypeOK
<1>1. CASE GapMark
  <2> DEFINE d0 == UpdatePicNums(dpb)
             d == SlidingWindow(d0, MaxNumRefFrames, gap, MaxFrameNum)
  <2>1. Remarked(dpb, d0) /\ d0 \in Dpb
    BY <1>0, UpdatePicNumsRemarks, RemarkedOk DEF DpbOk
  <2>2. Remarked(d0, d)
    BY <2>1, SetReferenceRemarks DEF SlidingWindow, References
  <2>3. /\ DpbOk(d) /\ Ids(d.pic_list) = Ids(dpb.pic_list)
        /\ Ids(NeededForOutput(d)) = Ids(NeededForOutput(dpb))
    BY <1>0, <2>1, <2>2, RemarkedTransitive, RemarkedOk
  <2>4. /\ phase = "gap" /\ UNCHANGED <<aus, pending, decoded, shown, discarded, cur>>
        /\ \/ phase' = "fail" /\ dpb' = d /\ held' = held
           \/ phase' = "gapbump" /\ dpb' = DeleteUnused(d) /\ held' = held \ Ids(Unused(d))
    BY <1>1 DEF GapMark, callVars
  <2> HIDE DEF d
  <2>5. /\ InHeaders' => InHeaders
        /\ BeforeEnd' => BeforeEnd
        /\ AfterEnd' => AfterEnd
    BY <2>4 DEF InHeaders, BeforeEnd, AfterEnd
  <2>6. CASE dpb' = d /\ held' = held
    BY <2>3, <2>4, <2>5, <2>6, IdleClient DEF clientVars
  <2>7. CASE dpb' = DeleteUnused(d) /\ held' = held \ Ids(Unused(d))
    BY <2>3, <2>4, <2>5, <2>7, DeleteClient
  <2> QED
    BY <2>4, <2>6, <2>7
<1>2. CASE GapStore
  <2>1. /\ UNCHANGED <<aus, pending, clientVars, cur>>
        /\ InHeaders' => InHeaders
        /\ BeforeEnd' => BeforeEnd
        /\ AfterEnd' => AfterEnd
    BY <1>2 DEF GapStore, InHeaders, BeforeEnd, AfterEnd
  <2>2. CASE ret = "error"
    BY <1>2, <2>1, <2>2, IdleClient DEF GapStore
  <2>3. CASE ret # "error"
    <3> PICK poc \in GapPocs : dpb' = DpbAdd(dpb, GapPicture(gap, poc))
      BY <1>2, <2>3 DEF GapStore
    <3>1. /\ GapPicture(gap, poc) \in Picture
          /\ GapPicture(gap, poc).id = 0 /\ GapPicture(gap, poc).nonexisting
      BY GapPictureType, ConstantsAssumption DEF IInv, TypeOK
    <3> DEFINE p == GapPicture(gap, poc)
    <3> HIDE DEF p
    <3>2. /\ Ids(DpbAdd(dpb, p).pic_list) = Ids(dpb.pic_list) \union {0}
          /\ Ids(NeededForOutput(DpbAdd(dpb, p))) = Ids(NeededForOutput(dpb)) \union {}
      BY <1>0, <3>1, DpbAddOk DEF p
    <3>3. dpb' = DpbAdd(dpb, p)
      BY DEF p
    <3> QED
      BY <2>1, <3>2, <3>3, IdleClient
  <2> QED
    BY <2>2, <2>3
<1>3. CASE StartPicture
  <2>1. /\ UNCHANGED <<aus, pending, clientVars>>
        /\ InHeaders' => InHeaders
        /\ BeforeEnd' => BeforeEnd
        /\ AfterEnd' => AfterEnd
    BY <1>3 DEF StartPicture, InHeaders, BeforeEnd, AfterEnd
  <2>2. cur'.id = cur.id
    BY <1>0, <1>3, PictureOfType DEF StartPicture, IInv, CurrentPicture, InPicture
  <2>3. /\ Ids(dpb'.pic_list) = Ids(dpb.pic_list)
        /\ Ids(NeededForOutput(dpb')) = Ids(NeededForOutput(dpb))
    BY <1>0, <1>3, UpdatePicNumsRemarks, RemarkedOk DEF StartPicture
  <2> QED
    BY <2>1, <2>2, <2>3, IdleClient
<1>4. CASE StartPictureClear
  <2>1. /\ UNCHANGED <<aus, decoded, shown>>
        /\ InHeaders' => InHeaders
        /\ BeforeEnd' => BeforeEnd
        /\ AfterEnd' => AfterEnd
    BY <1>4 DEF StartPictureClear, InHeaders, BeforeEnd, AfterEnd
  <2>2. cur'.id = cur.id
    BY <1>0, <1>4, PictureOfType DEF StartPictureClear, IInv, CurrentPicture, InPicture
  <2>3. /\ dpb'.pic_list = {} /\ held' = held \ Ids(dpb.pic_list)
        /\ discarded \union Ids(NeededForOutput(dpb)) \subseteq discarded'
        /\ pending' = pending \ Ids(NeededForOutput(dpb))
    BY <1>0, <1>4, DpbClearOk DEF StartPictureClear, ClearDpb
  <2> QED
    BY <2>1, <2>2, <2>3, ClearClient
<1> QED
  BY <1>1, <1>2, <1>3, <1>4
-----------------------------------------------------------------------------
(* The end of the reference marking and one operation of it.               *)
LEMMA FinishClient ==
  ASSUME IInv, ClientInv, phase = "marking", NEW d, Remarked(dpb, d), NEW c, c.id = cur.id,
         Finish(d, c)
  PROVE  ClientInv' /\ [Client!Next]_(Client!vars)
<1>1. /\ DpbOk(d) /\ Ids(d.pic_list) = Ids(dpb.pic_list)
      /\ Ids(NeededForOutput(d)) = Ids(NeededForOutput(dpb))
  BY RemarkedOk DEF IInv
<1>2. /\ dpb' = DeleteUnused(d) /\ held' = held \ Ids(Unused(d)) /\ cur'.id = cur.id
      /\ UNCHANGED <<aus, pending, decoded, shown, discarded>>
      /\ (phase' = "drain" /\ after' = "bump") \/ phase' = "bump"
  BY DEF Finish
<1>3. ~InHeaders' /\ ~BeforeEnd' /\ AfterEnd
  BY <1>2 DEF InHeaders, BeforeEnd, AfterEnd
<1> QED
  BY <1>1, <1>2, <1>3, DeleteClient

LEMMA MmcoClient ==
  ASSUME IInv, ClientInv, NEW d, Remarked(dpb, d), NEW c, c.id = cur.id, Mmco(d, c)
  PROVE  ClientInv' /\ [Client!Next]_(Client!vars)
<1>1. /\ Ids(dpb'.pic_list) = Ids(dpb.pic_list)
      /\ Ids(NeededForOutput(dpb')) = Ids(NeededForOutput(dpb))
  BY RemarkedOk DEF IInv, Mmco
<1>2. UNCHANGED <<aus, pending, clientVars, phase, after>> /\ cur'.id = cur.id
  BY DEF Mmco
<1> QED
  BY <1>1, <1>2, IdleClient DEF InHeaders, BeforeEnd, AfterEnd

LEMMA MarkingClient ==
  ASSUME IInv, ClientInv, Marking
  PROVE  ClientInv' /\ [Client!Next]_(Client!vars)
<1>0. dpb \in Dpb /\ cur \in Picture /\ LongIdxs \subseteq Nat
  BY ConstantsAssumption DEF IInv, TypeOK
<1>1. CASE MarkIdr
  BY <1>0, <1>1, 0 \in Nat, MarkingRemarks, MarkedType, FinishClient DEF MarkIdr, References
<1>2. CASE MarkSliding
  BY <1>0, <1>2, 0 \in Nat, MarkingRemarks, FinishClient DEF MarkSliding
<1>3. CASE MmcoEnd
  BY <1>0, <1>3, RemarkedSelf, FinishClient DEF MmcoEnd
<1>4. CASE UnmarkShort
  BY <1>0, <1>4, 0 \in Nat, MarkingRemarks, MmcoClient DEF UnmarkShort
<1>5. CASE UnmarkLong
  BY <1>0, <1>5, 0 \in Nat, MarkingRemarks, MmcoClient DEF UnmarkLong
<1>6. CASE ShortToLong
  BY <1>0, <1>6, MarkingRemarks, MmcoClient DEF ShortToLong
<1>7. CASE LimitLong
  BY <1>0, <1>7, MarkingRemarks, MmcoClient DEF LimitLong
<1>8. CASE UnmarkAll
  <2> DEFINE c == [cur EXCEPT !.frame_num = 0, !.poc = 0]
  <2>1. Mmco(MarkAllNonRef(dpb), c)
    BY <1>8 DEF UnmarkAll
  <2>2. c.id = cur.id
    BY <1>0, ResetType
  <2>3. Remarked(dpb, MarkAllNonRef(dpb))
    BY <1>0, 0 \in Nat, MarkingRemarks
  <2> HIDE DEF c
  <2> QED
    BY <2>1, <2>2, <2>3, MmcoClient
<1>9. CASE CurrentToLong
  <2> PICK idx \in LongIdxs :
        Mmco(Mmco6(dpb, idx), [Marked(cur, "long") EXCEPT !.long_term_frame_idx = idx])
    BY <1>9 DEF CurrentToLong
  <2> DEFINE m == Marked(cur, "long")
             c == [m EXCEPT !.long_term_frame_idx = idx]
  <2>1. m \in Picture /\ m.id = cur.id
    BY <1>0, MarkedType DEF References
  <2>2. Mmco(Mmco6(dpb, idx), c)
    OBVIOUS
  <2> HIDE DEF m
  <2>3. c.id = cur.id
    BY <2>1 DEF Picture
  <2>4. Remarked(dpb, Mmco6(dpb, idx))
    BY <1>0, MarkingRemarks
  <2> HIDE DEF c
  <2> QED
    BY <2>2, <2>3, <2>4, MmcoClient
<1> QED
  BY <1>1, <1>2, <1>3, <1>4, <1>5, <1>6, <1>7, <1>8, <1>9 DEF Marking
-----------------------------------------------------------------------------
LEMMA EndClient ==
  ASSUME IInv, ClientInv,
         EndPicture \/ EndPictureFails \/ Store \/ OutputDirectly \/ FrameDone
  PROVE  ClientInv' /\ [Client!Next]_(Client!vars)
<1>0. DpbOk(dpb) /\ cur \in Picture /\ cur.nonexisting = FALSE
  BY DEF IInv, TypeOK, CurrentPicture
<1>1. ASSUME InPicture
      PROVE  /\ cur.id = aus /\ cur.id # 0 /\ cur.id \in Frames
             /\ cur.id \notin Ids(dpb.pic_list) /\ cur.id \in held
  BY <1>1, ConstantsAssumption
     DEF IInv, TypeOK, CurrentPicture, StoredEarlier, Frames, ClientInv, Backed
<1>2. CASE EndPicture
  <2>1. /\ UNCHANGED <<aus, pending, cur, shown, discarded>> /\ decoded' = decoded \union {cur.id}
        /\ phase = "slices" /\ phase' \in {"marking", "bump"}
        /\ \/ dpb' = dpb /\ held' = held
           \/ dpb' = DeleteUnused(dpb) /\ held' = held \ Ids(Unused(dpb))
    BY <1>2 DEF EndPicture, callVars
  <2>2. /\ cur.id = aus /\ cur.id # 0 /\ cur.id \in Frames
        /\ cur.id \notin Ids(dpb.pic_list) /\ cur.id \in held
    BY <1>1, <2>1 DEF InPicture
  <2>3. /\ Ids(Unused(dpb)) \subseteq Ids(dpb.pic_list)
        /\ Ids(DeleteUnused(dpb).pic_list) \ {0} = (Ids(dpb.pic_list) \ Ids(Unused(dpb))) \ {0}
        /\ NeededForOutput(DeleteUnused(dpb)) = NeededForOutput(dpb)
    BY <1>0, UnusedLeave DEF Unused, Ids
  <2>4. Ids(NeededForOutput(dpb')) = Ids(NeededForOutput(dpb))
    BY <2>1, <2>3
  <2>5. Backed' /\ NoLeak'
    <3>1. Backed'
      BY <2>1, <2>2, <2>3 DEF ClientInv, Backed
    <3> SUFFICES ASSUME "decode" \notin CanFail, NEW n \in held'
                 PROVE  n \in Ids(dpb'.pic_list) \union {cur'.id}
      BY <3>1 DEF NoLeak
    <3>2. n # 0 /\ n \in Ids(dpb.pic_list) \union {cur.id}
      BY <2>1, HeldAreFrames DEF ClientInv, NoLeak
    <3> QED
      BY <2>1, <2>3, <3>2
  <2>6. aus \notin decoded /\ aus \notin shown /\ cur.id <= aus
    BY <2>1, <2>2 DEF ClientInv, Stages, BeforeEnd, Frames
  <2>7. Stages'
    BY <2>1, <2>2, <2>4, <2>6 DEF ClientInv, Stages, InHeaders, BeforeEnd
  <2>8. NothingLost'
    BY <2>1, <2>4 DEF ClientInv, NothingLost
  <2>9. Owed'
    BY <2>1, <2>2, <2>4 DEF ClientInv, Owed, InHeaders, BeforeEnd, AfterEnd
  <2>10. Client!Decode(cur.id)
    <3>1. held' \subseteq held /\ cur.id \in held'
      BY <2>1, <2>2, <2>3
    <3>2. held' \in {S \union {cur.id} : S \in SUBSET held}
      BY <3>1
    <3> QED
      BY <2>1, <2>2, <2>6, <3>2 DEF Client!Decode
  <2>11. Client!Next
    BY <2>2, <2>10 DEF Client!Next
  <2> QED
    BY <2>5, <2>7, <2>8, <2>11, <2>9 DEF ClientInv
<1>3. CASE EndPictureFails
  <2>1. /\ UNCHANGED <<aus, clientVars, dpb>> /\ cur'.id = 0
        /\ phase = "slices" /\ phase' = "idle" /\ pending' = pending \ {aus}
    BY <1>3, NoPictureType DEF EndPictureFails, Return
  <2>2. cur.id \notin decoded
    BY <2>1, NotDecoded DEF BeforeEnd
  <2>3. (Ids(dpb'.pic_list) \union {cur'.id}) \ {0} \subseteq held'
    BY <2>1 DEF ClientInv, Backed, clientVars
  <2>4. NoLeak'
    BY <1>3 DEF EndPictureFails, NoLeak
  <2>5. Owed'
    BY <2>1, DropOwed DEF BeforeEnd, clientVars
  <2> QED
    BY <2>1, <2>2, <2>3, <2>4, <2>5, ReleaseClient DEF clientVars, InHeaders, BeforeEnd, AfterEnd
<1>4. CASE Store
  <2>1. /\ UNCHANGED <<aus, pending, clientVars>> /\ dpb' = DpbAdd(dpb, cur) /\ cur'.id = 0
        /\ phase = "bump" /\ phase' = "livebump"
    BY <1>4, NoPictureType DEF Store
  <2>2. /\ cur.id = aus /\ cur.id # 0 /\ cur.id \notin Ids(dpb.pic_list) /\ cur.id \in held
    BY <1>1, <2>1 DEF InPicture
  <2>3. /\ Ids(DpbAdd(dpb, cur).pic_list) = Ids(dpb.pic_list) \union {cur.id}
        /\ Ids(NeededForOutput(DpbAdd(dpb, cur))) = Ids(NeededForOutput(dpb)) \union {cur.id}
    BY <1>0, <2>2, DpbAddOk
  <2>4. aus \in decoded /\ aus \notin shown
    BY <2>1 DEF ClientInv, Stages, BeforeEnd, AfterEnd
  <2>5. UNCHANGED <<held, decoded, shown, discarded>>
    BY <2>1 DEF clientVars
  <2>6. Backed' /\ NoLeak' /\ NothingLost'
    BY <2>1, <2>2, <2>3, <2>5 DEF ClientInv, Backed, NoLeak, NothingLost
  <2>7. Stages'
    BY <2>1, <2>2, <2>3, <2>4, <2>5 DEF ClientInv, Stages, InHeaders, BeforeEnd, AfterEnd
  <2>8. Owed'
    BY <2>1, <2>2, <2>3, <2>5 DEF ClientInv, Owed, InHeaders, BeforeEnd, AfterEnd
  <2>9. UNCHANGED Client!vars
    BY <2>5 DEF Client!vars
  <2> QED
    BY <2>6, <2>7, <2>8, <2>9 DEF ClientInv
<1>5. CASE OutputDirectly
  <2>1. /\ UNCHANGED <<aus, decoded>> /\ cur'.id = 0 /\ OutputPicture(cur, TRUE)
        /\ phase = "bump" /\ phase' = "livebump"
        /\ dpb' = SetLastOutput(dpb, cur)
    BY <1>5, NoPictureType DEF OutputDirectly
  <2>2. dpb'.pic_list = dpb.pic_list
    BY <1>0, <2>1 DEF SetLastOutput, DpbOk, Dpb
  <2>3. /\ cur.id = aus /\ cur.id # 0 /\ cur.id \in Frames
        /\ cur.id \notin Ids(dpb.pic_list) /\ cur.id \in held
    BY <1>1, <2>1 DEF InPicture
  <2>4. cur.id \in (held \intersect decoded) \ shown
    BY <2>1, <2>3 DEF ClientInv, Stages, BeforeEnd, AfterEnd
  <2>5. /\ shown \subseteq shown' /\ shown' \subseteq shown \union {cur.id}
        /\ discarded \subseteq discarded'
        /\ cur.id \in shown' \union discarded'
        /\ held' = held \ {cur.id}
        /\ "display" \in CanFail \/ cur.id \notin pending \/ pending' = pending \ {cur.id}
        /\ [Client!Next]_(Client!vars)
    BY <2>1, <2>3, <2>4, OutputPictureShows
  <2>6. /\ Ids(dpb'.pic_list) = Ids(dpb.pic_list)
        /\ Ids(NeededForOutput(dpb')) = Ids(NeededForOutput(dpb))
        /\ Ids(NeededForOutput(dpb)) \subseteq Ids(dpb.pic_list)
    BY <2>2 DEF NeededForOutput, Ids
  <2>7. Backed' /\ NoLeak' /\ NothingLost'
    BY <2>1, <2>3, <2>5, <2>6 DEF ClientInv, Backed, NoLeak, NothingLost
  <2>8. Stages'
    BY <2>1, <2>3, <2>4, <2>5, <2>6 DEF ClientInv, Stages, InHeaders, BeforeEnd, AfterEnd
  <2>9. Owed'
    BY <2>1, <2>3, <2>5, <2>6 DEF ClientInv, Owed, InHeaders, BeforeEnd, AfterEnd
  <2> QED
    BY <2>5, <2>7, <2>8, <2>9 DEF ClientInv
<1>6. CASE FrameDone
  <2>1. cur.id = 0 /\ cur'.id = 0
    BY <1>6, NoPictureType DEF IInv, CurrentPicture, InPicture, FrameDone, Return
  <2>2. phase' = "idle" /\ UNCHANGED <<aus, pending, clientVars, dpb>>
    BY <1>6 DEF FrameDone, Return
  <2> QED
    BY <2>1, <2>2, IdleClient DEF InHeaders, BeforeEnd, AfterEnd
<1> QED
  BY <1>2, <1>3, <1>4, <1>5, <1>6

LEMMA DrainClient ==
  ASSUME IInv, IInv', ClientInv, DrainTurn \/ DrainOver
  PROVE  ClientInv' /\ [Client!Next]_(Client!vars)
<1>1. CASE DrainTurn
  BY <1>1, BumpClient DEF DrainTurn
<1>2. CASE DrainOver
  <2>1. /\ UNCHANGED <<aus, pending, decoded, shown, discarded>>
        /\ dpb'.pic_list = {} /\ held' = held \ Ids(dpb.pic_list)
        /\ Ids(NeededForOutput(dpb)) = {}
    BY <1>2, DpbClearOk DEF DrainOver, IInv, TypeOK, Ids
  <2>2. cur'.id = cur.id
    <3>1. CASE after = "idle"
      BY <1>2, <3>1, NoPictureType DEF DrainOver, Return, IInv, CurrentPicture, InPicture
    <3>2. CASE after # "idle"
      BY <1>2, <3>2 DEF DrainOver
    <3> QED
      BY <3>1, <3>2
  <2>3. /\ InHeaders' => InHeaders
        /\ BeforeEnd' => BeforeEnd
        /\ AfterEnd' => AfterEnd
    BY <1>2 DEF DrainOver, Return, InHeaders, BeforeEnd, AfterEnd, IInv, TypeOK
  <2> QED
    BY <2>1, <2>2, <2>3, ClearClient
<1> QED
  BY <1>1, <1>2

LEMMA CallsClient ==
  ASSUME IInv, ClientInv, Drain \/ Flush \/ Stop \/ Start
  PROVE  ClientInv' /\ [Client!Next]_(Client!vars)
<1>1. CASE Drain
  <2>1. /\ UNCHANGED <<aus, pending, clientVars, cur, dpb>>
        /\ ~InHeaders' /\ ~BeforeEnd' /\ ~AfterEnd'
    BY <1>1 DEF Drain, InHeaders, BeforeEnd, AfterEnd
  <2> QED
    BY <2>1, IdleClient
<1>2. CASE Flush
  <2>1. /\ UNCHANGED <<aus, decoded, shown, cur>> /\ pending' = {}
        /\ held' = held \ Ids(dpb.pic_list)
        /\ discarded \union Ids(NeededForOutput(dpb)) \subseteq discarded'
        /\ ~InHeaders' /\ ~BeforeEnd' /\ ~AfterEnd'
    BY <1>2 DEF Flush, ClearDpb, callVars, InHeaders, BeforeEnd, AfterEnd
  <2>2. dpb'.pic_list = {}
    BY <1>2, DpbClearOk DEF Flush, ClearDpb, IInv, TypeOK
  <2> QED
    BY <2>1, <2>2, ClearClient
<1>3. CASE Stop
  <2>1. /\ UNCHANGED <<aus, decoded, shown, cur>> /\ pending' = {}
        /\ held' = held \ Ids(dpb.pic_list)
        /\ discarded \union Ids(NeededForOutput(dpb)) \subseteq discarded'
        /\ dpb'.pic_list = {}
        /\ ~InHeaders' /\ ~BeforeEnd' /\ ~AfterEnd'
    BY <1>3 DEF Stop, NewDpb, callVars, InHeaders, BeforeEnd, AfterEnd
  <2> QED
    BY <2>1, ClearClient
<1>4. CASE Start
  <2>1. /\ UNCHANGED <<aus, pending, clientVars, cur, dpb>>
        /\ ~InHeaders' /\ ~BeforeEnd' /\ ~AfterEnd'
    BY <1>4 DEF Start, callVars, InHeaders, BeforeEnd, AfterEnd
  <2> QED
    BY <2>1, IdleClient
<1> QED
  BY <1>1, <1>2, <1>3, <1>4
-----------------------------------------------------------------------------
LEMMA ClientInit == Init => ClientInv /\ Client!Init
<1> SUFFICES ASSUME Init PROVE ClientInv /\ Client!Init
  OBVIOUS
<1>1. cur.id = 0 /\ dpb.pic_list = {} /\ phase = "idle"
  BY NoPictureType DEF Init, NewDpb
<1>2. Ids(dpb.pic_list) = {} /\ Ids(NeededForOutput(dpb)) = {}
  BY <1>1 DEF Ids, NeededForOutput
<1>3. ClientInv
  BY <1>1, <1>2
     DEF Init, ClientInv, Backed, NoLeak, Stages, NothingLost, Owed, InHeaders, BeforeEnd, AfterEnd
<1>4. Client!Init
  BY DEF Init, Client!Init
<1> QED
  BY <1>3, <1>4

LEMMA ClientNext ==
  ASSUME IInv, IInv', ClientInv, [Next]_vars
  PROVE  ClientInv' /\ [Client!Next]_(Client!vars)
<1>1. CASE UNCHANGED vars
  <2>1. UNCHANGED <<aus, pending, clientVars, cur, dpb, phase, after>>
    BY <1>1 DEF vars, callVars
  <2> QED
    BY <2>1, IdleClient DEF InHeaders, BeforeEnd, AfterEnd
<1>2. CASE Nals \/ BadNal \/ FailFrame \/ NewSequence \/ HandleFrame
           \/ \E s \in SpsSet : ParseSps(s)
  BY <1>2, HeadersClient DEF Nals
<1>3. CASE GapMark \/ GapStore \/ StartPicture \/ StartPictureClear
  BY <1>3, GapClient
<1>4. CASE EndPicture \/ EndPictureFails \/ Store \/ OutputDirectly \/ FrameDone
  BY <1>4, EndClient
<1>5. CASE Marking
  BY <1>5, MarkingClient
<1>6. CASE Bumping
  BY <1>6, BumpClient DEF Bumping, GapBump, BumpBefore, LiveBump, BumpTurn
<1>7. CASE DrainTurn \/ DrainOver
  BY <1>7, DrainClient
<1>8. CASE Drain \/ Flush \/ Stop \/ Start
  BY <1>8, CallsClient
<1> QED
  BY <1>1, <1>2, <1>3, <1>4, <1>5, <1>6, <1>7, <1>8 DEF Next, Work, Calls

LEMMA ClientInvariance == Spec => []ClientInv
<1>1. IInv /\ IInv' /\ ClientInv /\ [Next]_vars => ClientInv'
  BY ClientNext
<1>2. Init => ClientInv
  BY ClientInit
<1> QED
  BY <1>1, <1>2, Invariance, PTL DEF Spec

(* Whatever the stream and the client do, a decoded picture is shown, still*)
(* waits in the buffer, or was dropped for a known reason.                 *)
THEOREM NothingLostCorrect == Spec => []NothingLost
<1>1. ClientInv => NothingLost
  BY DEF ClientInv
<1> QED
  BY <1>1, ClientInvariance, PTL

(* As long as the client decodes what it is given, the decoder holds its   *)
(* buffers for exactly the pictures it has: on no path, with a damaged     *)
(* stream or a client that has no buffer or refuses to display, one leaks  *)
(* or goes back too early.                                                 *)
THEOREM BuffersAccountedCorrect ==
  ASSUME "decode" \notin CanFail
  PROVE  Spec => []BuffersAccounted
<1>1. IInv /\ ClientInv => BuffersAccounted
  BY HeldAreFrames DEF ClientInv, Backed, NoLeak, BuffersAccounted
<1> QED
  BY <1>1, Invariance, ClientInvariance, PTL

(* As long as the client displays what it is given, the GstVideoDecoder    *)
(* class holds a codec frame for each picture that waits for its output,   *)
(* and keeps none of a picture that was decoded and is gone.               *)
THEOREM FramesOwedCorrect ==
  ASSUME "display" \notin CanFail
  PROVE  Spec => []FramesOwed
<1>1. ClientInv => FramesOwed
  BY DEF ClientInv, Owed, FramesOwed, Ids
<1> QED
  BY <1>1, ClientInvariance, PTL

(* The decoder implements what ClientPictures promises the application:    *)
(* each buffer is decoded into once and shown at most once, after that and *)
(* while it is held.                                                       *)
THEOREM ImplementsClientPictures == Spec => ClientSpec
<1>1. Init => Client!Init
  BY ClientInit
<1>2. IInv /\ IInv' /\ ClientInv /\ [Next]_vars => [Client!Next]_(Client!vars)
  BY ClientNext
<1> QED
  BY <1>1, <1>2, Invariance, ClientInvariance, PTL DEF Spec, ClientSpec, Client!Spec

-----------------------------------------------------------------------------
LEMMA HeldBound ==
  ASSUME IInv, NoLeak, "decode" \notin CanFail, DpbWithinSize
  PROVE  BuffersWithinSequence
<1> DEFINE list == dpb.pic_list
           id == [p \in list |-> p.id]
           names == Ids(list)
<1>1. /\ IsFiniteSet(list) /\ Cardinality(list) \in Nat /\ dpb.max_num_frames \in Nat
      /\ Cardinality(list) <= dpb.max_num_frames
  BY BufferCounts DEF IInv, DpbOk, Placed, Dpb, DpbWithinSize, NumFrames
<1>2. \A n \in names : \E p \in list : n = id[p]
  BY DEF Ids
<1>3. IsFiniteSet(names) /\ Cardinality(names) <= Cardinality(list)
  <2> HIDE DEF list, id, names
  <2> QED
    BY <1>1, <1>2, ImageBound
<1>4. Cardinality(names) \in Nat
  BY <1>3, FS_CardinalityType
<1>5. /\ IsFiniteSet(names \union {cur.id})
      /\ Cardinality(names \union {cur.id}) =
           IF cur.id \in names THEN Cardinality(names) ELSE Cardinality(names) + 1
  BY <1>3, FS_AddElement
<1>6. held \in SUBSET (names \union {cur.id})
  BY DEF NoLeak
<1>7. IsFiniteSet(held) /\ Cardinality(held) <= Cardinality(names \union {cur.id})
  BY <1>5, <1>6, FS_Subset
<1>8. Cardinality(held) \in Nat
  BY <1>7, FS_CardinalityType
<1> HIDE DEF list, names
<1>9. Cardinality(held) <= dpb.max_num_frames + 1
  BY <1>1, <1>3, <1>4, <1>5, <1>7, <1>8
<1> QED
  BY <1>9 DEF BuffersWithinSequence

(* A client that decodes every picture never has to provide more buffers   *)
(* than the nMinNumDecodeSurfaces = max_dpb_size + 1 of BeginSequence, with*)
(* a conforming stream.                                                    *)
THEOREM BuffersWithinSequenceCorrect ==
  ASSUME Conforming, SoundSps, "decode" \notin CanFail
  PROVE  Spec => []BuffersWithinSequence
<1>1. IInv /\ ClientInv /\ DpbWithinSize => BuffersWithinSequence
  BY HeldBound DEF ClientInv
<1> QED
  BY <1>1, Invariance, ClientInvariance, DpbWithinSizeCorrect, PTL

-----------------------------------------------------------------------------
(* The references of a conforming stream.                                  *)
(* What the marking knows of a buffer: the references in it.               *)
RefOf(p) == [id |-> p.id, frame_num |-> p.frame_num, ref |-> p.ref]
Kept(d) == {RefOf(p) : p \in ReferenceFrames(d)}
KeptIds == {k.id : k \in Kept(dpb)}

(* The stream's references before the picture under way, and how many come *)
(* after one of them, that picture included: so many steps of frame_num it *)
(* lies back.                                                              *)
Meant == cvs.refs \ {cur.id}
After(n) == {m \in cvs.refs : m > n}
Later(n) == Cardinality(After(n))
FrameNumOf(n) ==
    IF Later(n) <= cvs.prev_ref THEN cvs.prev_ref - Later(n)
    ELSE cvs.prev_ref - Later(n) + MaxFrameNum

(* The references are being replaced: those of the last sequence remain.   *)
Replacing ==
    \/ cvs.needs_idr \/ phase \in {"drain", "newseq"}
    \/ phase = "gap" /\ hdr.idr

(* No call fails, no frame_num is missing, and a drain ends a sequence.    *)
Steady ==
    /\ ret = "ok" /\ ~mem_mgmt_5
    /\ phase # "gapbump" /\ (phase = "gap" => gap = hdr.frame_num)
    /\ 0 \notin Ids(dpb.pic_list)
    /\ phase = "drain" => after # "bump" /\ (after = "idle" => cvs.needs_idr)

(* new_sequence is for another sequence parameter set than the last one.   *)
SpsKnown ==
    /\ sps # NoSps => seq.res = sps.res
    /\ phase = "newseq" \/ (phase = "drain" /\ after = "newseq")
         => new_sps \in SpsSet /\ new_sps # sps
    /\ sps = NoSps => cvs.needs_idr

(* The references of the stream are access units; the picture under way is *)
(* one of them when its slice header says so.                              *)
CvsOk ==
    /\ cvs.refs \subseteq 1..aus /\ cvs.long \subseteq cvs.refs
    /\ cvs.prev_ref \in 0..(MaxFrameNum - 1)
    /\ InHeaders \/ phase = "fail" => aus \notin cvs.refs
    /\ phase = "fail" => cur.id = 0
    /\ InPicture =>
         /\ hdr \in Slices
         /\ hdr.ref <=> cur.id \in cvs.refs
         /\ hdr.ref => cvs.prev_ref = hdr.frame_num
         /\ hdr.idr => cvs.refs = {cur.id}
         /\ cur.id \in cvs.long <=> hdr.idr /\ hdr.long_term_reference

(* The picture under way is marked as its slice header says.               *)
CurOk ==
    \/ ~InPicture \/ phase = "gap"
    \/ /\ cur.frame_num = hdr.frame_num
       /\ cur.ref = IF ~hdr.ref THEN "none"
                    ELSE IF phase = "bump" /\ cur.id \in cvs.long THEN "long" ELSE "short"
       /\ phase = "marking" => hdr.ref

(* The buffer keeps the long-term reference and, of the others, an end of  *)
(* the sequence; their frame_num says how far back they lie.               *)
Latest ==
    /\ cvs.long \ {cur.id} \subseteq KeptIds
    /\ KeptIds \subseteq Meant
    /\ \A k \in Kept(dpb) :
         /\ k.ref = "long" <=> k.id \in cvs.long
         /\ k.ref = "short" => /\ k.frame_num = FrameNumOf(k.id)
                               /\ \A m \in Meant : m > k.id => m \in KeptIds

(* It keeps all of them, or as many as it may; the sliding window made     *)
(* place for the picture to be stored.                                     *)
Filled ==
    \/ Meant \subseteq KeptIds
    \/ Cardinality(KeptIds) >= MaxNumRefFrames
    \/ phase = "bump" /\ cur.ref # "none" /\ Cardinality(KeptIds) >= MaxNumRefFrames - 1

RefsInv ==
    /\ Steady /\ SpsKnown /\ CvsOk /\ CurOk
    /\ ~Replacing => Latest /\ Filled

(* A client that only ever lacks buffers; sequences without gaps and with  *)
(* fewer references than values of frame_num, marked by the sliding window *)
(* alone.                                                                  *)
Accepting == CanFail \subseteq {"alloc"}
SlidingOnly == MaxMmco = 0 /\ \A s \in SpsSet : ~s.gaps /\ MaxRefs(s) < MaxFrameNum

-----------------------------------------------------------------------------
(* What the operations of the buffer do to the references in it.           *)
LEMMA KeptEmptied ==
  ASSUME NEW d, d.pic_list = {}
  PROVE  Kept(d) = {}
BY DEF Kept, ReferenceFrames

LEMMA KeptDeleted ==
  ASSUME NEW d, DpbOk(d)
  PROVE  Kept(DeleteUnused(d)) = Kept(d)
BY DeleteUnusedOk DEF Kept, ReferenceFrames, Unused

LEMMA KeptRenumbered ==
  ASSUME NEW d \in Dpb
  PROVE  Kept(UpdatePicNums(d)) = Kept(d)
<1> DEFINE f(p) == IF p.ref = "long"
                   THEN [p EXCEPT !.long_term_pic_num = p.long_term_frame_idx] ELSE p
<1>1. UpdatePicNums(d).pic_list = {f(p) : p \in d.pic_list}
  BY DEF UpdatePicNums, Dpb
<1>2. \A p \in d.pic_list : f(p).id = p.id /\ f(p).frame_num = p.frame_num /\ f(p).ref = p.ref
  BY DEF Dpb, Picture
<1> HIDE DEF f
<1>3. ReferenceFrames(UpdatePicNums(d)) = {f(p) : p \in ReferenceFrames(d)}
  BY <1>1, <1>2 DEF ReferenceFrames
<1>4. \A p \in ReferenceFrames(d) : RefOf(f(p)) = RefOf(p)
  BY <1>2 DEF ReferenceFrames, RefOf
<1> QED
  BY <1>3, <1>4 DEF Kept

LEMMA KeptBumped ==
  ASSUME NEW d, DpbOk(d), NEW p \in NeededForOutput(d)
  PROVE  Kept(Bump(d, p, FALSE)) = Kept(d)
<1>1. p \in d.pic_list /\ p \in Picture
  BY DEF NeededForOutput, DpbOk, Dpb
<1>2. Output(p).id = p.id /\ Output(p).frame_num = p.frame_num /\ Output(p).ref = p.ref
  BY <1>1 DEF Output, Picture
<1>3. Bump(d, p, FALSE).pic_list =
        (d.pic_list \ {p}) \union (IF p.ref = "none" THEN {} ELSE {Output(p)})
  BY DEF Bump, SetLastOutput, Leaves, DpbOk, Dpb
<1>4. ReferenceFrames(Bump(d, p, FALSE)) =
        (ReferenceFrames(d) \ {p}) \union (IF p.ref = "none" THEN {} ELSE {Output(p)})
  BY <1>2, <1>3 DEF ReferenceFrames
<1>5. RefOf(Output(p)) = RefOf(p) /\ (p.ref # "none" <=> p \in ReferenceFrames(d))
  BY <1>1, <1>2 DEF RefOf, ReferenceFrames
<1> QED
  BY <1>4, <1>5 DEF Kept

LEMMA KeptAdded ==
  ASSUME NEW d, DpbOk(d), NEW p \in Picture
  PROVE  Kept(DpbAdd(d, p)) = Kept(d) \union (IF p.ref = "none" THEN {} ELSE {RefOf(p)})
<1> DEFINE q == [p EXCEPT !.order = d.tail, !.needed_for_output = ~p.nonexisting]
<1>1. q.id = p.id /\ q.frame_num = p.frame_num /\ q.ref = p.ref
  BY DEF Picture
<1>2. DpbAdd(d, p).pic_list = d.pic_list \union {q}
  BY DEF DpbAdd, DpbOk, Dpb
<1> HIDE DEF q
<1>3. ReferenceFrames(DpbAdd(d, p)) =
        ReferenceFrames(d) \union (IF p.ref = "none" THEN {} ELSE {q})
  BY <1>1, <1>2 DEF ReferenceFrames
<1>4. RefOf(q) = RefOf(p)
  BY <1>1 DEF RefOf
<1> QED
  BY <1>3, <1>4 DEF Kept

LEMMA KeptUnmarked ==
  ASSUME NEW d \in Dpb, NEW S \in SUBSET d.pic_list
  PROVE  Kept(SetReference(d, S, "none")) = {RefOf(p) : p \in ReferenceFrames(d) \ S}
<1> DEFINE f(p) == IF p \in S THEN Marked(p, "none") ELSE p
<1>1. SetReference(d, S, "none").pic_list = {f(p) : p \in d.pic_list}
  BY DEF SetReference, Dpb
<1>2. \A p \in d.pic_list : f(p).ref = (IF p \in S THEN "none" ELSE p.ref)
  BY DEF Marked, Dpb, Picture
<1>3. \A p \in d.pic_list : p \notin S => f(p) = p
  OBVIOUS
<1> HIDE DEF f
<1>4. ReferenceFrames(SetReference(d, S, "none")) = ReferenceFrames(d) \ S
  BY <1>1, <1>2, <1>3 DEF ReferenceFrames
<1> QED
  BY <1>4 DEF Kept

(* References are as many as their frames.                                 *)
LEMMA KeptCounts ==
  ASSUME IInv, 0 \notin Ids(dpb.pic_list)
  PROVE  /\ IsFiniteSet(KeptIds) /\ Cardinality(KeptIds) = NumReferences(dpb)
         /\ Cardinality(KeptIds) \in Nat
         /\ \A p, q \in ReferenceFrames(dpb) : p.id = q.id => p = q
         /\ KeptIds = Ids(ReferenceFrames(dpb))
<1> DEFINE R == ReferenceFrames(dpb)
           f == [p \in R |-> p.id]
<1>1. KeptIds = Ids(R)
  <2>1. \A p : RefOf(p).id = p.id
    BY DEF RefOf
  <2> QED
    BY <2>1 DEF KeptIds, Kept, Ids
<1>2. \A p, q \in R : p.id = q.id => p = q
  BY DEF ReferenceFrames, IInv, DpbOk, Named, Ids
<1>3. IsFiniteSet(R) /\ NumReferences(dpb) = Cardinality(R)
  BY Counts DEF IInv, NumReferences
<1>4. f \in Surjection(R, Ids(R)) /\ f \in Injection(R, Ids(R))
  BY <1>2 DEF Surjection, Injection, IsInjective, Ids
<1>5. IsFiniteSet(Ids(R)) /\ Cardinality(Ids(R)) = Cardinality(R)
  BY <1>3, <1>4, FS_Surjection
<1> QED
  BY <1>1, <1>2, <1>3, <1>5, FS_CardinalityType

LEMMA IdsKept ==
  ASSUME NEW d
  PROVE  \A k \in Kept(d) : \E p \in ReferenceFrames(d) : k = RefOf(p) /\ k.id = p.id
BY DEF Kept, RefOf

-----------------------------------------------------------------------------
LEMMA SliceKinds ==
  ASSUME SlidingOnly, NEW h \in Slices
  PROVE  /\ ~h.adaptive /\ h.ref \in BOOLEAN /\ h.frame_num \in 0..(MaxFrameNum - 1)
         /\ h.idr => h.ref /\ h.frame_num = 0
         /\ ~h.idr => ~h.no_output_of_prior_pics /\ ~h.long_term_reference
<1>1. h.ref \in BOOLEAN /\ h.frame_num \in 0..(MaxFrameNum - 1)
  BY HdrTypes
<1>2. CASE h \in IdrSlices
  BY <1>1, <1>2 DEF IdrSlices
<1>3. CASE h \in OtherSlices /\ (h.adaptive => MaxMmco > 0)
  <2>1. MaxMmco = 0 /\ ~h.adaptive
    BY <1>3 DEF OtherSlices, SlidingOnly
  <2>2. ~h.idr /\ ~h.no_output_of_prior_pics /\ ~h.long_term_reference
    BY <1>3 DEF OtherSlices
  <2> QED
    BY <1>1, <2>1, <2>2
<1> QED
  BY <1>2, <1>3 DEF Slices

LEMMA NoGaps ==
  ASSUME SlidingOnly, IInv
  PROVE  ~sps.gaps
BY DEF SlidingOnly, IInv, TypeOK, NoSps

LEMMA RefLimit ==
  ASSUME SlidingOnly, IInv, sps # NoSps
  PROVE  MaxNumRefFrames \in Nat /\ MaxNumRefFrames >= 1 /\ MaxNumRefFrames < MaxFrameNum
<1>1. sps \in SpsSet
  BY DEF IInv, TypeOK
<1>2. MaxRefs(sps) < MaxFrameNum
  BY <1>1 DEF SlidingOnly
<1> QED
  BY <1>2, MaxRefsType DEF MaxRefs, MaxNumRefFrames

LEMMA AfterCounts ==
  ASSUME CvsOk, IInv, NEW n
  PROVE  IsFiniteSet(After(n)) /\ Later(n) \in Nat /\ IsFiniteSet(cvs.refs)
<1>1. aus \in Nat
  BY ConstantsAssumption DEF IInv, TypeOK
<1>2. cvs.refs \in SUBSET (1..aus)
  BY DEF CvsOk
<1>3. IsFiniteSet(cvs.refs)
  <2>1. IsFiniteSet(1..aus)
    BY <1>1, FS_Interval
  <2> QED
    BY <1>2, <2>1, FS_Subset
<1>4. After(n) \in SUBSET cvs.refs
  BY DEF After
<1> QED
  BY <1>3, <1>4, FS_Subset, FS_CardinalityType DEF Later

(* The later one of two references has fewer after it.                     *)
LEMMA LaterOrder ==
  ASSUME CvsOk, IInv, NEW m \in cvs.refs, NEW n \in cvs.refs, n < m
  PROVE  Later(m) < Later(n)
<1>1. cvs.refs \subseteq Int
  BY ConstantsAssumption DEF CvsOk
<1>2. After(m) \in SUBSET After(n) /\ m \in After(n) /\ m \notin After(m)
  BY <1>1 DEF After
<1>3. /\ IsFiniteSet(After(n)) /\ Later(n) \in Nat /\ Later(m) \in Nat
  BY AfterCounts
<1>4. Cardinality(After(m)) <= Cardinality(After(n))
  BY <1>2, <1>3, FS_Subset
<1>5. Cardinality(After(m)) # Cardinality(After(n))
  BY <1>2, <1>3, FS_Subset
<1> QED
  BY <1>3, <1>4, <1>5 DEF Later

(* A reference in the buffer lies back fewer steps than frame_num counts.  *)
LEMMA LaterBound ==
  ASSUME SlidingOnly, IInv, RefsWithinLimit, sps # NoSps, Steady, CvsOk, Latest,
         NEW k \in Kept(dpb), k.ref = "short"
  PROVE  /\ k.id \in cvs.refs /\ Later(k.id) \in Nat
         /\ Later(k.id) < MaxFrameNum
         /\ cur.id \notin cvs.refs => Later(k.id) < MaxFrameNum - 1
<1> DEFINE others == KeptIds \ {k.id}
<1>1. k.id \in KeptIds /\ k.id \in Meant
  BY DEF KeptIds, Latest
<1>2. k.id \in Int /\ Later(k.id) \in Nat /\ cvs.refs \subseteq Int
  BY <1>1, AfterCounts, ConstantsAssumption DEF CvsOk, Meant
<1>3. After(k.id) \subseteq others \union {cur.id}
  BY <1>2 DEF After, Latest, Meant
<1>4. /\ IsFiniteSet(KeptIds) /\ Cardinality(KeptIds) \in Nat
      /\ Cardinality(KeptIds) <= MaxNumRefFrames
  BY KeptCounts DEF Steady, RefsWithinLimit, NumReferences
<1>5. IsFiniteSet(others) /\ Cardinality(others) = Cardinality(KeptIds) - 1
  BY <1>1, <1>4, FS_RemoveElement
<1>6. /\ IsFiniteSet(others \union {cur.id})
      /\ Cardinality(others \union {cur.id}) <= Cardinality(KeptIds)
  <2>1. /\ IsFiniteSet(others \union {cur.id})
        /\ Cardinality(others \union {cur.id}) \in
             {Cardinality(others), Cardinality(others) + 1}
    BY <1>5, FS_AddElement
  <2> HIDE DEF others
  <2> QED
    BY <1>4, <1>5, <2>1
<1>7. Later(k.id) <= Cardinality(others \union {cur.id})
  BY <1>3, <1>6, FS_Subset DEF Later
<1>8. ASSUME cur.id \notin cvs.refs PROVE Later(k.id) <= Cardinality(others)
  <2>1. After(k.id) \in SUBSET others
    BY <1>3, <1>8 DEF After
  <2> QED
    BY <1>5, <2>1, FS_Subset DEF Later
<1>9. /\ Cardinality(others) \in Nat /\ Cardinality(others \union {cur.id}) \in Nat
  BY <1>5, <1>6, FS_CardinalityType
<1> HIDE DEF others
<1> QED
  BY <1>1, <1>2, <1>4, <1>5, <1>6, <1>7, <1>8, <1>9, RefLimit, ConstantsAssumption DEF Meant

(* So the sliding window sees the references in the order they came.       *)
LEMMA WrapOrder ==
  ASSUME SlidingOnly, IInv, RefsWithinLimit, sps # NoSps, Steady, CvsOk, Latest,
         NEW p \in ShortTermRefs(dpb), NEW q \in ShortTermRefs(dpb), p.id < q.id
  PROVE  /\ Older(p, q, cvs.prev_ref, MaxFrameNum)
         /\ ~Older(q, p, cvs.prev_ref, MaxFrameNum)
<1> DEFINE M == MaxFrameNum
           fn == cvs.prev_ref
<1>0. M \in Nat /\ fn \in 0..(M - 1)
  BY ConstantsAssumption DEF CvsOk
<1>1. ASSUME NEW r \in ShortTermRefs(dpb)
      PROVE  /\ r.id \in cvs.refs /\ Later(r.id) \in Nat
             /\ FrameNumWrap(r, fn, M) = fn - Later(r.id)
  <2>1. RefOf(r) \in Kept(dpb) /\ RefOf(r).ref = "short"
    BY DEF ShortTermRefs, ReferenceFrames, Kept, RefOf
  <2>2. RefOf(r).id = r.id /\ RefOf(r).frame_num = r.frame_num
    BY DEF RefOf
  <2>3. r.id \in cvs.refs /\ Later(r.id) \in Nat /\ Later(r.id) < M
    BY <2>1, <2>2, LaterBound
  <2>4. r.frame_num = FrameNumOf(r.id)
    BY <2>1, <2>2 DEF Latest
  <2> HIDE DEF M, fn
  <2>5. FrameNumOf(r.id) = IF Later(r.id) <= fn THEN fn - Later(r.id) ELSE fn - Later(r.id) + M
    BY DEF FrameNumOf, M, fn
  <2> QED
    BY <1>0, <2>3, <2>4, <2>5 DEF FrameNumWrap
<1>2. Later(q.id) < Later(p.id)
  BY <1>1, LaterOrder
<1>3. Later(q.id) \in Nat /\ Later(p.id) \in Nat
  BY <1>1
<1> HIDE DEF M, fn
<1>4. /\ FrameNumWrap(p, fn, M) \in Int /\ FrameNumWrap(q, fn, M) \in Int
      /\ FrameNumWrap(p, fn, M) < FrameNumWrap(q, fn, M)
  BY <1>0, <1>1, <1>2, <1>3
<1>5. Older(p, q, fn, M) /\ ~Older(q, p, fn, M)
  BY <1>4 DEF Older
<1> QED
  BY <1>5 DEF M, fn

(* The sliding window takes the first short-term reference when the buffer *)
(* is full of references, and none otherwise.                              *)
LEMMA SlidingTakesFirst ==
  ASSUME SlidingOnly, IInv, RefsWithinLimit, sps # NoSps, Steady, CvsOk, Latest,
         NEW V, V = SlidingVictims(dpb, MaxNumRefFrames, cvs.prev_ref, MaxFrameNum)
  PROVE  /\ V \subseteq ShortTermRefs(dpb)
         /\ \A v \in V, p \in ShortTermRefs(dpb) : v = p \/ v.id < p.id
         /\ Cardinality(KeptIds) < MaxNumRefFrames => V = {}
<1> DEFINE excess == Excess(dpb, MaxNumRefFrames)
           older(p) == {q \in ShortTermRefs(dpb) : Older(q, p, cvs.prev_ref, MaxFrameNum)}
<1>1. /\ Cardinality(KeptIds) = Cardinality(ReferenceFrames(dpb))
      /\ Cardinality(KeptIds) \in Nat /\ Cardinality(KeptIds) <= MaxNumRefFrames
  BY KeptCounts DEF Steady, RefsWithinLimit, NumReferences
<1>2. MaxNumRefFrames \in Nat
  BY RefLimit
<1>3. /\ excess <= 1 /\ excess \in Int
      /\ Cardinality(KeptIds) < MaxNumRefFrames => excess <= 0
  BY <1>1, <1>2 DEF Excess
<1>4. V = {p \in ShortTermRefs(dpb) : Cardinality(older(p)) < excess}
  BY DEF SlidingVictims
<1> HIDE DEF excess
<1>5. \A p : IsFiniteSet(older(p)) /\ Cardinality(older(p)) \in Nat
  <2> TAKE p
  <2>1. older(p) \in SUBSET ShortTermRefs(dpb) /\ IsFiniteSet(ShortTermRefs(dpb))
    BY Counts DEF IInv
  <2> QED
    BY <2>1, FS_Subset, FS_CardinalityType
<1>6. \A p : Cardinality(older(p)) < 1 => older(p) = {}
  <2> TAKE p
  <2> HIDE DEF older
  <2>1. Cardinality(older(p)) < 1 => Cardinality(older(p)) = 0
    BY <1>5
  <2> QED
    BY <1>5, <2>1, FS_EmptySet
<1>7. ASSUME NEW v \in V, NEW p \in ShortTermRefs(dpb), v # p
      PROVE  v.id < p.id
  <2>1. older(v) = {} /\ v \in ShortTermRefs(dpb)
    <3>1. Cardinality(older(v)) < 1 /\ v \in ShortTermRefs(dpb)
      <4>1. Cardinality(older(v)) < excess /\ v \in ShortTermRefs(dpb)
        BY <1>4, <1>7
      <4> HIDE DEF older
      <4> QED
        BY <1>3, <1>5, <4>1
    <3> QED
      BY <1>6, <3>1
  <2>2. ~Older(p, v, cvs.prev_ref, MaxFrameNum)
    BY <2>1
  <2>3. v \in ReferenceFrames(dpb) /\ p \in ReferenceFrames(dpb) /\ v.id \in Nat /\ p.id \in Nat
    BY <2>1 DEF ShortTermRefs, ReferenceFrames, IInv, DpbOk, Dpb, Picture
  <2>4. v.id # p.id
    BY <1>7, <2>3, KeptCounts DEF Steady
  <2>5. ~(p.id < v.id)
    BY <2>1, <2>2, WrapOrder
  <2> QED
    BY <2>3, <2>4, <2>5
<1>8. ASSUME Cardinality(KeptIds) < MaxNumRefFrames, V # {} PROVE FALSE
  <2>1. PICK p \in V : TRUE
    BY <1>8
  <2>2. Cardinality(older(p)) < excess
    BY <1>4, <2>1
  <2> HIDE DEF older
  <2> QED
    BY <1>3, <1>5, <1>8, <2>2
<1> QED
  BY <1>4, <1>7, <1>8

-----------------------------------------------------------------------------
(* A step that keeps the references and the stream.                        *)
LEMMA RefsUnmoved ==
  ASSUME RefsInv, Kept(dpb') = Kept(dpb), cvs' = cvs, sps' = sps, cur'.id = cur.id,
         phase # "bump" \/ (phase' = "bump" /\ cur' = cur),
         Replacing => Replacing',
         Steady', SpsKnown', CvsOk', CurOk'
  PROVE  RefsInv'
<1>1. KeptIds' = KeptIds /\ Meant' = Meant
  BY DEF KeptIds, Meant
<1>2. \A n : FrameNumOf(n)' = FrameNumOf(n)
  BY DEF FrameNumOf, Later, After
<1>3. MaxNumRefFrames' = MaxNumRefFrames
  BY DEF MaxNumRefFrames
<1>4. Latest => Latest'
  BY <1>1, <1>2 DEF Latest
<1>5. Filled => Filled'
  BY <1>1, <1>3 DEF Filled
<1> QED
  BY <1>4, <1>5 DEF RefsInv

(* A sequence begins with an empty buffer.                                 *)
LEMMA RefsEmptied ==
  ASSUME Kept(dpb') = {}, cvs'.refs \subseteq {cur'.id},
         Steady', SpsKnown', CvsOk', CurOk'
  PROVE  RefsInv'
<1>1. KeptIds' = {} /\ Meant' = {} /\ cvs'.long \ {cur'.id} = {}
  BY DEF KeptIds, Meant, CvsOk
<1>2. Latest' /\ Filled'
  BY <1>1 DEF Latest, Filled
<1> QED
  BY <1>2 DEF RefsInv

LEMMA RefsReplaced ==
  ASSUME Replacing', Steady', SpsKnown', CvsOk', CurOk'
  PROVE  RefsInv'
BY DEF RefsInv

LEMMA NewCvsOk ==
  ASSUME cvs' = NewCvs, ~InPicture', phase' # "fail"
  PROVE  CvsOk' /\ CurOk' /\ cvs'.needs_idr
<1>1. cvs'.refs = {} /\ cvs'.long = {} /\ cvs'.prev_ref = 0 /\ cvs'.needs_idr
  BY DEF NewCvs
<1> QED
  BY <1>1, ConstantsAssumption DEF CvsOk, CurOk

-----------------------------------------------------------------------------
(* A call ends, or an access unit begins.                                  *)
LEMMA ReturnRefs ==
  ASSUME IInv, RefsInv, Return, phase \in {"nals", "fail", "livebump"},
         UNCHANGED <<dpb, aus, sps, new_sps, seq, cvs>>
  PROVE  RefsInv'
<1>1. cur.id = 0 /\ cur' = NoPicture /\ NoPicture.id = 0
  BY DEF IInv, CurrentPicture, InPicture, RefsInv, CvsOk, Return, NoPicture
<1>2. phase' = "idle" /\ ret' = "ok" /\ ~mem_mgmt_5'
  BY DEF Return
<1>3. Steady' /\ SpsKnown' /\ CvsOk' /\ CurOk' /\ (Replacing => Replacing')
  BY <1>2 DEF RefsInv, Steady, SpsKnown, CvsOk, CurOk, Replacing, InHeaders, InPicture
<1> QED
  BY <1>1, <1>3, RefsUnmoved

LEMMA HeadersRefs ==
  ASSUME Conforming, SoundSps, Accepting, SlidingOnly, IInv, IInv', Limits, RefsInv,
         \/ HandleFrame \/ NoSliceInFrame \/ BadNal \/ FailFrame \/ NewPictureFails
         \/ NewSequence \/ \E s \in SpsSet : ParseSps(s)
  PROVE  RefsInv'
<1>1. CASE HandleFrame
  <2>1. /\ phase = "idle" /\ phase' = "nals" /\ aus' = aus + 1
        /\ UNCHANGED <<after, ret, cur, hdr, gap, mem_mgmt_5, dpb, sps, new_sps, seq, cvs>>
    BY <1>1 DEF HandleFrame, callVars, spsVars
  <2>2. Steady' /\ SpsKnown' /\ CurOk' /\ (Replacing => Replacing')
    BY <2>1 DEF RefsInv, Steady, SpsKnown, CurOk, Replacing, InPicture
  <2>3. CvsOk'
    <3>1. aus \in Nat
      BY ConstantsAssumption DEF IInv, TypeOK
    <3>2. 1..aus \subseteq 1..(aus + 1) /\ aus + 1 \notin 1..aus
      BY <3>1
    <3> QED
      BY <2>1, <3>2 DEF RefsInv, CvsOk, InPicture
  <2> QED
    BY <2>1, <2>2, <2>3, RefsUnmoved
<1>2. CASE NoSliceInFrame \/ FailFrame
  BY <1>2, ReturnRefs DEF NoSliceInFrame, FailFrame, spsVars
<1>3. CASE BadNal
  BY <1>3 DEF BadNal
<1>4. CASE NewPictureFails
  <2>1. /\ phase = "nals" /\ phase' = "fail"
        /\ UNCHANGED <<after, ret, cur, hdr, gap, mem_mgmt_5, aus, dpb, sps, new_sps, seq, cvs>>
    BY <1>4 DEF NewPictureFails, callVars, spsVars
  <2>2. cur.id = 0
    BY <2>1 DEF IInv, CurrentPicture, InPicture
  <2>3. Steady' /\ SpsKnown' /\ CvsOk' /\ CurOk' /\ (Replacing => Replacing')
    BY <2>1, <2>2 DEF RefsInv, Steady, SpsKnown, CvsOk, CurOk, Replacing, InHeaders, InPicture
  <2> QED
    BY <2>1, <2>3, RefsUnmoved
<1>5. ASSUME NEW s \in SpsSet, NEW d, SpsUpdated(s, d), d.max_num_frames = s.size,
             d.pic_list = dpb.pic_list, d \in Dpb,
             seq'.res = s.res, phase \in {"nals", "newseq"},
             s = sps => phase = "nals" /\ UNCHANGED new_sps,
             UNCHANGED <<after, ret, cur, hdr, gap, mem_mgmt_5, aus>>
      PROVE  RefsInv'
  <2>1. ReorderFrames(s, s.size) <= s.size
    BY <1>5, ConstantsAssumption DEF ReorderFrames, SoundSps
  <2>2. /\ phase' = "nals" /\ sps' = s /\ cvs' = IF s = sps THEN cvs ELSE NewCvs
        /\ dpb' = [d EXCEPT !.max_num_reorder_frames = ReorderFrames(s, s.size)]
    <3>1. s.size \in Nat /\ ReorderFrames(s, s.size) \in Nat
      BY SpsTypes, ConstantsAssumption
    <3>2. ~(ReorderFrames(s, d.max_num_frames) > d.max_num_frames)
      BY <1>5, <2>1, <3>1
    <3> QED
      BY <1>5, <3>2 DEF SpsUpdated, Interrupted
  <2>3. dpb'.pic_list = dpb.pic_list /\ Kept(dpb') = Kept(dpb)
    BY <1>5, <2>2 DEF Dpb, Kept, ReferenceFrames
  <2>4. Steady' /\ ~InPicture'
    BY <1>5, <2>2, <2>3 DEF RefsInv, Steady, InPicture
  <2>5. SpsKnown'
    <3>1. s # NoSps
      BY <1>5 DEF SoundSps, NoSps
    <3> QED
      BY <1>5, <2>2, <3>1 DEF SpsKnown
  <2>6. CASE s = sps
    <3>1. CvsOk' /\ CurOk' /\ (Replacing => Replacing')
      BY <1>5, <2>2, <2>6 DEF RefsInv, CvsOk, CurOk, Replacing, InHeaders, InPicture
    <3> QED
      BY <1>5, <2>2, <2>3, <2>4, <2>5, <2>6, <3>1, RefsUnmoved
  <2>7. CASE s # sps
    BY <2>2, <2>4, <2>5, <2>7, NewCvsOk, RefsReplaced DEF Replacing
  <2> QED
    BY <2>6, <2>7
<1>6. CASE NewSequence
  <2>1. /\ phase = "newseq" /\ seq' = new_sps
        /\ SpsUpdated(new_sps, [dpb EXCEPT !.max_num_frames = new_sps.size])
        /\ UNCHANGED <<after, ret, cur, hdr, gap, mem_mgmt_5, aus>>
    BY <1>6 DEF NewSequence, callVars
  <2>2. new_sps \in SpsSet /\ new_sps # sps
    BY <2>1 DEF RefsInv, SpsKnown
  <2>3. dpb \in Dpb /\ new_sps.size \in Nat
    BY <2>2, ConstantsAssumption DEF IInv, DpbOk
  <2>4. /\ [dpb EXCEPT !.max_num_frames = new_sps.size].max_num_frames = new_sps.size
        /\ [dpb EXCEPT !.max_num_frames = new_sps.size].pic_list = dpb.pic_list
        /\ [dpb EXCEPT !.max_num_frames = new_sps.size] \in Dpb
    BY <2>3 DEF Dpb
  <2> QED
    BY <1>5, <2>1, <2>2, <2>4
<1>7. CASE \E s \in SpsSet : ParseSps(s)
  <2>1. PICK s \in SpsSet : ParseSps(s)
    BY <1>7
  <2>2. /\ phase = "nals"
        /\ UNCHANGED <<ret, cur, hdr, gap, mem_mgmt_5, aus, seq>>
    BY <2>1 DEF ParseSps
  <2>3. CASE seq.res # s.res \/ dpb.max_num_frames # s.size
    <3>1. /\ new_sps' = s /\ phase' = "drain" /\ after' = "newseq"
          /\ UNCHANGED <<sps, dpb, cvs>>
      BY <2>1, <2>3 DEF ParseSps
    <3>2. s # sps
      <4>1. s # NoSps
        BY DEF SoundSps, NoSps
      <4> QED
        BY <2>3, <4>1 DEF RefsInv, SpsKnown, Limits, Sized
    <3>3. Steady' /\ SpsKnown' /\ CvsOk' /\ CurOk' /\ Replacing'
      BY <2>2, <3>1, <3>2
        DEF RefsInv, Steady, SpsKnown, CvsOk, CurOk, Replacing, InHeaders, InPicture
    <3> QED
      BY <3>3, RefsReplaced
  <2>4. CASE ~(seq.res # s.res \/ dpb.max_num_frames # s.size)
    <3>1. SpsUpdated(s, dpb) /\ UNCHANGED <<new_sps, after>>
      BY <2>1, <2>4 DEF ParseSps
    <3> QED
      BY <1>5, <2>2, <2>4, <3>1 DEF IInv, DpbOk
  <2> QED
    BY <2>3, <2>4
<1> QED
  BY <1>1, <1>2, <1>3, <1>4, <1>6, <1>7

-----------------------------------------------------------------------------
(* The first slice of a picture: the references lie one further back if it *)
(* is a reference itself.                                                  *)
LEMMA NewPictureRefs ==
  ASSUME Conforming, SlidingOnly, IInv, IInv', Limits, RefsInv,
         NEW h \in Slices, NewPicture(h)
  PROVE  RefsInv'
<1> DEFINE M == MaxFrameNum
<1>1. /\ phase = "nals" /\ phase' = "gap" /\ sps # NoSps /\ MayFollow(h)
      /\ cur' = BlankPicture /\ hdr' = h /\ cvs' = Extended(h)
      /\ UNCHANGED <<after, ret, mem_mgmt_5, aus, dpb, sps, new_sps, seq>>
  BY DEF NewPicture, spsVars
<1>2. /\ h.ref \in BOOLEAN /\ h.frame_num \in 0..(M - 1)
      /\ h.idr => h.ref /\ h.frame_num = 0
      /\ ~h.idr => ~h.long_term_reference
  BY SliceKinds
<1>3. cur.id = 0 /\ cur'.id = aus /\ aus \in Nat \ {0} /\ M \in Nat \ {0}
  BY <1>1, ConstantsAssumption
    DEF IInv, TypeOK, CurrentPicture, StoredEarlier, InHeaders, InPicture, BlankPicture, NoPicture
<1>4. /\ cvs'.refs = (IF h.idr THEN {} ELSE cvs.refs) \union (IF h.ref THEN {aus} ELSE {})
      /\ cvs'.long = IF ~h.idr THEN cvs.long
                     ELSE IF h.long_term_reference THEN {aus} ELSE {}
      /\ cvs'.prev_ref = IF h.ref THEN h.frame_num ELSE Preceding(h.frame_num)
      /\ cvs'.needs_idr = FALSE
  BY <1>1 DEF Extended
<1>5. ~h.idr => ~cvs.needs_idr /\ h.frame_num = Following(cvs.prev_ref)
  BY <1>1, NoGaps DEF MayFollow, GapBefore
<1>6. /\ cvs.refs \subseteq 1..aus /\ cvs.long \subseteq cvs.refs /\ aus \notin cvs.refs
      /\ cvs.prev_ref \in 0..(M - 1)
  BY <1>1 DEF RefsInv, CvsOk, InHeaders
<1>7. ~h.idr => /\ h.frame_num = IF cvs.prev_ref = M - 1 THEN 0 ELSE cvs.prev_ref + 1
                /\ ~h.ref => cvs'.prev_ref = cvs.prev_ref
  <2> SUFFICES ASSUME ~h.idr
               PROVE  /\ h.frame_num = IF cvs.prev_ref = M - 1 THEN 0 ELSE cvs.prev_ref + 1
                      /\ ~h.ref => cvs'.prev_ref = cvs.prev_ref
    OBVIOUS
  <2>1. h.frame_num = (cvs.prev_ref + 1) % M
    BY <1>5 DEF Following
  <2>2. h.frame_num = IF cvs.prev_ref = M - 1 THEN 0 ELSE cvs.prev_ref + 1
    BY <1>3, <1>6, <2>1
  <2>3. ~h.ref => cvs'.prev_ref = (h.frame_num + M - 1) % M
    BY <1>4 DEF Preceding
  <2> HIDE DEF M
  <2> QED
    BY <1>2, <1>3, <1>6, <2>2, <2>3
<1>8. cvs'.prev_ref \in 0..(M - 1)
  BY <1>2, <1>4, <1>6, <1>7
<1>9. Steady'
  <2>1. ~GapBefore(IF h.idr THEN 0 ELSE prev_ref_frame_num, h)
    BY NoGaps DEF GapBefore
  <2>2. gap' = h.frame_num
    BY <2>1 DEF NewPicture
  <2> QED
    BY <1>1, <2>2 DEF RefsInv, Steady
<1>10. SpsKnown' /\ CurOk'
  BY <1>1 DEF RefsInv, SpsKnown, CurOk
<1>11. CvsOk'
  BY <1>1, <1>2, <1>3, <1>4, <1>6, <1>8 DEF CvsOk, InHeaders, InPicture
<1>12. CASE h.idr
  BY <1>1, <1>9, <1>10, <1>11, <1>12, RefsReplaced DEF Replacing
<1>13. CASE ~h.idr
  <2>1. ~Replacing /\ Latest /\ Filled
    BY <1>1, <1>5, <1>13 DEF Replacing, RefsInv
  <2>2. /\ KeptIds' = KeptIds /\ Kept(dpb') = Kept(dpb) /\ Meant' = Meant
        /\ cvs'.long = cvs.long /\ cvs.long \ {cur'.id} = cvs.long \ {cur.id}
    BY <1>1, <1>3, <1>4, <1>6, <1>13 DEF KeptIds, Meant
  <2>3. RefsWithinLimit /\ ~Renewing
    BY <1>1, <1>5, <1>13 DEF Limits, Renewing
  <2>4. ASSUME NEW k \in Kept(dpb), k.ref = "short"
        PROVE  FrameNumOf(k.id)' = FrameNumOf(k.id)
    <3>1. cur.id \notin cvs.refs
      BY <1>3, <1>6
    <3>2. /\ k.id \in cvs.refs /\ Later(k.id) \in Nat /\ Later(k.id) < M - 1
      BY <1>1, <2>1, <2>3, <2>4, <3>1, LaterBound DEF RefsInv
    <3>3. IsFiniteSet(After(k.id)) /\ aus \notin After(k.id) /\ aus > k.id
      BY <1>3, <1>6, <3>2, AfterCounts DEF RefsInv, After
    <3>4. After(k.id)' = After(k.id) \union (IF h.ref THEN {aus} ELSE {})
      BY <1>4, <1>13, <3>3 DEF After
    <3>5. Later(k.id)' = IF h.ref THEN Later(k.id) + 1 ELSE Later(k.id)
      BY <3>3, <3>4, FS_AddElement DEF Later
    <3>6. cvs'.prev_ref = IF ~h.ref THEN cvs.prev_ref
                          ELSE IF cvs.prev_ref = M - 1 THEN 0 ELSE cvs.prev_ref + 1
      BY <1>2, <1>4, <1>7, <1>13
    <3> DEFINE later == Later(k.id)
               later2 == Later(k.id)'
               prev == cvs.prev_ref
               prev2 == cvs'.prev_ref
    <3>7. /\ FrameNumOf(k.id) = IF later <= prev THEN prev - later ELSE prev - later + M
          /\ FrameNumOf(k.id)' = IF later2 <= prev2 THEN prev2 - later2 ELSE prev2 - later2 + M
      BY DEF FrameNumOf
    <3>8. /\ later \in Nat /\ later < M - 1 /\ prev \in 0..(M - 1)
          /\ later2 = IF h.ref THEN later + 1 ELSE later
          /\ prev2 = IF ~h.ref THEN prev ELSE IF prev = M - 1 THEN 0 ELSE prev + 1
      BY <1>6, <3>2, <3>5, <3>6
    <3> HIDE DEF later, later2, prev, prev2, M
    <3> QED
      BY <1>2, <1>3, <3>7, <3>8
  <2>5. Latest'
    BY <2>1, <2>2, <2>4 DEF Latest
  <2>6. Filled'
    BY <1>1, <2>1, <2>2 DEF Filled, MaxNumRefFrames
  <2> QED
    BY <1>9, <1>10, <1>11, <2>5, <2>6 DEF RefsInv
<1> QED
  BY <1>12, <1>13

(* The picture is filled in from its slice header; an IDR picture empties  *)
(* the buffer.                                                             *)
LEMMA StartRefs ==
  ASSUME SlidingOnly, IInv, IInv', RefsInv, StartPicture \/ StartPictureClear
  PROVE  RefsInv'
<1>1. /\ phase = "gap" /\ cur' = PictureOf(hdr)
      /\ UNCHANGED <<ret, hdr, gap, mem_mgmt_5, aus, sps, new_sps, seq, cvs>>
  BY DEF StartPicture, StartPictureClear, spsVars
<1>2. hdr \in Slices /\ cur.id = aus /\ aus # 0
  BY <1>1 DEF RefsInv, CvsOk, InPicture, IInv, CurrentPicture, StoredEarlier
<1>3. hdr.ref \in BOOLEAN /\ (hdr.no_output_of_prior_pics => hdr.idr)
  BY <1>2, SliceKinds
<1>4. /\ cur'.id = aus /\ cur'.frame_num = hdr.frame_num
      /\ cur'.ref = IF hdr.ref THEN "short" ELSE "none"
  BY <1>1 DEF PictureOf, BlankPicture, NoPicture
<1>5. /\ phase' \in {"slices", "drain"} /\ (phase' = "drain" => after' = "slices" /\ hdr.idr)
      /\ phase' = "slices" => after' = after
  BY <1>3 DEF StartPicture, StartPictureClear
<1>6. 0 \notin Ids(dpb'.pic_list)
  <2>1. dpb \in Dpb /\ DpbOk(dpb) /\ 0 \notin Ids(dpb.pic_list)
    BY DEF IInv, DpbOk, RefsInv, Steady
  <2>2. Ids(UpdatePicNums(dpb).pic_list) = Ids(dpb.pic_list)
    BY <2>1, UpdatePicNumsRemarks, RemarkedOk
  <2>3. DpbClear(dpb).pic_list = {}
    BY <2>1 DEF DpbClear, Dpb
  <2> QED
    BY <2>1, <2>2, <2>3 DEF StartPicture, StartPictureClear, ClearDpb, Ids
<1>7. Steady' /\ SpsKnown'
  BY <1>1, <1>5, <1>6 DEF RefsInv, Steady, SpsKnown
<1>8. CvsOk' /\ CurOk'
  BY <1>1, <1>2, <1>4, <1>5 DEF RefsInv, CvsOk, CurOk, InHeaders, InPicture
<1>9. CASE ~hdr.idr
  <2>1. dpb' = UpdatePicNums(dpb) /\ phase' = "slices"
    BY <1>3, <1>9 DEF StartPicture, StartPictureClear
  <2>2. Kept(dpb') = Kept(dpb)
    BY <2>1, KeptRenumbered DEF IInv, DpbOk
  <2> QED
    BY <1>1, <1>2, <1>4, <1>7, <1>8, <1>9, <2>1, <2>2, RefsUnmoved DEF Replacing
<1>10. CASE hdr.idr
  <2>1. cvs'.refs \subseteq {cur'.id}
    BY <1>1, <1>2, <1>4, <1>10 DEF RefsInv, CvsOk, InPicture
  <2>2. CASE phase' = "drain"
    BY <1>7, <1>8, <2>2, RefsReplaced DEF Replacing
  <2>3. CASE phase' # "drain"
    <3>1. dpb' = DpbClear(dpb)
      BY <1>10, <2>3 DEF StartPicture, StartPictureClear, ClearDpb
    <3>2. Kept(dpb') = {}
      BY <3>1, KeptEmptied DEF DpbClear, IInv, DpbOk, Dpb
    <3> QED
      BY <1>7, <1>8, <2>1, <3>2, RefsEmptied
  <2> QED
    BY <2>2, <2>3
<1> QED
  BY <1>9, <1>10

-----------------------------------------------------------------------------
(* The reference marking of the picture, and of those in the buffer.       *)
LEMMA EndRefs ==
  ASSUME Accepting, IInv, IInv', RefsInv, EndPicture \/ EndPictureFails
  PROVE  RefsInv'
<1>1. EndPicture
  BY DEF EndPictureFails, Accepting
<1>2. /\ phase = "slices" /\ phase' = (IF cur.ref # "none" THEN "marking" ELSE "bump")
      /\ UNCHANGED <<after, ret, cur, hdr, gap, mem_mgmt_5, aus, sps, new_sps, seq, cvs>>
      /\ dpb' \in {dpb, DeleteUnused(dpb)}
  BY <1>1 DEF EndPicture, callVars, spsVars
<1>3. Kept(dpb') = Kept(dpb) /\ Ids(dpb'.pic_list) \subseteq Ids(dpb.pic_list)
  BY <1>2, KeptDeleted, DeleteUnusedOk DEF IInv, Ids
<1>4. Steady' /\ SpsKnown' /\ CvsOk' /\ (Replacing => Replacing')
  BY <1>2, <1>3 DEF RefsInv, Steady, SpsKnown, CvsOk, Replacing, InHeaders, InPicture
<1>5. CurOk'
  BY <1>2 DEF RefsInv, CurOk, InPicture
<1> QED
  BY <1>2, <1>3, <1>4, <1>5, RefsUnmoved

LEMMA MarkIdrRefs ==
  ASSUME SlidingOnly, IInv, IInv', Limits, RefsInv, MarkIdr
  PROVE  RefsInv'
<1> DEFINE c == Marked(cur, IF hdr.long_term_reference THEN "long" ELSE "short")
<1>1. /\ phase = "marking" /\ hdr.idr /\ Finish(MarkAllNonRef(dpb), c)
  BY DEF MarkIdr
<1>2. /\ ~mem_mgmt_5 /\ hdr \in Slices /\ cvs.refs = {cur.id}
      /\ cur.id \in cvs.long <=> hdr.long_term_reference
      /\ cur.frame_num = hdr.frame_num
  BY <1>1 DEF RefsInv, Steady, CvsOk, CurOk, InPicture
<1>3. c.id = cur.id /\ c.frame_num = cur.frame_num
      /\ c.ref = IF hdr.long_term_reference THEN "long" ELSE "short"
  BY DEF Marked, IInv, TypeOK, Picture
<1>4. /\ phase' = "bump" /\ cur' = c /\ dpb' = DeleteUnused(MarkAllNonRef(dpb))
      /\ UNCHANGED <<after, ret, hdr, gap, mem_mgmt_5, aus, sps, new_sps, seq, cvs>>
  BY <1>1, <1>2 DEF Finish, spsVars
<1> HIDE DEF c
<1>5. Kept(dpb') = {} /\ Ids(dpb'.pic_list) \subseteq Ids(dpb.pic_list)
  <2>1. dpb \in Dpb /\ DpbOk(dpb)
    BY DEF IInv, DpbOk
  <2>2. Remarked(dpb, MarkAllNonRef(dpb))
    BY <2>1, MarkingRemarks
  <2>3. DpbOk(MarkAllNonRef(dpb)) /\ Ids(MarkAllNonRef(dpb).pic_list) = Ids(dpb.pic_list)
    BY <2>1, <2>2, RemarkedOk
  <2>4. Kept(MarkAllNonRef(dpb)) = {}
    BY <2>1, KeptUnmarked DEF MarkAllNonRef, ReferenceFrames
  <2> QED
    BY <1>4, <2>3, <2>4, KeptDeleted, DeleteUnusedOk DEF Ids
<1>6. hdr.ref
  BY <1>1, <1>2, SliceKinds
<1>7. Steady' /\ SpsKnown' /\ CvsOk' /\ CurOk'
  BY <1>1, <1>2, <1>3, <1>4, <1>5, <1>6
    DEF RefsInv, Steady, SpsKnown, CvsOk, CurOk, InHeaders, InPicture
<1> QED
  BY <1>2, <1>3, <1>4, <1>5, <1>7, RefsEmptied

LEMMA MarkSlidingRefs ==
  ASSUME SlidingOnly, IInv, IInv', Limits, RefsInv, MarkSliding
  PROVE  RefsInv'
<1> DEFINE V == SlidingVictims(dpb, MaxNumRefFrames, cvs.prev_ref, MaxFrameNum)
           d == SetReference(dpb, V, "none")
<1>1. /\ phase = "marking" /\ ~hdr.idr
      /\ Finish(SlidingWindow(dpb, MaxNumRefFrames, hdr.frame_num, MaxFrameNum), cur)
  BY DEF MarkSliding
<1>2. /\ ~mem_mgmt_5 /\ hdr \in Slices /\ hdr.ref /\ cvs.prev_ref = hdr.frame_num
      /\ cur.ref = "short" /\ ~Replacing /\ Latest /\ Filled /\ cur.id \notin cvs.long
  <2>1. ~cvs.needs_idr /\ InPicture
    BY <1>1, InPictureLimits DEF InPicture
  <2>2. ~Replacing
    BY <1>1, <2>1 DEF Replacing
  <2>3. hdr.ref /\ hdr \in Slices /\ ~mem_mgmt_5 /\ cvs.prev_ref = hdr.frame_num
        /\ cur.id \notin cvs.long
    BY <1>1, <2>1 DEF RefsInv, Steady, CvsOk, CurOk
  <2>4. cur.ref = "short"
    BY <1>1, <2>1, <2>3 DEF RefsInv, CurOk
  <2> QED
    BY <2>2, <2>3, <2>4 DEF RefsInv
<1>3. RefsWithinLimit /\ sps # NoSps
  BY <1>1, InPictureLimits
<1>4. /\ phase' = "bump" /\ cur' = cur /\ dpb' = DeleteUnused(d)
      /\ UNCHANGED <<after, ret, hdr, gap, mem_mgmt_5, aus, sps, new_sps, seq, cvs>>
  BY <1>1, <1>2 DEF Finish, SlidingWindow, spsVars
<1>5. /\ V \subseteq ShortTermRefs(dpb)
      /\ \A v \in V, p \in ShortTermRefs(dpb) : v = p \/ v.id < p.id
      /\ Cardinality(KeptIds) < MaxNumRefFrames => V = {}
  BY <1>2, <1>3, SlidingTakesFirst DEF RefsInv
<1>6. dpb \in Dpb /\ V \subseteq dpb.pic_list
  BY <1>5 DEF ShortTermRefs, IInv, DpbOk
<1> HIDE DEF V
<1>7. /\ Kept(dpb') = {RefOf(p) : p \in ReferenceFrames(dpb) \ V}
      /\ Ids(dpb'.pic_list) \subseteq Ids(dpb.pic_list)
  <2>1. Remarked(dpb, d)
    BY <1>6, SetReferenceRemarks DEF References
  <2>2. DpbOk(d) /\ Ids(d.pic_list) = Ids(dpb.pic_list)
    BY <2>1, RemarkedOk DEF IInv
  <2> QED
    BY <1>4, <1>6, <2>2, KeptUnmarked, KeptDeleted, DeleteUnusedOk DEF Ids
<1>8. /\ Kept(dpb') \subseteq Kept(dpb) /\ KeptIds' \subseteq KeptIds
      /\ KeptIds' = KeptIds \ Ids(V)
  <2>1. Kept(dpb') \subseteq Kept(dpb)
    BY <1>7 DEF Kept
  <2>2. KeptIds' = Ids(ReferenceFrames(dpb) \ V)
    <3>1. KeptIds' = {k.id : k \in {RefOf(p) : p \in ReferenceFrames(dpb) \ V}}
      BY <1>7 DEF KeptIds
    <3>2. \A p : RefOf(p).id = p.id
      BY DEF RefOf
    <3> QED
      BY <3>1, <3>2 DEF Ids
  <2>3. V \subseteq ReferenceFrames(dpb)
    BY <1>5 DEF ShortTermRefs, ReferenceFrames
  <2>4. /\ KeptIds = Ids(ReferenceFrames(dpb))
        /\ \A p, q \in ReferenceFrames(dpb) : p.id = q.id => p = q
    BY KeptCounts DEF RefsInv, Steady
  <2>5. Ids(ReferenceFrames(dpb) \ V) = Ids(ReferenceFrames(dpb)) \ Ids(V)
    BY <2>3, <2>4 DEF Ids
  <2> QED
    BY <2>1, <2>2, <2>4, <2>5
<1>9. \A n : FrameNumOf(n)' = FrameNumOf(n)
  BY <1>4 DEF FrameNumOf, Later, After
<1>10. Steady' /\ SpsKnown' /\ CvsOk' /\ CurOk'
  BY <1>1, <1>2, <1>4, <1>7
    DEF RefsInv, Steady, SpsKnown, CvsOk, CurOk, InHeaders, InPicture
<1>11. ASSUME NEW v \in V
       PROVE  /\ v.id \in Nat /\ v.id \in KeptIds /\ v.id \notin cvs.long
              /\ \A k \in Kept(dpb') : k.ref = "short" => v.id < k.id
  <2>1. v \in ReferenceFrames(dpb) /\ v.ref = "short" /\ v.id \in Nat
    BY <1>5, <1>6 DEF ShortTermRefs, ReferenceFrames, Dpb, Picture
  <2>2. RefOf(v) \in Kept(dpb) /\ RefOf(v).id = v.id /\ RefOf(v).ref = "short"
    BY <2>1 DEF Kept, RefOf
  <2>3. v.id \in KeptIds /\ v.id \notin cvs.long
    BY <1>2, <2>2 DEF KeptIds, Latest
  <2>4. ASSUME NEW k \in Kept(dpb'), k.ref = "short" PROVE v.id < k.id
    <3>1. PICK p \in ReferenceFrames(dpb) \ V : k = RefOf(p)
      BY <1>7
    <3>2. p \in ShortTermRefs(dpb) /\ k.id = p.id
      BY <2>4, <3>1 DEF RefOf, ReferenceFrames, ShortTermRefs
    <3> QED
      BY <1>5, <3>1, <3>2
  <2> QED
    BY <2>1, <2>3, <2>4
<1>12. Latest'
  <2>1. cvs.long \ {cur.id} \subseteq KeptIds'
    BY <1>2, <1>8, <1>11 DEF Latest, Ids
  <2>2. \A k \in Kept(dpb') : k.id \in Nat
    BY <1>6, <1>7 DEF RefOf, ReferenceFrames, Dpb, Picture
  <2>3. \A k \in Kept(dpb') : k.ref = "short" =>
            \A m \in Meant : m > k.id => m \in KeptIds \ Ids(V)
    BY <1>2, <1>8, <1>11, <2>2 DEF Latest, Ids
  <2> QED
    BY <1>2, <1>4, <1>8, <1>9, <2>1, <2>3 DEF Latest, Meant
<1>13. Filled'
  <2>1. MaxNumRefFrames' = MaxNumRefFrames /\ MaxNumRefFrames \in Nat
    BY <1>3, <1>4, RefLimit DEF MaxNumRefFrames
  <2>2. IsFiniteSet(KeptIds) /\ Cardinality(KeptIds) \in Nat
    BY KeptCounts DEF RefsInv, Steady
  <2>3. CASE V = {}
    <3>1. KeptIds' = KeptIds
      BY <1>8, <2>3 DEF Ids
    <3> QED
      BY <1>2, <1>4, <2>1, <2>2, <3>1, <1>1 DEF Filled, Meant
  <2>4. CASE V # {}
    <3>1. PICK v \in V : TRUE
      BY <2>4
    <3>2. V = {v}
      <4>1. \A p \in V : p = v
        BY <1>5, <1>11, <3>1
      <4> QED
        BY <3>1, <4>1
    <3>3. KeptIds' = KeptIds \ {v.id}
      BY <1>8, <3>2 DEF Ids
    <3> DEFINE less == KeptIds \ {v.id}
    <3>4. /\ IsFiniteSet(less)
          /\ Cardinality(less) \in {Cardinality(KeptIds), Cardinality(KeptIds) - 1}
      BY <2>2, FS_RemoveElement
    <3>5. Cardinality(KeptIds) >= MaxNumRefFrames
      BY <1>5, <2>1, <2>2, <2>4
    <3>6. KeptIds' = less
      BY <3>3
    <3> HIDE DEF less
    <3>7. Cardinality(less) >= MaxNumRefFrames - 1
      BY <2>1, <2>2, <3>4, <3>5
    <3>8. Cardinality(KeptIds') >= MaxNumRefFrames' - 1
      BY <2>1, <3>6, <3>7
    <3> QED
      BY <1>2, <1>4, <3>8 DEF Filled
  <2> QED
    BY <2>3, <2>4
<1> QED
  BY <1>10, <1>12, <1>13 DEF RefsInv

-----------------------------------------------------------------------------
(* An output never fails: the frame is still there, and the client accepts *)
(* it.                                                                     *)
LEMMA OutputSucceeds ==
  ASSUME Accepting, NEW p, p.id \in pending, NEW leaves, OutputPicture(p, leaves)
  PROVE  ret' = ret
BY DEF Accepting, OutputPicture

LEMMA BumpRefs ==
  ASSUME Accepting, IInv, IInv', ClientInv, RefsInv, Bumping
  PROVE  RefsInv'
<1>1. phase # "gapbump"
  BY DEF RefsInv, Steady
<1>2. PICK insert, mode : BumpTurn(insert, mode) /\ phase \in {"bump", "livebump"}
  BY <1>1 DEF Bumping, GapBump, BumpBefore, LiveBump
<1>3. PICK low \in NeededForOutput(dpb) :
        OutputPicture(low, Leaves(low, FALSE)) /\ dpb' = Bump(dpb, low, FALSE)
  BY <1>2 DEF BumpTurn
<1>4. UNCHANGED <<phase, after, aus, cur, hdr, gap, mem_mgmt_5, sps, new_sps, seq, cvs>>
  BY <1>2 DEF BumpTurn, spsVars
<1>5. ret' = ret
  <2>1. low.id \in pending
    BY DEF ClientInv, Owed, Ids, Accepting
  <2> QED
    BY <1>3, <2>1, OutputSucceeds
<1>6. Kept(dpb') = Kept(dpb) /\ Ids(dpb'.pic_list) \subseteq Ids(dpb.pic_list)
  <2>1. DpbOk(dpb)
    BY DEF IInv
  <2> QED
    BY <1>3, <2>1, KeptBumped, BumpOk
<1>7. Steady' /\ SpsKnown' /\ CvsOk' /\ CurOk' /\ (Replacing => Replacing')
  BY <1>4, <1>5, <1>6
    DEF RefsInv, Steady, SpsKnown, CvsOk, CurOk, Replacing, InHeaders, InPicture
<1> QED
  BY <1>2, <1>4, <1>6, <1>7, RefsUnmoved

LEMMA StoreRefs ==
  ASSUME IInv, IInv', Limits, RefsInv, Store
  PROVE  RefsInv'
<1>1. /\ phase = "bump" /\ phase' = "livebump" /\ dpb' = DpbAdd(dpb, cur)
      /\ cur' = NoPicture
      /\ UNCHANGED <<after, ret, hdr, gap, mem_mgmt_5, aus, sps, new_sps, seq, cvs>>
  BY DEF Store, spsVars
<1>2. /\ ~Replacing /\ Latest /\ Filled /\ cur.id = aus /\ aus # 0 /\ InPicture
      /\ cur \in Picture /\ NoPicture.id = 0
  BY <1>1, InPictureLimits
    DEF RefsInv, Replacing, IInv, CurrentPicture, StoredEarlier, InPicture, TypeOK, NoPicture
<1>3. /\ hdr.ref <=> cur.id \in cvs.refs
      /\ cur.frame_num = hdr.frame_num /\ (hdr.ref => cvs.prev_ref = hdr.frame_num)
      /\ cur.ref = IF ~hdr.ref THEN "none"
                   ELSE IF cur.id \in cvs.long THEN "long" ELSE "short"
      /\ cvs.refs \subseteq 1..aus /\ cvs.long \subseteq cvs.refs
      /\ cvs.prev_ref \in 0..(MaxFrameNum - 1)
  BY <1>1, <1>2 DEF RefsInv, CvsOk, CurOk
<1>4. Kept(dpb') = Kept(dpb) \union (IF hdr.ref THEN {RefOf(cur)} ELSE {})
  BY <1>1, <1>2, <1>3, KeptAdded DEF IInv
<1>5. /\ RefOf(cur).id = aus /\ RefOf(cur).frame_num = hdr.frame_num
      /\ RefOf(cur).ref = cur.ref
  BY <1>2, <1>3 DEF RefOf
<1>6. KeptIds' = KeptIds \union (IF hdr.ref THEN {aus} ELSE {})
  BY <1>4, <1>5 DEF KeptIds
<1>7. /\ Meant' = cvs.refs /\ Meant' = Meant \union (IF hdr.ref THEN {aus} ELSE {})
      /\ aus \in Nat
  BY <1>1, <1>2, <1>3, ConstantsAssumption DEF Meant, IInv, TypeOK
<1>8. \A n : FrameNumOf(n)' = FrameNumOf(n)
  BY <1>1 DEF FrameNumOf, Later, After
<1>9. After(aus) = {}
  BY <1>3, <1>7 DEF After
<1>10. FrameNumOf(aus) = cvs.prev_ref
  <2>1. Later(aus) = 0
    BY <1>9, FS_EmptySet DEF Later
  <2> QED
    BY <1>3, <2>1 DEF FrameNumOf
<1>11. Latest'
  <2>1. cvs'.long \ {cur'.id} \subseteq KeptIds'
    BY <1>1, <1>2, <1>3, <1>6 DEF Latest
  <2>2. KeptIds' \subseteq Meant'
    BY <1>2, <1>6, <1>7 DEF Latest
  <2>3. ASSUME NEW k \in Kept(dpb')
        PROVE  /\ k.ref = "long" <=> k.id \in cvs'.long
               /\ k.ref = "short" => /\ k.frame_num = FrameNumOf(k.id)'
                                     /\ \A m \in Meant' : m > k.id => m \in KeptIds'
    <3>1. CASE k \in Kept(dpb)
      BY <1>1, <1>2, <1>6, <1>7, <1>8, <3>1 DEF Latest
    <3>2. CASE hdr.ref /\ k = RefOf(cur)
      <4>1. \A m \in Meant' : ~(m > k.id)
        BY <1>3, <1>5, <1>7, <3>2
      <4>2. k.ref = "long" <=> k.id \in cvs'.long
        BY <1>1, <1>2, <1>3, <1>5, <3>2
      <4>3. k.frame_num = FrameNumOf(k.id)'
        BY <1>3, <1>5, <1>8, <1>10, <3>2
      <4> QED
        BY <4>1, <4>2, <4>3
    <3> QED
      BY <1>4, <3>1, <3>2
  <2> QED
    BY <2>1, <2>2, <2>3 DEF Latest
<1>12. Filled'
  <2>1. MaxNumRefFrames' = MaxNumRefFrames /\ MaxNumRefFrames \in Nat
    BY <1>1, MaxRefsType DEF MaxNumRefFrames
  <2>2. /\ IsFiniteSet(KeptIds) /\ Cardinality(KeptIds) \in Nat
        /\ Cardinality(KeptIds) >= MaxNumRefFrames - (IF hdr.ref THEN 1 ELSE 0)
             \/ Meant \subseteq KeptIds
    BY <1>3, <2>1, KeptCounts, <1>2 DEF RefsInv, Steady, Filled
  <2>3. CASE Meant \subseteq KeptIds
    BY <1>6, <1>7, <2>3 DEF Filled
  <2>4. CASE Cardinality(KeptIds) >= MaxNumRefFrames - (IF hdr.ref THEN 1 ELSE 0)
    <3>1. aus \notin KeptIds
      BY <1>2 DEF Latest, Meant
    <3>2. Cardinality(KeptIds \union {aus}) = Cardinality(KeptIds) + 1
      BY <2>2, <3>1, FS_AddElement
    <3>3. Cardinality(KeptIds') >= MaxNumRefFrames'
      <4>1. CASE hdr.ref
        <5>1. KeptIds' = KeptIds \union {aus}
          BY <1>6, <4>1
        <5>2. Cardinality(KeptIds \union {aus}) >= MaxNumRefFrames
          BY <2>1, <2>2, <2>4, <3>2, <4>1
        <5> QED
          BY <2>1, <5>1, <5>2
      <4>2. CASE ~hdr.ref
        <5>1. KeptIds' = KeptIds
          BY <1>6, <4>2
        <5>2. Cardinality(KeptIds) >= MaxNumRefFrames
          BY <2>1, <2>2, <2>4, <4>2
        <5> QED
          BY <2>1, <5>1, <5>2
      <4> QED
        BY <4>1, <4>2
    <3> QED
      BY <3>3 DEF Filled
  <2> QED
    BY <2>2, <2>3, <2>4
<1>13. 0 \notin Ids(dpb'.pic_list)
  <2>1. Ids(dpb'.pic_list) \subseteq Ids(dpb.pic_list) \union {cur.id}
    <3>1. cur.id \notin Ids(dpb.pic_list) /\ cur.id # 0 /\ cur.nonexisting = FALSE
      BY <1>2 DEF IInv, CurrentPicture, StoredEarlier
    <3> QED
      BY <1>1, <1>2, <3>1, DpbAddOk DEF IInv
  <2> QED
    BY <1>2, <2>1 DEF RefsInv, Steady
<1>14. Steady' /\ SpsKnown' /\ CvsOk' /\ CurOk'
  BY <1>1, <1>13 DEF RefsInv, Steady, SpsKnown, CvsOk, CurOk, InHeaders, InPicture
<1> QED
  BY <1>11, <1>12, <1>14 DEF RefsInv

LEMMA DirectRefs ==
  ASSUME Accepting, IInv, IInv', ClientInv, Limits, RefsInv, OutputDirectly
  PROVE  RefsInv'
<1>1. /\ phase = "bump" /\ phase' = "livebump" /\ dpb' = SetLastOutput(dpb, cur)
      /\ cur' = NoPicture /\ cur.ref = "none" /\ OutputPicture(cur, TRUE)
      /\ UNCHANGED <<after, hdr, gap, mem_mgmt_5, aus, sps, new_sps, seq, cvs>>
  BY DEF OutputDirectly, Stored, spsVars
<1>2. /\ ~Replacing /\ Latest /\ Filled /\ cur.id = aus /\ InPicture /\ NoPicture.id = 0
  BY <1>1, InPictureLimits
    DEF RefsInv, Replacing, IInv, CurrentPicture, StoredEarlier, InPicture, NoPicture
<1>3. ret' = ret
  <2>1. cur.id \in pending
    BY <1>1, <1>2 DEF ClientInv, Owed, AfterEnd, Accepting
  <2> QED
    BY <1>1, <2>1, OutputSucceeds
<1>4. dpb'.pic_list = dpb.pic_list /\ Kept(dpb') = Kept(dpb) /\ KeptIds' = KeptIds
  <2>1. dpb'.pic_list = dpb.pic_list
    BY <1>1 DEF SetLastOutput, IInv, DpbOk, Dpb
  <2> QED
    BY <2>1 DEF Kept, KeptIds, ReferenceFrames
<1>5. aus \notin cvs.refs /\ aus \notin cvs.long /\ 0 \notin cvs.refs
  BY <1>1, <1>2 DEF RefsInv, CvsOk, CurOk
<1>6. Meant' = Meant /\ cvs'.long \ {cur'.id} = cvs.long \ {cur.id}
  BY <1>1, <1>2, <1>5 DEF Meant, RefsInv, CvsOk
<1>7. \A n : FrameNumOf(n)' = FrameNumOf(n)
  BY <1>1 DEF FrameNumOf, Later, After
<1>8. Latest' /\ Filled'
  BY <1>1, <1>2, <1>4, <1>6, <1>7 DEF Latest, Filled, MaxNumRefFrames
<1>9. Steady' /\ SpsKnown' /\ CvsOk' /\ CurOk'
  BY <1>1, <1>3, <1>4 DEF RefsInv, Steady, SpsKnown, CvsOk, CurOk, InHeaders, InPicture
<1> QED
  BY <1>8, <1>9 DEF RefsInv

-----------------------------------------------------------------------------
(* Draining and the other calls.                                           *)
LEMMA DrainRefs ==
  ASSUME Accepting, IInv, IInv', ClientInv, Limits, RefsInv, DrainTurn \/ DrainOver
  PROVE  RefsInv'
<1>1. /\ phase = "drain" /\ ret = "ok" /\ after # "bump" /\ (after = "idle" => cvs.needs_idr)
      /\ after \in {"idle", "newseq", "slices"}
  BY DEF DrainTurn, DrainOver, RefsInv, Steady, IInv, TypeOK
<1>2. CASE DrainTurn
  <2>1. PICK low \in NeededForOutput(dpb) :
          OutputPicture(low, Leaves(low, TRUE)) /\ dpb' = Bump(dpb, low, TRUE)
    BY <1>2 DEF DrainTurn
  <2>2. UNCHANGED <<phase, after, aus, cur, hdr, gap, mem_mgmt_5, sps, new_sps, seq, cvs>>
    BY <1>2 DEF DrainTurn, spsVars
  <2>3. ret' = ret
    <3>1. low.id \in pending
      BY DEF ClientInv, Owed, Ids, Accepting
    <3> QED
      BY <2>1, <3>1, OutputSucceeds
  <2>4. Ids(dpb'.pic_list) \subseteq Ids(dpb.pic_list)
    BY <2>1, BumpOk DEF IInv
  <2>5. Steady' /\ SpsKnown' /\ CvsOk' /\ CurOk' /\ Replacing'
    BY <1>1, <2>2, <2>3, <2>4
      DEF RefsInv, Steady, SpsKnown, CvsOk, CurOk, Replacing, InHeaders, InPicture
  <2> QED
    BY <2>5, RefsReplaced
<1>3. CASE DrainOver
  <2>1. dpb'.pic_list = {}
    BY <1>3 DEF DrainOver, DpbClear, IInv, DpbOk, Dpb
  <2>2. Kept(dpb') = {} /\ Ids(dpb'.pic_list) = {}
    BY <2>1, KeptEmptied DEF Ids
  <2>3. UNCHANGED <<aus, sps, new_sps, seq, cvs>>
    BY <1>3 DEF DrainOver, spsVars
  <2>4. CASE after = "idle"
    <3>1. phase' = "idle" /\ ret' = "ok" /\ ~mem_mgmt_5'
      BY <1>3, <2>4 DEF DrainOver, Return
    <3>2. Steady' /\ SpsKnown' /\ CvsOk' /\ CurOk' /\ Replacing'
      BY <1>1, <2>2, <2>3, <2>4, <3>1
        DEF RefsInv, Steady, SpsKnown, CvsOk, CurOk, Replacing, InHeaders, InPicture
    <3> QED
      BY <3>2, RefsReplaced
  <2>5. CASE after # "idle"
    <3>1. /\ phase' = after /\ after' = "idle"
          /\ UNCHANGED <<ret, cur, hdr, gap, mem_mgmt_5>>
      BY <1>1, <1>3, <2>5 DEF DrainOver
    <3>2. Steady' /\ SpsKnown' /\ CvsOk' /\ CurOk'
      BY <1>1, <2>2, <2>3, <2>5, <3>1
        DEF RefsInv, Steady, SpsKnown, CvsOk, CurOk, InHeaders, InPicture
    <3>3. CASE after = "newseq"
      BY <3>1, <3>2, <3>3, RefsReplaced DEF Replacing
    <3>4. CASE after = "slices"
      <4>1. hdr.idr /\ InPicture
        BY <1>1, <3>4 DEF Limits, Opens, InPicture
      <4>2. cvs'.refs \subseteq {cur'.id}
        BY <2>3, <3>1, <4>1 DEF RefsInv, CvsOk
      <4> QED
        BY <2>2, <3>2, <4>2, RefsEmptied
    <3> QED
      BY <1>1, <2>5, <3>3, <3>4
  <2> QED
    BY <2>4, <2>5
<1> QED
  BY <1>2, <1>3

LEMMA CallsRefs ==
  ASSUME Conforming, SlidingOnly, IInv, IInv', RefsInv,
         FrameDone \/ Drain \/ Flush \/ Stop \/ Start
  PROVE  RefsInv'
<1>1. CASE FrameDone
  BY <1>1, ReturnRefs DEF FrameDone, spsVars
<1>2. CASE Drain \/ Flush \/ Stop
  <2>1. /\ phase = "idle" /\ cvs' = NewCvs
        /\ phase' \in {"idle", "drain", "stopped"} /\ (phase' = "drain" => after' = "idle")
        /\ UNCHANGED <<ret, mem_mgmt_5>>
    BY <1>2 DEF Drain, Flush, Stop, Interrupted, callVars
  <2>2. ~InPicture' /\ CvsOk' /\ CurOk' /\ cvs'.needs_idr
    <3>1. ~InPicture' /\ phase' # "fail"
      BY <2>1 DEF InPicture
    <3> QED
      BY <2>1, <3>1, NewCvsOk
  <2>3. Ids(dpb'.pic_list) \subseteq Ids(dpb.pic_list)
    <3>1. DpbClear(dpb).pic_list = {} /\ NewDpb.pic_list = {}
      BY DEF DpbClear, NewDpb, IInv, DpbOk, Dpb
    <3>2. dpb' \in {dpb, DpbClear(dpb), NewDpb}
      BY <1>2 DEF Drain, Flush, Stop, ClearDpb
    <3> QED
      BY <3>1, <3>2 DEF Ids
  <2>4. UNCHANGED <<sps, seq>> \/ sps' = NoSps
    BY <1>2 DEF Drain, Flush, Stop, spsVars
  <2>5. Steady' /\ SpsKnown' /\ Replacing'
    BY <2>1, <2>2, <2>3, <2>4 DEF RefsInv, Steady, SpsKnown, Replacing
  <2> QED
    BY <2>2, <2>5, RefsReplaced
<1>3. CASE Start
  <2>1. /\ phase = "stopped" /\ phase' = "idle"
        /\ UNCHANGED <<after, ret, cur, hdr, gap, mem_mgmt_5, aus, dpb, sps, new_sps, seq, cvs>>
    BY <1>3 DEF Start, callVars, spsVars
  <2>2. Steady' /\ SpsKnown' /\ CvsOk' /\ CurOk' /\ (Replacing => Replacing')
    BY <2>1 DEF RefsInv, Steady, SpsKnown, CvsOk, CurOk, Replacing, InHeaders, InPicture
  <2> QED
    BY <2>1, <2>2, RefsUnmoved
<1> QED
  BY <1>1, <1>2, <1>3

-----------------------------------------------------------------------------
LEMMA RefsInit ==
  ASSUME SlidingOnly, Init
  PROVE  RefsInv
<1>1. cvs.refs = {} /\ cvs.long = {} /\ cvs.prev_ref = 0 /\ cvs.needs_idr
  BY DEF Init, NewCvs
<1>2. dpb.pic_list = {}
  BY DEF Init, NewDpb
<1> QED
  BY <1>1, <1>2, ConstantsAssumption
    DEF Init, RefsInv, Steady, SpsKnown, CvsOk, CurOk, Replacing, InHeaders, InPicture, Ids

LEMMA RefsNext ==
  ASSUME Conforming, SoundSps, Accepting, SlidingOnly,
         IInv, Limits, ClientInv, RefsInv, [Next]_vars
  PROVE  RefsInv'
<1>0. IInv'
  BY NextInv
<1>1. CASE UNCHANGED vars
  <2>1. UNCHANGED <<phase, after, ret, cur, hdr, gap, mem_mgmt_5, aus, dpb, sps, new_sps, seq, cvs>>
    BY <1>1 DEF vars, callVars, spsVars
  <2>2. Steady' /\ SpsKnown' /\ CvsOk' /\ CurOk' /\ (Replacing => Replacing')
    BY <2>1 DEF RefsInv, Steady, SpsKnown, CvsOk, CurOk, Replacing, InHeaders, InPicture
  <2> QED
    BY <2>1, <2>2, RefsUnmoved
<1>2. CASE \/ HandleFrame \/ NoSliceInFrame \/ BadNal \/ FailFrame \/ NewPictureFails
           \/ NewSequence \/ \E s \in SpsSet : ParseSps(s)
  BY <1>0, <1>2, HeadersRefs
<1>3. CASE \E h \in Slices : NewPicture(h)
  BY <1>0, <1>3, NewPictureRefs
<1>4. CASE GapMark \/ GapStore
  BY <1>4 DEF GapMark, GapStore, RefsInv, Steady
<1>5. CASE StartPicture \/ StartPictureClear
  BY <1>0, <1>5, StartRefs
<1>6. CASE EndPicture \/ EndPictureFails
  BY <1>0, <1>6, EndRefs
<1>7. CASE Marking
  <2>1. phase = "marking"
    BY <1>7 DEF Marking, MarkIdr, MarkSliding, MmcoEnd, UnmarkShort, UnmarkLong, ShortToLong,
                LimitLong, UnmarkAll, CurrentToLong, Mmco
  <2>2. ~hdr.adaptive
    BY <2>1, SliceKinds DEF RefsInv, CvsOk, InPicture
  <2>3. MarkIdr \/ MarkSliding
    BY <1>7, <2>2 DEF Marking, MmcoEnd, UnmarkShort, UnmarkLong, ShortToLong,
                      LimitLong, UnmarkAll, CurrentToLong, Mmco
  <2> QED
    BY <1>0, <2>3, MarkIdrRefs, MarkSlidingRefs
<1>8. CASE Bumping
  BY <1>0, <1>8, BumpRefs
<1>9. CASE Store \/ OutputDirectly
  BY <1>0, <1>9, StoreRefs, DirectRefs
<1>10. CASE DrainTurn \/ DrainOver
  BY <1>0, <1>10, DrainRefs
<1>11. CASE FrameDone \/ Drain \/ Flush \/ Stop \/ Start
  BY <1>0, <1>11, CallsRefs
<1> QED
  BY <1>1, <1>2, <1>3, <1>4, <1>5, <1>6, <1>7, <1>8, <1>9, <1>10, <1>11
    DEF Next, Work, Calls, Nals

LEMMA RefsInvariance ==
  ASSUME Conforming, SoundSps, Accepting, SlidingOnly
  PROVE  Spec => [](IInv /\ Limits /\ RefsInv)
<1>1. IInv /\ Limits /\ ClientInv /\ RefsInv /\ [Next]_vars => RefsInv'
  BY RefsNext
<1>2. Init => RefsInv
  BY RefsInit
<1> QED
  BY <1>1, <1>2, LimitsInvariance, ClientInvariance, PTL DEF Spec

(* An end of the short-term references that fills the room beside the      *)
(* long-term ones is the latest of them.                                   *)
LEMMA LatestFill ==
  ASSUME IInv, Limits, RefsInv, phase = "slices"
  PROVE  RefsAreLatest
<1> DEFINE long == cvs.long \ {cur.id}
           short == cvs.refs \ (cvs.long \union {cur.id})
           room == MaxNumRefFrames - Cardinality(long)
           kept == KeptIds \cap short
           later(n) == {m \in short : m > n}
<1>1. /\ Latest /\ Filled /\ CvsOk /\ RefsWithinLimit /\ sps # NoSps
  BY InPictureLimits DEF RefsInv, Replacing
<1>2. /\ IsFiniteSet(KeptIds) /\ Cardinality(KeptIds) \in Nat
      /\ Cardinality(KeptIds) <= MaxNumRefFrames /\ MaxNumRefFrames \in Nat
      /\ KeptIds = Ids(ReferenceFrames(dpb))
  BY <1>1, KeptCounts, MaxRefsType DEF RefsInv, Steady, RefsWithinLimit, NumReferences
<1>3. KeptIds = long \union kept /\ long \cap kept = {} /\ short \subseteq Int
  <2>1. KeptIds \subseteq cvs.refs \ {cur.id} /\ long \subseteq KeptIds
    BY <1>1 DEF Latest, Meant
  <2> QED
    BY <1>1, <2>1, ConstantsAssumption DEF CvsOk
<1>4. /\ IsFiniteSet(long) /\ IsFiniteSet(kept) /\ IsFiniteSet(short)
      /\ Cardinality(KeptIds) = Cardinality(long) + Cardinality(kept)
      /\ Cardinality(long) \in Nat /\ Cardinality(kept) \in Nat
  <2>1. long \in SUBSET KeptIds /\ kept \in SUBSET KeptIds /\ short \in SUBSET cvs.refs
    BY <1>3
  <2>2. IsFiniteSet(cvs.refs)
    BY <1>1, AfterCounts
  <2>3. IsFiniteSet(long) /\ IsFiniteSet(kept) /\ IsFiniteSet(short)
    BY <1>2, <2>1, <2>2, FS_Subset
  <2>4. Cardinality(long \union kept) =
          Cardinality(long) + Cardinality(kept) - Cardinality(long \cap kept)
    BY <2>3, FS_Union
  <2>5. Cardinality(long \cap kept) = 0
    BY <1>3, FS_EmptySet
  <2>6. Cardinality(long) \in Nat /\ Cardinality(kept) \in Nat
    BY <2>3, FS_CardinalityType
  <2> HIDE DEF long, kept, short
  <2> QED
    BY <1>3, <2>3, <2>4, <2>5, <2>6
<1>5. \A n \in kept, m \in short : m > n => m \in kept
  <2> SUFFICES ASSUME NEW n \in kept, NEW m \in short, m > n PROVE m \in KeptIds
    OBVIOUS
  <2>1. PICK k \in Kept(dpb) : n = k.id
    BY DEF KeptIds
  <2>2. PICK p \in ReferenceFrames(dpb) : k = RefOf(p)
    BY DEF Kept
  <2>3. k.ref \in {"short", "long"}
    BY <2>2 DEF RefOf, ReferenceFrames, IInv, DpbOk, Dpb, Picture, References
  <2>4. k.ref = "short"
    BY <1>1, <2>1, <2>3 DEF Latest
  <2> QED
    BY <1>1, <2>1, <2>4 DEF Latest, Meant
<1>6. Cardinality(kept) <= room /\ (kept = short \/ Cardinality(kept) = room)
  <2>1. Meant \subseteq KeptIds => kept = short
    BY DEF Meant
  <2>2. Meant \subseteq KeptIds \/ Cardinality(KeptIds) >= MaxNumRefFrames
    BY <1>1 DEF Filled
  <2> HIDE DEF long, kept, short
  <2> QED
    BY <1>2, <1>4, <2>1, <2>2
<1>7. ASSUME NEW n \in short
      PROVE  /\ IsFiniteSet(later(n)) /\ Cardinality(later(n)) \in Nat
  <2>1. later(n) \in SUBSET short
    OBVIOUS
  <2> HIDE DEF short, later
  <2> QED
    BY <1>4, <2>1, FS_Subset, FS_CardinalityType
<1>8. ASSUME NEW n \in kept PROVE Cardinality(later(n)) < room
  <2>1. later(n) \in SUBSET (kept \ {n}) /\ n \in short
    BY <1>3, <1>5
  <2>2. IsFiniteSet(kept \ {n}) /\ Cardinality(kept \ {n}) = Cardinality(kept) - 1
    BY <1>4, FS_RemoveElement
  <2>3. Cardinality(later(n)) <= Cardinality(kept \ {n})
    BY <2>1, <2>2, FS_Subset
  <2>4. Cardinality(later(n)) \in Nat
    BY <1>7, <2>1
  <2> HIDE DEF long, kept, short, later
  <2> QED
    BY <1>2, <1>4, <1>6, <2>2, <2>3, <2>4
<1>9. ASSUME NEW n \in short \ kept PROVE ~(Cardinality(later(n)) < room)
  <2>1. kept \in SUBSET later(n)
    <3> SUFFICES ASSUME NEW m \in kept PROVE m > n
      OBVIOUS
    <3>1. ~(n > m) /\ n # m
      BY <1>5
    <3> QED
      BY <1>3, <3>1
  <2>2. Cardinality(kept) <= Cardinality(later(n)) /\ Cardinality(later(n)) \in Nat
    BY <1>7, <2>1, FS_Subset
  <2>3. kept # short
    OBVIOUS
  <2> HIDE DEF long, kept, short, later
  <2> QED
    BY <1>2, <1>4, <1>6, <2>2, <2>3
<1>10. KeptIds = long \union {n \in short : Cardinality(later(n)) < room}
  <2>1. kept \subseteq short
    OBVIOUS
  <2> HIDE DEF long, kept, short, later, room
  <2> QED
    BY <1>3, <1>8, <1>9, <2>1
<1> QED
  BY <1>2, <1>10 DEF RefsAreLatest

(* With the sliding window alone, the references a picture is decoded with *)
(* are the long-term IDR picture, if there is one, and the latest reference*)
(* pictures of the sequence that fit beside it: whatever the sizes, the    *)
(* order of output and the wraps of frame_num.                             *)
THEOREM RefsAreLatestCorrect ==
  ASSUME Conforming, SoundSps, Accepting, SlidingOnly
  PROVE  Spec => []RefsAreLatest
<1>1. IInv /\ Limits /\ RefsInv => RefsAreLatest
  BY LatestFill DEF RefsAreLatest
<1> QED
  BY <1>1, RefsInvariance, PTL
=============================================================================
