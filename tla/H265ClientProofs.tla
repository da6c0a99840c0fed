-------------------------- MODULE H265ClientProofs --------------------------
(***************************************************************************)
(* Theorems about what H265Decoder owes the client and the GstVideoDecoder *)
(* class, for every value of the constants: buffers, codec frames, decoded *)
(* pictures, and the order of the callbacks.                               *)
(***************************************************************************)
EXTENDS H265DecoderProofs

Waiting == Ids(NeededForOutput(dpb))

(* The codec frames: of the pictures that wait, of the access unit in      *)
(* progress, and of pictures the client refused to display.                *)
Owing ==
    /\ Waiting \subseteq pending
    /\ pending \subseteq Waiting \union refused \union (IF InUnit THEN {aus} ELSE {})
    /\ InUnit => aus \in pending

(* How far the client has got with each picture.                           *)
Stages ==
    /\ \A n \in submitted \union shown : n <= aus
    /\ InUnit => aus \notin submitted \union shown
    /\ Waiting \subseteq submitted \ shown

ClientInv == BuffersAccounted /\ Owing /\ Stages /\ NothingLost
-----------------------------------------------------------------------------
(* The picture in progress is none of those the decoder keeps.             *)
LEMMA Apart ==
  ASSUME IInv
  PROVE  /\ cur.id = 0 \/ cur.id \notin Stored
         /\ InUnit => aus \notin Stored
         /\ Waiting \subseteq Ids(dpb.pic_list) /\ 0 \notin Waiting
<1>1. cur.id = 0 \/ cur.id \notin Stored
  BY DEF IInv, Current, Earlier
<1>2. InUnit => aus \notin Stored
  BY DEF IInv, Earlier
<1>3. Waiting \subseteq Ids(dpb.pic_list) /\ 0 \notin Waiting
  BY DEF IInv, DpbOk, Named, Waiting, Ids, NeededForOutput
<1> QED
  BY <1>1, <1>2, <1>3

LEMMA ClientReleases ==
  ASSUME held' \subseteq held, submitted' = submitted, shown' = shown
  PROVE  [Client!Next]_(Client!vars)
<1>1. Client!Release
  BY DEF Client!Release
<1> QED
  BY <1>1 DEF Client!Next

(* A step after which the decoder keeps fewer pictures, each released when *)
(* nothing refers to it; those that waited are dropped for a reason.       *)
LEMMA ShrinksClient ==
  ASSUME IInv, ClientInv,
         Stored' \subseteq Stored, held' = held \ (Stored \ Stored'),
         Waiting' \subseteq Waiting, discarded' = discarded \union (Waiting \ Waiting'),
         \/ pending' = pending \ (Waiting \ Waiting')
         \/ pending' = {} /\ Waiting' = {} /\ ~InUnit,
         cur'.id = cur.id, aus' = aus, submitted' = submitted, shown' = shown,
         refused' = refused, InUnit' <=> InUnit
  PROVE  ClientInv' /\ [Client!Next]_(Client!vars)
<1>1. BuffersAccounted'
  <2>1. held = (Stored \union {cur.id}) \ {0}
    BY DEF ClientInv, BuffersAccounted, Stored
  <2>2. held' = (Stored' \union {cur'.id}) \ {0}
    BY <2>1, Apart
  <2> QED
    BY <2>2 DEF BuffersAccounted, Stored
<1>2. Owing'
  <2>1. InUnit => aus \notin Waiting
    BY Apart DEF Stored
  <2> QED
    BY <2>1 DEF ClientInv, Owing
<1>3. Stages'
  BY DEF ClientInv, Stages
<1>4. NothingLost'
  BY DEF ClientInv, NothingLost, Waiting
<1> QED
  BY <1>1, <1>2, <1>3, <1>4, ClientReleases DEF ClientInv

(* A step that keeps all of it.                                            *)
LEMMA QuietClient ==
  ASSUME IInv, ClientInv, dpb'.pic_list = dpb.pic_list, sets' = sets,
         cur'.id = cur.id, aus' = aus, pending' = pending, held' = held,
         submitted' = submitted, shown' = shown, discarded' = discarded,
         refused' = refused, InUnit' <=> InUnit
  PROVE  ClientInv' /\ [Client!Next]_(Client!vars)
<1>1. Stored' = Stored /\ Waiting' = Waiting
  BY DEF Stored, Waiting, NeededForOutput
<1> QED
  BY <1>1, ShrinksClient

(* The picture in progress is given up, if there is one; the frame of the  *)
(* access unit goes when the unit is done.                                 *)
LEMMA GivesUpClient ==
  ASSUME IInv, ClientInv, dpb' = dpb, sets' = sets,
         held' = held \ {cur.id}, cur'.id = 0, aus' = aus,
         submitted' = submitted, shown' = shown, discarded' = discarded,
         refused' = refused, InUnit' => InUnit,
         pending' = IF InUnit /\ ~InUnit' THEN pending \ {aus} ELSE pending
  PROVE  ClientInv' /\ [Client!Next]_(Client!vars)
<1>0. Stored' = Stored /\ Waiting' = Waiting
  BY DEF Stored, Waiting, NeededForOutput
<1>1. BuffersAccounted'
  <2>1. held = (Stored \union {cur.id}) \ {0}
    BY DEF ClientInv, BuffersAccounted, Stored
  <2>2. held' = (Stored' \union {cur'.id}) \ {0}
    BY <1>0, <2>1, Apart
  <2> QED
    BY <2>2 DEF BuffersAccounted, Stored
<1>2. Owing'
  <2>1. InUnit => aus \notin Waiting
    BY Apart DEF Stored
  <2> QED
    BY <1>0, <2>1 DEF ClientInv, Owing
<1>3. Stages'
  BY <1>0 DEF ClientInv, Stages
<1>4. NothingLost'
  BY <1>0 DEF ClientInv, NothingLost, Waiting
<1> QED
  BY <1>1, <1>2, <1>3, <1>4, ClientReleases DEF ClientInv

-----------------------------------------------------------------------------
LEMMA BumpClient ==
  ASSUME IInv, ClientInv, NEW drain \in BOOLEAN, BumpTurn(drain)
  PROVE  ClientInv' /\ [Client!Next]_(Client!vars)
<1> PICK low \in NeededForOutput(dpb) :
        /\ OutputPicture(low, Leaves(low, drain))
        /\ dpb' = Bump(dpb, low, drain)
        /\ UNCHANGED <<phase, after, cur, aus, sets, submitted>>
  BY DEF BumpTurn, picVars
<1> DEFINE leaves == Leaves(low, drain)
<1>1. /\ Ids(dpb'.pic_list) =
           IF leaves THEN Ids(dpb.pic_list) \ {low.id} ELSE Ids(dpb.pic_list)
      /\ Waiting' = Waiting \ {low.id}
  <2>1. DpbOk(dpb)
    BY DEF IInv
  <2>2. /\ Ids(Bump(dpb, low, drain).pic_list) =
             IF leaves THEN Ids(dpb.pic_list) \ {low.id} ELSE Ids(dpb.pic_list)
        /\ Ids(NeededForOutput(Bump(dpb, low, drain))) = Waiting \ {low.id}
    BY <2>1, BumpOk DEF Waiting
  <2> QED
    BY <2>2 DEF Waiting
<1>2. low.id \in Waiting /\ low.id \in Ids(dpb.pic_list) /\ low.id # 0
  BY Apart DEF Waiting, Ids
<1>3. held' = IF leaves THEN held \ ({low.id} \ Referred(sets)) ELSE held
  <2>1. Ids(DpbClear(dpb).pic_list) = {}
    BY DpbClearOk DEF IInv, DpbOk, Ids
  <2> QED
    BY <2>1 DEF OutputPicture, Released
<1>4. /\ \/ /\ shown' = shown \union {low.id} /\ pending' = pending \ {low.id}
            /\ discarded' = discarded /\ refused' = refused
         \/ /\ shown' = shown /\ pending' = pending
            /\ discarded' = discarded \union {low.id} /\ refused' = refused \union {low.id}
      /\ low.id \in pending
  BY <1>2 DEF OutputPicture, ClientInv, Owing
<1>5. InUnit' <=> InUnit
  BY DEF InUnit
<1> HIDE DEF leaves
<1>6. BuffersAccounted'
  <2>1. held = (Stored \union {cur.id}) \ {0}
    BY DEF ClientInv, BuffersAccounted, Stored
  <2>2. cur.id # low.id
    BY <1>2, Apart DEF Stored
  <2>3. held' = (Stored' \union {cur'.id}) \ {0}
    BY <1>1, <1>2, <1>3, <2>1, <2>2 DEF Stored
  <2> QED
    BY <2>3 DEF BuffersAccounted, Stored
<1>7. InUnit => low.id # aus
  BY <1>2, Apart DEF Stored
<1>8. Owing'
  BY <1>1, <1>4, <1>5, <1>7 DEF ClientInv, Owing
<1>9. Stages'
  <2>1. low.id <= aus
    BY <1>2 DEF IInv, Earlier, Stored
  <2> QED
    BY <1>1, <1>4, <1>5, <1>7, <2>1 DEF ClientInv, Stages
<1>10. NothingLost'
  BY <1>1, <1>4 DEF ClientInv, NothingLost, Waiting
<1>11. [Client!Next]_(Client!vars)
  <2>1. CASE shown' = shown
    BY <1>3, <2>1, ClientReleases
  <2>2. CASE shown' = shown \union {low.id}
    <3>1. low.id \in (held \intersect submitted) \ shown
      BY <1>2 DEF ClientInv, BuffersAccounted, Stages
    <3>2. held' \in {held, held \ {low.id}}
      BY <1>3
    <3>3. Client!Show(low.id)
      BY <2>2, <3>1, <3>2 DEF Client!Show
    <3>4. low.id \in Frames
      BY <1>2, NeededAreFrames DEF Waiting
    <3> QED
      BY <3>3, <3>4 DEF Client!Next
  <2> QED
    BY <1>4, <2>1, <2>2
<1> QED
  BY <1>6, <1>8, <1>9, <1>10, <1>11 DEF ClientInv

LEMMA ClearDpbClient ==
  ASSUME IInv, ClientInv, NEW flush \in BOOLEAN, ClearDpb(flush), flush => ~InUnit,
         sets' = sets, cur' = cur, aus' = aus, submitted' = submitted, shown' = shown,
         refused' = refused, InUnit' <=> InUnit
  PROVE  ClientInv' /\ [Client!Next]_(Client!vars)
<1>1. /\ dpb' = DpbClear(dpb)
      /\ pending' = IF flush THEN {} ELSE pending \ Waiting
      /\ discarded' = discarded \union Waiting
      /\ held' = held \ Released(Ids(dpb.pic_list), DpbClear(dpb), sets)
  BY DEF ClearDpb, Waiting
<1>2. Ids(dpb'.pic_list) = {} /\ Waiting' = {}
  BY <1>1, DpbClearOk DEF IInv, DpbOk, Ids, Waiting
<1>3. Stored' \subseteq Stored /\ held' = held \ (Stored \ Stored')
  BY <1>1, <1>2 DEF Stored, Released
<1> QED
  BY <1>1, <1>2, <1>3, ShrinksClient

LEMMA DrainOverClient ==
  ASSUME IInv, ClientInv, DrainOver
  PROVE  ClientInv' /\ [Client!Next]_(Client!vars)
<1>1. /\ dpb' = DpbClear(dpb) /\ Waiting = {}
      /\ held' = held \ Released(Ids(dpb.pic_list), DpbClear(dpb), sets)
      /\ UNCHANGED <<aus, sets, pending, submitted, shown, discarded, refused>>
  BY DEF DrainOver, Waiting, Ids, picVars
<1>2. Ids(dpb'.pic_list) = {} /\ Waiting' = {}
  BY <1>1, DpbClearOk DEF IInv, DpbOk, Ids, Waiting
<1>3. Stored' \subseteq Stored /\ held' = held \ (Stored \ Stored')
  BY <1>1, <1>2 DEF Stored, Released
<1>4. cur'.id = cur.id /\ (InUnit' <=> InUnit)
  BY NoPictureType DEF DrainOver, Return, IInv, Current, InUnit, TypeOK
<1> QED
  BY <1>1, <1>2, <1>3, <1>4, ShrinksClient

LEMMA ParsingClient ==
  ASSUME IInv, ClientInv, Parsing
  PROVE  ClientInv' /\ [Client!Next]_(Client!vars)
<1> DEFINE Parsed ==
             /\ phase = "nals" /\ phase' \in {"nals", "decode"}
             /\ UNCHANGED <<cur, aus, dpb, sets, pending, held, submitted, shown, discarded,
                            refused>>
<1>1. ASSUME NEW s \in SpsSet, ParseSps(s) PROVE Parsed
  BY <1>1 DEF ParseSps, picVars, clientVars
<1>2. ASSUME NEW h, NEW first, ParseSlice(h, first) PROVE Parsed
  BY <1>2 DEF ParseSlice, picVars, clientVars
<1>3. ASSUME ParseAnySlice PROVE Parsed
  BY <1>2, <1>3 DEF ParseAnySlice
<1>4. ASSUME ParseNextPicture PROVE Parsed
  <2> PICK y : ParsePicture(y)
    BY <1>4 DEF ParseNextPicture
  <2> PICK noOutput : ParseSlice(SliceOf(stream, y, noOutput), TRUE)
    BY DEF ParsePicture
  <2> QED
    BY <1>2
<1>5. ASSUME NEW end \in Ends, ParseEnd(end) PROVE Parsed
  BY <1>5 DEF ParseEnd, callVars, picVars, clientVars
<1>6. ASSUME ParseOver \/ BadSlice PROVE Parsed
  BY <1>6 DEF ParseOver, BadSlice, callVars, picVars, clientVars
<1>7. Parsed
  BY <1>1, <1>3, <1>4, <1>5, <1>6 DEF Parsing
<1> QED
  BY <1>7, QuietClient DEF InUnit

LEMMA SpsClient ==
  ASSUME IInv, ClientInv, KeepSps \/ ChangeSps \/ NewSequence
  PROVE  ClientInv' /\ [Client!Next]_(Client!vars)
<1>1. CASE KeepSps
  BY <1>1, QuietClient DEF KeepSps, NextIs, picVars, clientVars, InUnit
<1>2. CASE ChangeSps
  <2>1. /\ UNCHANGED <<cur, aus, sets, submitted, shown, refused>>
        /\ InUnit' <=> InUnit
        /\ ClearDpb(FALSE) \/ UNCHANGED <<dpb, pending, held, discarded>>
    BY <1>2 DEF ChangeSps, NextIs, picVars, InUnit
  <2>2. CASE ClearDpb(FALSE)
    BY <2>1, <2>2, ClearDpbClient
  <2>3. CASE UNCHANGED <<dpb, pending, held, discarded>>
    BY <2>1, <2>3, QuietClient
  <2> QED
    BY <2>1, <2>2, <2>3
<1>3. CASE NewSequence
  <2>1. dpb'.pic_list = dpb.pic_list
    BY <1>3 DEF NewSequence, IInv, TypeOK, Dpb
  <2>2. /\ UNCHANGED <<cur, aus, sets, pending, held, submitted, shown, discarded,
                       refused>>
        /\ InUnit' <=> InUnit
    BY <1>3 DEF NewSequence, picVars, clientVars, InUnit
  <2> QED
    BY <2>1, <2>2, QuietClient
<1> QED
  BY <1>1, <1>2, <1>3

LEMMA NewPictureClient ==
  ASSUME IInv, IInv', ClientInv, NewPicture
  PROVE  ClientInv' /\ [Client!Next]_(Client!vars)
<1>1. /\ phase = "decode" /\ phase' = "begin" /\ cur.id = 0 /\ held' = held \union {aus}
      /\ UNCHANGED <<aus, dpb, sets, pending, submitted, shown, discarded, refused>>
  BY DEF NewPicture, NextIs
<1>2. InUnit /\ InUnit' /\ cur'.id = aus
  BY <1>1 DEF InUnit, IInv, Current, InSlice
<1>3. Stored' = Stored /\ Waiting' = Waiting
  BY <1>1 DEF Stored, Waiting
<1>4. aus # 0 /\ aus \notin Stored /\ aus \in Frames
  BY <1>2, ConstantsAssumption DEF IInv, Earlier, TypeOK, Frames
<1>5. BuffersAccounted'
  <2>1. held = (Stored \union {cur.id}) \ {0}
    BY DEF ClientInv, BuffersAccounted, Stored
  <2>2. held' = (Stored' \union {cur'.id}) \ {0}
    BY <1>1, <1>2, <1>3, <1>4, <2>1
  <2> QED
    BY <2>2 DEF BuffersAccounted, Stored
<1>6. Owing' /\ Stages' /\ NothingLost'
  BY <1>1, <1>2, <1>3 DEF ClientInv, Owing, Stages, NothingLost, Waiting
<1>7. Client!Next
  <2>1. aus \notin held \union submitted \union shown
    BY <1>1, <1>2, <1>4 DEF ClientInv, BuffersAccounted, Stored, Stages
  <2>2. Client!Alloc(aus)
    BY <1>1, <2>1 DEF Client!Alloc
  <2> QED
    BY <1>4, <2>2 DEF Client!Next
<1> QED
  BY <1>5, <1>6, <1>7 DEF ClientInv

LEMMA SliceClient ==
  ASSUME IInv, ClientInv,
         MoreSlice \/ NewPictureFails \/ DropPicture \/ InitOver \/ StartPicture
  PROVE  ClientInv' /\ [Client!Next]_(Client!vars)
<1>1. CASE MoreSlice \/ NewPictureFails \/ InitOver \/ StartPicture
  <2>1. /\ phase \in {"decode", "clear", "room", "start"}
        /\ phase' \in {"fail", "decode", "start"}
        /\ UNCHANGED <<cur, aus, dpb, sets, pending, held, submitted, shown, discarded,
                       refused>>
    BY <1>1 DEF MoreSlice, NewPictureFails, InitOver, StartPicture, NextIs, callVars,
                picVars, clientVars
  <2> QED
    BY <2>1, QuietClient DEF InUnit
<1>2. CASE DropPicture
  <2>1. /\ phase = "begin" /\ phase' = "decode" /\ cur'.id = 0 /\ held' = held \ {cur.id}
        /\ UNCHANGED <<aus, dpb, sets, pending, submitted, shown, discarded, refused>>
    BY <1>2, NoPictureType DEF DropPicture, picVars
  <2>2. InUnit /\ InUnit'
    BY <2>1 DEF InUnit
  <2> QED
    BY <2>1, <2>2, GivesUpClient
<1> QED
  BY <1>1, <1>2

LEMMA PrepareClient ==
  ASSUME IInv, ClientInv, PreparePicture
  PROVE  ClientInv' /\ [Client!Next]_(Client!vars)
<1> DEFINE unit == Head(nalu)
           d == MarkRps(RefsReset(unit), Entries(unit), cur.poc)
           unseen == unit.clear /\ unit.no_output
<1>1. /\ phase = "begin" /\ phase' \in {"start", "clear", "room"}
      /\ sets' = RefPicSetsOf(RefsReset(unit), Entries(unit), cur.poc)
      /\ dpb' = IF unseen THEN DpbClear(d) ELSE DeleteUnused(d)
      /\ held' = held \ Released(Ids(dpb.pic_list) \union Referred(sets), dpb', sets')
      /\ pending' = IF unseen THEN pending \ Ids(NeededForOutput(d)) ELSE pending
      /\ discarded' = IF unseen THEN discarded \union Ids(NeededForOutput(d)) ELSE discarded
      /\ UNCHANGED <<cur, aus, submitted, shown, refused>>
  BY DEF PreparePicture
<1>2. /\ DpbOk(d) /\ Ids(d.pic_list) = Ids(dpb.pic_list)
      /\ Ids(NeededForOutput(d)) = Waiting
      /\ Referred(sets') \subseteq Ids(dpb.pic_list)
  <2>1. DpbOk(dpb)
    BY DEF IInv
  <2> QED
    BY <1>1, <2>1, PreparedOk DEF Waiting
<1> HIDE DEF d, unseen, unit
<1>3. /\ Ids(dpb'.pic_list) \subseteq Ids(dpb.pic_list)
      /\ Waiting' = IF unseen THEN {} ELSE Waiting
  <2>1. CASE unseen
    BY <1>1, <1>2, <2>1, DpbClearOk DEF DpbOk, Ids, Waiting
  <2>2. CASE ~unseen
    <3>1. dpb' = DeleteUnused(d)
      BY <1>1, <2>2
    <3>2. /\ NeededForOutput(dpb') = NeededForOutput(d)
          /\ Ids(dpb'.pic_list) = Ids(d.pic_list) \ Ids(Unused(d))
      BY <1>2, <3>1, DeleteUnusedOk
    <3>3. Waiting' = Waiting
      BY <1>2, <3>2 DEF Waiting
    <3> QED
      BY <1>2, <2>2, <3>2, <3>3
  <2> QED
    BY <2>1, <2>2
<1>4. Stored' \subseteq Stored /\ held' = held \ (Stored \ Stored')
  BY <1>1, <1>2, <1>3 DEF Stored, Released
<1>5. /\ Waiting' \subseteq Waiting
      /\ discarded' = discarded \union (Waiting \ Waiting')
      /\ pending' = pending \ (Waiting \ Waiting')
  <2>1. CASE unseen
    BY <1>1, <1>2, <1>3, <2>1
  <2>2. CASE ~unseen
    BY <1>1, <1>2, <1>3, <2>2
  <2> QED
    BY <2>1, <2>2
<1>6. (InUnit' <=> InUnit) /\ cur'.id = cur.id
  BY <1>1 DEF InUnit
<1> QED
  BY <1>1, <1>4, <1>5, <1>6, ShrinksClient

LEMMA ReturningClient ==
  ASSUME IInv, ClientInv, FailFrame \/ NoPictureInFrame \/ FrameDone
  PROVE  ClientInv' /\ [Client!Next]_(Client!vars)
<1>1. /\ cur'.id = 0 /\ ~InUnit'
      /\ UNCHANGED <<aus, dpb, sets, submitted, shown, discarded, refused>>
  BY NoPictureType
     DEF FailFrame, NoPictureInFrame, FrameDone, Return, picVars, clientVars, InUnit
<1>2. held' = held \ {cur.id}
  <2>1. 0 \notin held
    BY DEF ClientInv, BuffersAccounted
  <2>2. CASE FailFrame
    BY <2>2 DEF FailFrame
  <2>3. CASE NoPictureInFrame
    BY <2>1, <2>3 DEF NoPictureInFrame, clientVars
  <2>4. CASE FrameDone
    <3>1. cur.id = 0
      BY <2>4 DEF FrameDone, IInv, Current, InUnit
    <3> QED
      BY <2>1, <2>4, <3>1 DEF FrameDone, clientVars
  <2> QED
    BY <2>2, <2>3, <2>4
<1>3. pending' = IF InUnit /\ ~InUnit' THEN pending \ {aus} ELSE pending
  BY <1>1 DEF FailFrame, NoPictureInFrame, FrameDone, InUnit
<1> QED
  BY <1>1, <1>2, <1>3, GivesUpClient

LEMMA FinishClient ==
  ASSUME IInv, ClientInv, FinishPicture
  PROVE  ClientInv' /\ [Client!Next]_(Client!vars)
<1> DEFINE d == DeleteUnused(dpb)
           U == Ids(Unused(dpb))
           c == cur.id
<1>0. DpbOk(dpb) /\ cur \in Picture
  BY DEF IInv, TypeOK
<1>1. /\ phase = "decode" /\ c # 0 /\ phase' = "bump" /\ cur' = NoPicture
      /\ submitted' = submitted \union {c}
      /\ dpb' = DpbAdd(d, cur)
      /\ held' = held \ Released(U, d, sets)
      /\ pending' = IF cur.output_flag THEN pending ELSE pending \ {c}
      /\ discarded' = IF cur.output_flag THEN discarded ELSE discarded \union {c}
      /\ UNCHANGED <<aus, sets, shown, refused>>
  BY DEF FinishPicture, picVars
<1>2. InUnit /\ ~InUnit' /\ c = aus /\ aus \notin Stored /\ cur'.id = 0 /\ aus \in Frames
  BY <1>1, NoPictureType, ConstantsAssumption
     DEF InUnit, IInv, TypeOK, Current, Earlier, Frames
<1>3. /\ DpbOk(d) /\ Ids(d.pic_list) = Ids(dpb.pic_list) \ U /\ U \subseteq Ids(dpb.pic_list)
      /\ Ids(NeededForOutput(d)) = Waiting
  BY <1>0, DeleteUnusedOk DEF Waiting
<1> HIDE DEF d, U
<1>4. /\ Ids(dpb'.pic_list) = (Ids(dpb.pic_list) \ U) \union {c}
      /\ Waiting' = Waiting \union (IF cur.output_flag THEN {c} ELSE {})
  <2>1. c \notin Ids(d.pic_list)
    BY <1>2, <1>3 DEF Stored
  <2>2. /\ Ids(DpbAdd(d, cur).pic_list) = Ids(d.pic_list) \union {c}
        /\ Ids(NeededForOutput(DpbAdd(d, cur))) =
             Ids(NeededForOutput(d)) \union (IF cur.output_flag THEN {c} ELSE {})
    BY <1>0, <1>1, <1>3, <2>1, DpbAddOk
  <2> QED
    BY <1>1, <1>3, <2>2 DEF Waiting
<1>5. held' = held \ (U \ Referred(sets))
  BY <1>1, <1>3 DEF Released
<1>6. held = (Stored \union {c}) \ {0}
  BY DEF ClientInv, BuffersAccounted, Stored
<1> HIDE DEF c
<1>7. BuffersAccounted'
  <2>1. held' = (Stored' \union {cur'.id}) \ {0}
    BY <1>1, <1>2, <1>3, <1>4, <1>5, <1>6 DEF Stored
  <2> QED
    BY <2>1 DEF BuffersAccounted, Stored
<1>8. Owing'
  <2>1. aus \notin Waiting
    BY <1>2, Apart DEF Stored
  <2>2. Waiting \subseteq pending /\ pending \subseteq Waiting \union refused \union {aus}
        /\ aus \in pending
    BY <1>2 DEF ClientInv, Owing
  <2>3. /\ Waiting' \subseteq pending'
        /\ pending' \subseteq Waiting' \union refused'
    <3>1. CASE cur.output_flag
      BY <1>1, <1>2, <1>4, <2>2, <3>1
    <3>2. CASE ~cur.output_flag
      BY <1>1, <1>2, <1>4, <2>1, <2>2, <3>2
    <3> QED
      BY <3>1, <3>2
  <2> QED
    BY <1>2, <2>3 DEF Owing
<1>9. Stages'
  <2>1. c <= aus
    BY <1>2 DEF IInv, TypeOK
  <2> QED
    BY <1>1, <1>2, <1>4, <2>1 DEF ClientInv, Stages
<1>10. NothingLost'
  BY <1>1, <1>4 DEF ClientInv, NothingLost, Waiting
<1>11. Client!Next
  <2>1. c \in held \ submitted
    BY <1>1, <1>2, <1>6 DEF ClientInv, Stages
  <2>2. c \notin U
    BY <1>2, <1>3 DEF Stored
  <2>3. held' \in {S \union {c} : S \in SUBSET held}
    <3>1. held' = held' \union {c} /\ held' \in SUBSET held
      BY <1>5, <2>1, <2>2
    <3> QED
      BY <3>1
  <2>4. Client!Decode(c)
    BY <1>1, <2>1, <2>3 DEF Client!Decode
  <2> QED
    BY <1>2, <2>4 DEF Client!Next
<1> QED
  BY <1>7, <1>8, <1>9, <1>10, <1>11 DEF ClientInv

-----------------------------------------------------------------------------
LEMMA CallsClient ==
  ASSUME IInv, ClientInv, Calls
  PROVE  ClientInv' /\ [Client!Next]_(Client!vars)
<1>1. CASE HandleFrame
  <2>1. /\ phase = "idle" /\ phase' = "nals" /\ aus' = aus + 1 /\ aus \in Nat
        /\ pending' = pending \union {aus'}
        /\ UNCHANGED <<dpb, cur, sets, held, submitted, shown, discarded, refused>>
    BY <1>1 DEF HandleFrame, callVars, picVars, clientVars, IInv, TypeOK
  <2>2. Stored' = Stored /\ Waiting' = Waiting /\ ~InUnit /\ InUnit'
    BY <2>1 DEF Stored, Waiting, InUnit
  <2>3. submitted \union shown \subseteq Nat
    BY ConstantsAssumption DEF IInv, TypeOK, Frames
  <2>4. BuffersAccounted' /\ NothingLost'
    BY <2>1 DEF ClientInv, BuffersAccounted, NothingLost
  <2>5. Owing'
    BY <2>1, <2>2 DEF ClientInv, Owing
  <2>6. Stages'
    BY <2>1, <2>2, <2>3 DEF ClientInv, Stages
  <2> QED
    BY <2>1, <2>4, <2>5, <2>6, ClientReleases DEF ClientInv
<1>2. CASE Drain \/ Start
  <2>1. /\ phase \in {"idle", "stopped"}
        /\ phase' = "idle" \/ (phase' = "drain" /\ after' = "idle")
        /\ UNCHANGED <<cur, aus, dpb, sets, pending, held, submitted, shown, discarded,
                       refused>>
    BY <1>2 DEF Drain, Start, Interrupted, callVars, picVars, clientVars
  <2> QED
    BY <2>1, QuietClient DEF InUnit
<1>3. CASE Flush
  BY <1>3, ClearDpbClient DEF Flush, Interrupted, callVars, picVars, InUnit
<1>4. CASE Stop
  <2>1. /\ phase = "idle" /\ phase' = "stopped"
        /\ dpb' = NewDpb /\ sets' = NoRefPicSets /\ pending' = {}
        /\ discarded' = discarded \union Waiting
        /\ held' = held \ Released(Stored, NewDpb, NoRefPicSets)
        /\ UNCHANGED <<cur, aus, submitted, shown, refused>>
    BY <1>4 DEF Stop, Interrupted, callVars, Waiting, Stored
  <2>2. Ids(NewDpb.pic_list) = {} /\ Stored' = {} /\ Waiting' = {}
    BY <2>1, NewDpbOk, NoReferences DEF Ids, Stored, Waiting
  <2>3. held' = held \ (Stored \ Stored')
    BY <2>1, <2>2, NoReferences DEF Released
  <2>4. ~InUnit /\ ~InUnit'
    BY <2>1 DEF InUnit
  <2> QED
    BY <2>1, <2>2, <2>3, <2>4, ShrinksClient
<1> QED
  BY <1>1, <1>2, <1>3, <1>4 DEF Calls

LEMMA ClientInit == Init => ClientInv /\ Client!Init
<1> SUFFICES ASSUME Init PROVE ClientInv /\ Client!Init
  OBVIOUS
<1>1. Stored = {} /\ Waiting = {} /\ cur.id = 0
  BY NewDpbOk, NoReferences, NoPictureType DEF Init, Stored, Waiting, Ids
<1>2. BuffersAccounted
  BY <1>1 DEF Init, BuffersAccounted, Stored
<1>3. Owing /\ Stages /\ NothingLost
  BY <1>1 DEF Init, Owing, Stages, NothingLost, InUnit
<1> QED
  BY <1>2, <1>3 DEF ClientInv, Init, Client!Init

LEMMA ClientNext ==
  ASSUME IInv, IInv', ClientInv, [Next]_vars
  PROVE  ClientInv' /\ [Client!Next]_(Client!vars)
<1>1. CASE UNCHANGED vars
  <2>1. UNCHANGED <<phase, after, cur, aus, dpb, sets, pending, held, submitted, shown, discarded,
                    refused>>
    BY <1>1 DEF vars, callVars, picVars, clientVars
  <2> QED
    BY <2>1, QuietClient DEF InUnit
<1>2. CASE Parsing
  BY <1>2, ParsingClient
<1>3. CASE KeepSps \/ ChangeSps \/ NewSequence
  BY <1>3, SpsClient
<1>4. CASE NewPicture
  BY <1>4, NewPictureClient
<1>5. CASE MoreSlice \/ NewPictureFails \/ DropPicture \/ InitOver \/ StartPicture
  BY <1>5, SliceClient
<1>6. CASE PreparePicture
  BY <1>6, PrepareClient
<1>7. CASE FailFrame \/ NoPictureInFrame \/ FrameDone
  BY <1>7, ReturningClient
<1>8. CASE FinishPicture
  BY <1>8, FinishClient
<1>9. CASE ClearTurn \/ RoomTurn \/ FinishTurn \/ DrainTurn
  BY <1>9, BumpClient DEF ClearTurn, RoomTurn, FinishTurn, DrainTurn
<1>10. CASE DrainOver
  BY <1>10, DrainOverClient
<1>11. CASE Calls
  BY <1>11, CallsClient
<1> QED
  BY <1>1, <1>2, <1>3, <1>4, <1>5, <1>6, <1>7, <1>8, <1>9, <1>10, <1>11
     DEF Next, Work, Decoding, Bumping

LEMMA ClientInvariance == Spec => []ClientInv
<1>1. IInv /\ IInv' /\ ClientInv /\ [Next]_vars => ClientInv'
  BY ClientNext
<1>2. Init => ClientInv
  BY ClientInit
<1> QED
  BY <1>1, <1>2, Invariance, PTL DEF Spec

(* Whatever the stream does and whichever callback fails, the decoder      *)
(* holds the client's buffers for exactly the pictures in its buffer, the  *)
(* current one and those the RefPicSets name, which outlive a drain and a  *)
(* flush.                                                                  *)
THEOREM BuffersAccountedCorrect == Spec => []BuffersAccounted
<1>1. ClientInv => BuffersAccounted
  BY DEF ClientInv
<1> QED
  BY <1>1, ClientInvariance, PTL

(* A picture waiting for its output has its codec frame, and between calls *)
(* the GstVideoDecoder class holds no other, but of pictures the client    *)
(* refused to display: a dropped RASL picture, an access unit without a    *)
(* picture, a failed one, a picture that is not output (finish_picture)    *)
(* and one that is cleared unseen (clear_dpb) give theirs back.            *)
THEOREM FramesOwedCorrect == Spec => []FramesOwed
<1>1. ClientInv => FramesOwed
  BY DEF ClientInv, Owing, FramesOwed, Waiting, InUnit
<1> QED
  BY <1>1, ClientInvariance, PTL

(* Every picture passed to DecodePicture is shown, waits in the buffer, or *)
(* was dropped for a known reason.                                         *)
THEOREM NothingLostCorrect == Spec => []NothingLost
<1>1. ClientInv => NothingLost
  BY DEF ClientInv
<1> QED
  BY <1>1, ClientInvariance, PTL

(* The decoder implements what ClientPictures promises the application:    *)
(* each buffer is decoded into once and shown at most once, after that and *)
(* while it is held.                                                       *)
THEOREM ImplementsClientPictures == Spec => ClientSpec
<1>1. Init => Client!Init
  BY ClientInit
<1>2. IInv /\ IInv' /\ ClientInv /\ [Next]_vars => [Client!Next]_(Client!vars)
  BY ClientNext
<1> QED
  BY <1>1, <1>2, Invariance, ClientInvariance, PTL DEF Spec, ClientSpec, Client!Spec
=============================================================================
