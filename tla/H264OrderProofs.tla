-------------------------- MODULE H264OrderProofs --------------------------
(***************************************************************************)
(* Theorems about the order of the pictures of a conforming stream, for    *)
(* every value of the constants: in which order the client is shown them,  *)
(* and that the picture order counts it comes from are the coded ones.     *)
(***************************************************************************)
EXTENDS H264Order, H264ClientProofs

(* What the output order knows of a buffer: where the pictures waiting for *)
(* their output were stored, and their picture order counts.               *)
Waiting(d) == {[order |-> p.order, poc |-> p.poc] : p \in NeededForOutput(d)}

(* The picture order count of the picture under way.                       *)
Coming == IF phase \in {"gap", "gapbump"} THEN hdr.poc ELSE cur.poc

(* The coded video sequence is over, or the buffer still holds pictures of *)
(* the one before.                                                         *)
Restarting ==
    \/ cvs.needs_idr \/ phase = "drain"
    \/ phase = "gap" /\ hdr.idr
    \/ phase = "marking" /\ mem_mgmt_5

From(poc) == {q \in cvs.seen : q >= poc}
Past(poc) == {q \in cvs.seen : q > poc}

(* The limit MayFollow goes by is the one of the sequence parameter set.   *)
ReorderKnown == dpb.max_num_reorder_frames = ReorderFrames(sps, sps.size)

SeenOk == IsFiniteSet(cvs.seen) /\ cvs.seen \subseteq Pocs \union {0}

(* Pictures that wait have different counts, and but for a restart they    *)
(* and the last one output belong to the sequence.                         *)
WaitingOk ==
    /\ \A v, w \in Waiting(dpb) : v.poc = w.poc => v = w
    /\ \A w \in Waiting(dpb) : w.poc \in Pocs \union {0}
    /\ ~Restarting => /\ \A w \in Waiting(dpb) : w.poc \in cvs.seen
                      /\ last_output_poc \in cvs.seen \union {MinPoc}

(* The picture under way is new, and not further back in output order than *)
(* num_reorder_frames allows.                                              *)
ComingOk ==
    /\ InPicture => /\ Coming \in cvs.seen
                    /\ Cardinality(Past(Coming)) <= dpb.max_num_reorder_frames
    /\ InPicture /\ ~Restarting => /\ Coming # last_output_poc
                                   /\ \A w \in Waiting(dpb) : w.poc # Coming

Begins ==
    /\ cur.ref_pic => cur.ref # "none"
    /\ phase = "newseq" => last_output_poc = MinPoc /\ trust # "reorder"

(* Nothing that belongs before the last picture output waits or may come:  *)
(* more pictures than num_reorder_frames are at or behind it.              *)
Passed ==
    /\ \A w \in Waiting(dpb) : w.poc > last_output_poc
    /\ ~Restarting => Cardinality(From(last_output_poc)) > dpb.max_num_reorder_frames

(* Strict compliance, and in the buffer room beside the references for the *)
(* pictures that a sequence parameter set lets wait.                       *)
Roomy == \A s \in SpsSet : MaxRefs(s) + ReorderFrames(s, s.size) <= s.size
Strict == Compliance = "strict" /\ Roomy

OrderInv ==
    /\ ReorderKnown /\ SeenOk /\ WaitingOk /\ ComingOk /\ Begins
    /\ trust = "reorder" => Passed
    /\ Strict /\ last_output_poc # MinPoc => Passed

(* MinPoc is below every count: G_MININT32 is no picture's.                *)
SoundPocs == MinPoc < 0 /\ \A poc \in Pocs : poc > MinPoc

-----------------------------------------------------------------------------
(* What the operations of the buffer do to the pictures that wait.         *)
LEMMA WaitingRemarked ==
  ASSUME NEW d \in Dpb, NEW d2, Remarked(d, d2)
  PROVE  /\ Waiting(d2) = Waiting(d)
         /\ d2.max_num_reorder_frames = d.max_num_reorder_frames
<1> PICK f \in [d.pic_list -> Picture] :
        /\ \A p \in d.pic_list :
              /\ f[p].order = p.order
              /\ f[p].poc = p.poc
              /\ f[p].needed_for_output = p.needed_for_output
        /\ d2 = [d EXCEPT !.pic_list = {f[p] : p \in d.pic_list}]
  BY DEF Remarked
<1>1. /\ d2.pic_list = {f[p] : p \in d.pic_list}
      /\ d2.max_num_reorder_frames = d.max_num_reorder_frames
  BY DEF Dpb
<1>2. NeededForOutput(d2) = {f[p] : p \in NeededForOutput(d)}
  BY <1>1 DEF NeededForOutput
<1>3. \A p \in NeededForOutput(d) : f[p].order = p.order /\ f[p].poc = p.poc
  BY DEF NeededForOutput
<1>4. \A p \in NeededForOutput(d) :
        [order |-> f[p].order, poc |-> f[p].poc] = [order |-> p.order, poc |-> p.poc]
  BY <1>3
<1>5. Waiting(d2) \subseteq Waiting(d)
  <2> SUFFICES ASSUME NEW w \in Waiting(d2) PROVE w \in Waiting(d)
    OBVIOUS
  <2>1. PICK q \in NeededForOutput(d2) : w = [order |-> q.order, poc |-> q.poc]
    BY DEF Waiting
  <2>2. PICK p \in NeededForOutput(d) : q = f[p]
    BY <1>2
  <2> QED
    BY <1>4, <2>1, <2>2 DEF Waiting
<1>6. Waiting(d) \subseteq Waiting(d2)
  BY <1>2, <1>4 DEF Waiting
<1> QED
  BY <1>1, <1>5, <1>6

LEMMA WaitingDeleted ==
  ASSUME NEW d, DpbOk(d)
  PROVE  /\ Waiting(DeleteUnused(d)) = Waiting(d)
         /\ DeleteUnused(d).max_num_reorder_frames = d.max_num_reorder_frames
BY DeleteUnusedOk DEF Waiting, DeleteUnused, DpbOk, Dpb

LEMMA WaitingEmptied ==
  ASSUME NEW d, d.pic_list = {}
  PROVE  Waiting(d) = {}
BY DEF Waiting, NeededForOutput

LEMMA WaitingBumped ==
  ASSUME NEW d, DpbOk(d), NEW p \in NeededForOutput(d), NEW drain \in BOOLEAN
  PROVE  /\ Waiting(Bump(d, p, drain)) = Waiting(d) \ {[order |-> p.order, poc |-> p.poc]}
         /\ Bump(d, p, drain).max_num_reorder_frames = d.max_num_reorder_frames
<1>1. NeededForOutput(Bump(d, p, drain)) = NeededForOutput(d) \ {p}
  BY BumpOk
<1>2. \A q \in NeededForOutput(d) : q.order = p.order => q = p
  BY DEF NeededForOutput, DpbOk, Placed
<1>3. Bump(d, p, drain).max_num_reorder_frames = d.max_num_reorder_frames
  BY DEF Bump, SetLastOutput, DpbOk, Dpb
<1>4. \A q \in NeededForOutput(d) :
        [order |-> q.order, poc |-> q.poc] = [order |-> p.order, poc |-> p.poc] <=> q = p
  BY <1>2
<1> QED
  BY <1>1, <1>3, <1>4 DEF Waiting

LEMMA WaitingAdded ==
  ASSUME NEW d, DpbOk(d), NEW p \in Picture
  PROVE  /\ Waiting(DpbAdd(d, p)) =
              IF p.nonexisting THEN Waiting(d)
              ELSE Waiting(d) \union {[order |-> d.tail, poc |-> p.poc]}
         /\ DpbAdd(d, p).max_num_reorder_frames = d.max_num_reorder_frames
<1> DEFINE q == [p EXCEPT !.order = d.tail, !.needed_for_output = ~p.nonexisting]
<1>1. /\ q.order = d.tail /\ q.poc = p.poc /\ q.needed_for_output = ~p.nonexisting
  BY DEF Picture
<1>2. /\ DpbAdd(d, p).pic_list = d.pic_list \union {q}
      /\ DpbAdd(d, p).max_num_reorder_frames = d.max_num_reorder_frames
  BY DEF DpbAdd, DpbOk, Dpb
<1> HIDE DEF q
<1>3. NeededForOutput(DpbAdd(d, p)) =
        IF p.nonexisting THEN NeededForOutput(d) ELSE NeededForOutput(d) \union {q}
  BY <1>1, <1>2 DEF NeededForOutput
<1> QED
  BY <1>1, <1>2, <1>3 DEF Waiting

(* Pictures that wait are as many as their counts.                         *)
LEMMA WaitingCounts ==
  ASSUME NEW d, DpbOk(d), \A v, w \in Waiting(d) : v.poc = w.poc => v = w,
         NEW S \in SUBSET NeededForOutput(d),
         NEW Q, IsFiniteSet(Q), \A p \in S : p.poc \in Q
  PROVE  Cardinality(S) <= Cardinality(Q)
<1> DEFINE f == [p \in S |-> p.poc]
<1>1. \A p, q \in S : p.poc = q.poc => p = q
  <2> SUFFICES ASSUME NEW p \in S, NEW q \in S, p.poc = q.poc PROVE p = q
    OBVIOUS
  <2>1. /\ [order |-> p.order, poc |-> p.poc] \in Waiting(d)
        /\ [order |-> q.order, poc |-> q.poc] \in Waiting(d)
    BY DEF Waiting
  <2>2. p.order = q.order
    BY <2>1
  <2> QED
    BY <2>2 DEF DpbOk, Placed, NeededForOutput
<1>2. f \in Injection(S, Q)
  BY <1>1 DEF Injection, IsInjective
<1> QED
  BY <1>2, FS_Injection

-----------------------------------------------------------------------------
LEMMA PocTypesOk ==
  ASSUME SoundPocs, NEW poc \in Pocs \union {0}
  PROVE  poc \in Int /\ MinPoc \in Int /\ poc > MinPoc
<1>1. Pocs \subseteq Int
  BY ConstantsAssumption
<1> QED
  BY <1>1, MinPocAssumption DEF SoundPocs

LEMMA SeenTypes ==
  ASSUME SeenOk, SoundPocs
  PROVE  /\ cvs.seen \subseteq Int /\ MinPoc \in Int
         /\ \A q \in cvs.seen : q > MinPoc
BY PocTypesOk, MinPocAssumption DEF SeenOk

LEMMA SeenCounts ==
  ASSUME SeenOk, NEW poc
  PROVE  /\ IsFiniteSet(From(poc)) /\ Cardinality(From(poc)) \in Nat
         /\ IsFiniteSet(Past(poc)) /\ Cardinality(Past(poc)) \in Nat
<1>1. From(poc) \in SUBSET cvs.seen /\ Past(poc) \in SUBSET cvs.seen
  BY DEF From, Past
<1> QED
  BY <1>1, FS_Subset, FS_CardinalityType DEF SeenOk

LEMMA WaitingTypes ==
  ASSUME OrderInv, SoundPocs, NEW w \in Waiting(dpb)
  PROVE  w.poc \in Int /\ w.poc > MinPoc
BY PocTypesOk DEF OrderInv, WaitingOk

(* Once enough pictures are at or behind the last one output, the picture  *)
(* under way comes after it.                                               *)
LEMMA NotLate ==
  ASSUME IInv, OrderInv, SoundPocs, InPicture, ~Restarting, Passed
  PROVE  Coming > last_output_poc
<1>1. /\ Coming \in cvs.seen /\ Coming # last_output_poc
      /\ Cardinality(Past(Coming)) <= dpb.max_num_reorder_frames
      /\ Cardinality(From(last_output_poc)) > dpb.max_num_reorder_frames
      /\ last_output_poc \in cvs.seen \union {MinPoc}
  BY DEF OrderInv, ComingOk, WaitingOk, Passed
<1>2. SeenOk /\ dpb.max_num_reorder_frames \in Nat
  BY DEF OrderInv, IInv, DpbOk, Dpb
<1>3. cvs.seen \subseteq Int /\ MinPoc \in Int
  BY <1>2, SeenTypes
<1>4. ASSUME Coming < last_output_poc PROVE FALSE
  <2>1. From(last_output_poc) \in SUBSET Past(Coming)
    BY <1>1, <1>3, <1>4 DEF From, Past
  <2>2. Cardinality(From(last_output_poc)) <= Cardinality(Past(Coming))
    BY <1>2, <2>1, SeenCounts, FS_Subset
  <2> HIDE DEF Coming
  <2>3. /\ Cardinality(From(last_output_poc)) \in Nat
        /\ Cardinality(Past(Coming)) \in Nat
    BY <1>2, SeenCounts
  <2> QED
    BY <1>1, <1>2, <2>2, <2>3
<1> HIDE DEF Coming
<1> QED
  BY <1>1, <1>3, <1>4

(* A step that outputs and stores nothing: it keeps what waits, or all of  *)
(* it went.                                                                *)
LEMMA Unmoved ==
  ASSUME IInv, OrderInv, SoundPocs, cvs' = cvs,
         \/ /\ Waiting(dpb') = Waiting(dpb) /\ last_output_poc' = last_output_poc
            /\ trust' \in {trust, "none"}
            /\ Restarting => Restarting'
         \/ Waiting(dpb') = {} /\ last_output_poc' = MinPoc /\ trust' = "none",
         ReorderKnown', dpb'.max_num_reorder_frames = dpb.max_num_reorder_frames,
         InPicture' => InPicture /\ Coming' = Coming,
         Begins'
  PROVE  OrderInv'
<1>1. SeenOk' /\ cvs.seen \subseteq Int /\ MinPoc \in Int /\ \A q \in cvs.seen : q > MinPoc
  BY SeenTypes DEF OrderInv, SeenOk
<1>2. InPicture' => /\ Coming' \in cvs'.seen
                    /\ Cardinality(Past(Coming)') <= dpb'.max_num_reorder_frames
  BY DEF OrderInv, ComingOk, Past
<1>3. CASE /\ Waiting(dpb') = Waiting(dpb) /\ last_output_poc' = last_output_poc
           /\ trust' \in {trust, "none"}
           /\ Restarting => Restarting'
  <2>1. WaitingOk'
    BY <1>3 DEF OrderInv, WaitingOk
  <2>2. ComingOk'
    BY <1>2, <1>3 DEF OrderInv, ComingOk
  <2>3. Passed => Passed'
    BY <1>3 DEF Passed, From
  <2> QED
    BY <1>1, <1>3, <2>1, <2>2, <2>3 DEF OrderInv
<1>4. CASE Waiting(dpb') = {} /\ last_output_poc' = MinPoc /\ trust' = "none"
  <2>1. WaitingOk'
    BY <1>4 DEF WaitingOk
  <2>2. ComingOk'
    BY <1>1, <1>2, <1>4 DEF OrderInv, ComingOk
  <2> QED
    BY <1>1, <1>4, <2>1, <2>2 DEF OrderInv
<1> QED
  BY <1>3, <1>4

(* A step that ends the coded video sequence.                              *)
LEMMA Interrupts ==
  ASSUME OrderInv, SoundPocs, cvs' = NewCvs, ~InPicture',
         Waiting(dpb') \subseteq Waiting(dpb),
         last_output_poc' = last_output_poc \/ Waiting(dpb') = {},
         trust' \in {trust, "none"},
         ReorderKnown', Begins'
  PROVE  OrderInv'
<1>1. SeenOk' /\ Restarting'
  BY FS_EmptySet DEF SeenOk, NewCvs, Restarting
<1>2. WaitingOk'
  BY <1>1 DEF OrderInv, WaitingOk
<1>3. ComingOk'
  BY DEF ComingOk
<1>4. last_output_poc' = last_output_poc /\ Passed => Passed'
  BY <1>1 DEF Passed
<1>5. Waiting(dpb') = {} => Passed'
  BY <1>1 DEF Passed
<1> QED
  BY <1>1, <1>2, <1>3, <1>4, <1>5 DEF OrderInv

-----------------------------------------------------------------------------
(* Bumping: the lowest picture waiting is output.                          *)
LEMMA LowestWaits ==
  ASSUME IInv, OrderInv, SoundPocs, NEW low \in NeededForOutput(dpb)
  PROVE  /\ [order |-> low.order, poc |-> low.poc] \in Waiting(dpb)
         /\ low.poc \in Pocs \union {0} /\ low.poc \in Int /\ low.poc > MinPoc
         /\ ~Restarting => low.poc \in cvs.seen
         /\ InPicture /\ ~Restarting => Coming # low.poc
         /\ Passed => low.poc > last_output_poc
         /\ trust = "reorder" \/ Strict => low.poc > last_output_poc
<1>1. [order |-> low.order, poc |-> low.poc] \in Waiting(dpb)
  BY DEF Waiting
<1>2. /\ low.poc \in Pocs \union {0}
      /\ ~Restarting => low.poc \in cvs.seen
      /\ InPicture /\ ~Restarting => Coming # low.poc
      /\ Passed => low.poc > last_output_poc
  BY <1>1 DEF OrderInv, WaitingOk, ComingOk, Passed
<1>3. low.poc \in Int /\ low.poc > MinPoc
  BY <1>2, PocTypesOk
<1>4. trust = "reorder" \/ Strict => low.poc > last_output_poc
  BY <1>2, <1>3 DEF OrderInv
<1> QED
  BY <1>1, <1>2, <1>3, <1>4

LEMMA OutputOrder ==
  ASSUME IInv, OrderInv, SoundPocs,
         NEW low \in NeededForOutput(dpb), IsLowestOutputNeeded(dpb, low),
         NEW drain \in BOOLEAN, dpb' = Bump(dpb, low, drain), last_output_poc' = low.poc,
         UNCHANGED <<phase, after, cur, hdr, mem_mgmt_5, sps, cvs>>, phase # "newseq",
         ~Restarting /\ (trust' = "reorder" \/ Strict)
           => Cardinality(From(low.poc)) > dpb.max_num_reorder_frames
  PROVE  OrderInv'
<1> DEFINE it == [order |-> low.order, poc |-> low.poc]
<1>0. DpbOk(dpb)
  BY DEF IInv
<1>1. /\ Waiting(dpb') = Waiting(dpb) \ {it} /\ it \in Waiting(dpb)
      /\ dpb'.max_num_reorder_frames = dpb.max_num_reorder_frames
  BY <1>0, WaitingBumped DEF Waiting
<1>2. /\ Restarting' <=> Restarting
      /\ InPicture' <=> InPicture
      /\ Coming' = Coming
  BY DEF Restarting, InPicture, Coming
<1>3. ReorderKnown' /\ SeenOk' /\ Begins'
  BY <1>1 DEF OrderInv, ReorderKnown, SeenOk, Begins
<1>4. WaitingOk'
  BY <1>1, <1>2, LowestWaits DEF OrderInv, WaitingOk
<1>5. ComingOk'
  BY <1>1, <1>2, LowestWaits DEF OrderInv, ComingOk, Past
<1>6. \A w \in Waiting(dpb') : w.poc > low.poc
  <2> SUFFICES ASSUME NEW w \in Waiting(dpb'), ~(w.poc > low.poc) PROVE FALSE
    OBVIOUS
  <2>1. PICK p \in NeededForOutput(dpb) : w = [order |-> p.order, poc |-> p.poc]
    BY <1>1 DEF Waiting
  <2>2. p.poc \in Int /\ low.poc \in Int
    BY LowestWaits
  <2>3. w.poc = low.poc
    BY <2>1, <2>2 DEF IsLowestOutputNeeded
  <2> QED
    BY <1>1, <2>3 DEF OrderInv, WaitingOk
<1>7. ~Restarting /\ (trust' = "reorder" \/ Strict)
        => Cardinality(From(last_output_poc)') > dpb'.max_num_reorder_frames
  BY <1>1 DEF From
<1>8. trust' = "reorder" \/ Strict => Passed'
  BY <1>2, <1>6, <1>7 DEF Passed
<1> QED
  BY <1>3, <1>4, <1>5, <1>8 DEF OrderInv

(* "num_reorder_frames ... Safe.": the pictures stored before the lowest   *)
(* one belong after it.                                                    *)
LEMMA RuleCounts ==
  ASSUME IInv, OrderInv, SoundPocs, ~Restarting,
         NEW low \in NeededForOutput(dpb), IsLowestOutputNeeded(dpb, low),
         ReorderSatisfied(dpb, low)
  PROVE  Cardinality(From(low.poc)) > dpb.max_num_reorder_frames
<1> DEFINE S == {q \in NeededForOutput(dpb) : Before(q, low)}
           T == S \union {low}
<1>0. DpbOk(dpb) /\ dpb.max_num_reorder_frames \in Nat /\ SeenOk
  BY DEF IInv, DpbOk, Dpb, OrderInv
<1>1. S \in SUBSET NeededForOutput(dpb) /\ low \notin S /\ T \in SUBSET NeededForOutput(dpb)
  <2>1. low.order \in Nat
    BY <1>0 DEF DpbOk, Dpb, Picture, NeededForOutput
  <2> QED
    BY <2>1 DEF Before
<1>2. IsFiniteSet(S) /\ Cardinality(S) \in Nat
  BY <1>0, <1>1, NeededFinite, FS_Subset, FS_CardinalityType
<1>3. Cardinality(T) = Cardinality(S) + 1
  BY <1>1, <1>2, FS_AddElement
<1>4. \A p \in T : p.poc \in From(low.poc)
  <2> SUFFICES ASSUME NEW p \in NeededForOutput(dpb) PROVE p.poc \in From(low.poc)
    BY <1>1
  <2>1. p.poc \in cvs.seen /\ p.poc \in Int /\ low.poc \in Int
    BY LowestWaits
  <2>2. p.poc >= low.poc
    BY <2>1 DEF IsLowestOutputNeeded
  <2> QED
    BY <2>1, <2>2 DEF From
<1>5. IsFiniteSet(From(low.poc)) /\ Cardinality(From(low.poc)) \in Nat
  BY <1>0, SeenCounts
<1>6. Cardinality(T) <= Cardinality(From(low.poc))
  BY <1>0, <1>1, <1>4, <1>5, WaitingCounts DEF OrderInv, WaitingOk
<1>7. Cardinality(S) >= dpb.max_num_reorder_frames
  BY DEF ReorderSatisfied
<1> QED
  BY <1>0, <1>2, <1>3, <1>5, <1>6, <1>7

-----------------------------------------------------------------------------
(* Strict compliance: pictures are output when the buffer is full.         *)
LEMMA RoomToWait ==
  ASSUME SoundSps, Roomy, IInv, Limits, OrderInv, sps # NoSps
  PROVE  MaxNumRefFrames + dpb.max_num_reorder_frames <= dpb.max_num_frames
<1>1. sps \in SpsSet
  BY DEF IInv, TypeOK
<1>2. /\ dpb.max_num_frames = sps.size
      /\ dpb.max_num_reorder_frames = ReorderFrames(sps, sps.size)
  BY DEF Limits, Sized, OrderInv, ReorderKnown
<1> QED
  BY <1>1, <1>2 DEF Roomy, MaxRefs, MaxNumRefFrames

(* A full buffer without unused pictures holds references and pictures     *)
(* that wait.                                                              *)
LEMMA FullBuffer ==
  ASSUME NEW d, DpbOk(d), Unused(d) = {}, ~HasEmptyFrameBuffer(d)
  PROVE  Cardinality(NeededForOutput(d)) >= d.max_num_frames - NumReferences(d)
<1> DEFINE N == NeededForOutput(d)
           R == ReferenceFrames(d)
<1>1. /\ IsFiniteSet(N) /\ Cardinality(N) \in Nat
      /\ IsFiniteSet(R) /\ Cardinality(R) \in Nat
      /\ Cardinality(d.pic_list) \in Nat /\ d.max_num_frames \in Nat
  BY NeededFinite, Counts DEF NumReferences, NumFrames, DpbOk, Dpb
<1>2. d.pic_list \in SUBSET (N \union R)
  BY DEF Unused, NeededForOutput, ReferenceFrames
<1>3. /\ IsFiniteSet(N \union R) /\ Cardinality(N \union R) \in Nat
      /\ Cardinality(N \union R) <= Cardinality(N) + Cardinality(R)
  <2>1. /\ IsFiniteSet(N \union R)
        /\ Cardinality(N \union R) = Cardinality(N) + Cardinality(R) - Cardinality(N \intersect R)
    BY <1>1, FS_Union
  <2>2. IsFiniteSet(N \intersect R) /\ Cardinality(N \intersect R) \in Nat
    <3>1. N \intersect R \in SUBSET N
      OBVIOUS
    <3> QED
      BY <1>1, <3>1, FS_Subset, FS_CardinalityType
  <2>3. Cardinality(N \union R) \in Nat
    BY <2>1, FS_CardinalityType
  <2> QED
    BY <1>1, <2>1, <2>2, <2>3
<1>4. Cardinality(d.pic_list) <= Cardinality(N \union R)
  BY <1>2, <1>3, FS_Subset
<1> QED
  BY <1>1, <1>3, <1>4 DEF HasEmptyFrameBuffer, NumReferences

(* With the picture under way, or without it if it has a place among the   *)
(* references, more pictures than num_reorder_frames are at or behind the  *)
(* lowest one.                                                             *)
LEMMA FullCounts ==
  ASSUME SoundSps, Roomy, IInv, Limits, OrderInv, SoundPocs,
         phase \in {"gapbump", "bump"}, ~HasEmptyFrameBuffer(dpb), NEW poc \in Int,
         \A p \in NeededForOutput(dpb) : p.poc >= poc,
         NumReferences(dpb) < MaxNumRefFrames \/ Coming >= poc
  PROVE  Cardinality(From(poc)) > dpb.max_num_reorder_frames
<1> DEFINE N == NeededForOutput(dpb)
           F == From(poc)
           R == dpb.max_num_reorder_frames
<1>0. /\ DpbOk(dpb) /\ SeenOk /\ InPicture /\ ~Restarting /\ sps # NoSps
      /\ Unused(dpb) = {} /\ RefsWithinLimit
  BY InPictureLimits DEF IInv, OrderInv, InPicture, Restarting, Limits, Clean
<1>1. /\ Cardinality(N) \in Nat /\ IsFiniteSet(F) /\ Cardinality(F) \in Nat
      /\ R \in Nat /\ dpb.max_num_frames \in Nat /\ NumReferences(dpb) \in Nat
      /\ MaxNumRefFrames \in Nat
  BY <1>0, NeededFinite, SeenCounts, BufferCounts, MaxRefsType DEF DpbOk, Dpb
<1>2. Cardinality(N) >= dpb.max_num_frames - NumReferences(dpb)
  BY <1>0, FullBuffer
<1>3. MaxNumRefFrames + R <= dpb.max_num_frames
  BY <1>0, RoomToWait
<1>4. \A p \in N : p.poc \in F /\ p.poc # Coming
  BY <1>0, LowestWaits DEF From
<1>5. CASE NumReferences(dpb) < MaxNumRefFrames
  <2>1. Cardinality(N) <= Cardinality(F)
    BY <1>0, <1>1, <1>4, WaitingCounts DEF OrderInv, WaitingOk
  <2> HIDE DEF N, F, R
  <2> QED
    BY <1>1, <1>2, <1>3, <1>5, <2>1 DEF F, R
<1>6. CASE Coming >= poc
  <2>1. Coming \in F
    BY <1>0, <1>6 DEF OrderInv, ComingOk, From
  <2>2. IsFiniteSet(F \ {Coming}) /\ Cardinality(F \ {Coming}) = Cardinality(F) - 1
    BY <1>1, <2>1, FS_RemoveElement
  <2>3. Cardinality(N) <= Cardinality(F \ {Coming})
    <3>1. \A p \in N : p.poc \in F \ {Coming}
      BY <1>4
    <3> QED
      BY <1>0, <2>2, <3>1, WaitingCounts DEF OrderInv, WaitingOk
  <2>4. NumReferences(dpb) <= MaxNumRefFrames
    BY <1>0 DEF RefsWithinLimit, NumReferences
  <2> HIDE DEF N, F, R, Coming
  <2> QED
    BY <1>1, <1>2, <1>3, <2>2, <2>3, <2>4 DEF F, R
<1> QED
  BY <1>5, <1>6

LEMMA BumpTurnOrder ==
  ASSUME SoundSps, SoundPocs, IInv, Limits, OrderInv,
         NEW insert, NEW mode, BumpTurn(insert, mode),
         phase \in {"gapbump", "bump", "livebump"},
         Strict => /\ phase # "livebump" /\ mode = "normal"
                   /\ \E p : /\ insert = {p}
                             /\ IF p.ref_pic THEN NumReferences(dpb) < MaxNumRefFrames
                                ELSE Coming = p.poc
  PROVE  OrderInv'
<1> PICK low \in NeededForOutput(dpb), overflowed \in BOOLEAN :
        /\ IsLowestOutputNeeded(dpb, low)
        /\ NeedsBump(dpb, low, insert, mode, overflowed)
        /\ OutputPicture(low, Leaves(low, FALSE))
        /\ dpb' = Bump(dpb, low, FALSE)
        /\ trust' = SafeRule(low, mode)
        /\ UNCHANGED <<phase, after, aus, cur, hdr, gap, mmcos, mem_mgmt_5, spsVars,
                       prev_ref_frame_num, decoded, cvs>>
  BY Zenon DEF BumpTurn
<1>1. trust' = "reorder" => ReorderSatisfied(dpb, low)
  BY DEF SafeRule
<1>2. ASSUME Strict PROVE Cardinality(From(low.poc)) > dpb.max_num_reorder_frames
  <2>1. PICK p : /\ insert = {p}
                 /\ IF p.ref_pic THEN NumReferences(dpb) < MaxNumRefFrames
                    ELSE Coming = p.poc
    BY <1>2
  <2>2. ~HasEmptyFrameBuffer(dpb) /\ (p.ref_pic \/ p.poc > low.poc)
    BY <1>2, <2>1 DEF NeedsBump, NormalBump
  <2>3. /\ low.poc \in Int
        /\ \A q \in NeededForOutput(dpb) : q.poc \in Int /\ q.poc >= low.poc
    <3>1. \A q \in NeededForOutput(dpb) : q.poc \in Int
      BY LowestWaits
    <3> QED
      BY <3>1 DEF IsLowestOutputNeeded
  <2>4. NumReferences(dpb) < MaxNumRefFrames \/ Coming >= low.poc
    <3>1. CASE p.ref_pic
      BY <2>1, <3>1
    <3>2. CASE ~p.ref_pic
      <4>1. cur.poc \in Int /\ hdr.poc \in Int
        BY HdrTypes DEF IInv, TypeOK, Picture
      <4> QED
        BY <2>1, <2>2, <2>3, <3>2, <4>1 DEF Coming
    <3> QED
      BY <3>1, <3>2
  <2> QED
    BY <1>2, <2>2, <2>3, <2>4, FullCounts DEF Strict
<1>3. ~Restarting /\ (trust' = "reorder" \/ Strict)
        => Cardinality(From(low.poc)) > dpb.max_num_reorder_frames
  BY <1>1, <1>2, RuleCounts
<1>4. last_output_poc' = low.poc /\ sps' = sps
  BY DEF OutputPicture, spsVars
<1> QED
  BY <1>3, <1>4, OutputOrder

LEMMA BumpingOrder ==
  ASSUME SoundSps, SoundPocs, IInv, Limits, OrderInv, Bumping \/ DrainTurn
  PROVE  OrderInv'
<1>1. CASE GapBump
  <2>1. /\ phase = "gapbump" /\ BumpTurn({GapPicture(gap, 0)}, "normal")
        /\ GapPicture(gap, 0).ref_pic /\ NumReferences(dpb) < MaxNumRefFrames
    BY <1>1 DEF GapBump, Limits, Free, GapPicture, NoPicture
  <2> QED
    BY <2>1, BumpTurnOrder
<1>2. CASE BumpBefore
  <2>1. phase = "bump" /\ BumpTurn({cur}, BumpLevel)
    BY <1>2 DEF BumpBefore
  <2>2. cur.ref_pic => NumReferences(dpb) < MaxNumRefFrames
    BY <2>1 DEF Limits, Free, OrderInv, Begins
  <2>3. Coming = cur.poc
    BY <2>1 DEF Coming
  <2>4. Strict => BumpLevel = "normal"
    BY DEF Strict, BumpLevel
  <2> QED
    BY <2>1, <2>2, <2>3, <2>4, BumpTurnOrder
<1>3. CASE LiveBump
  <2>1. phase = "livebump" /\ BumpTurn({}, BumpLevel) /\ ~Strict
    BY <1>3 DEF LiveBump, BumpsLive, Strict
  <2> QED
    BY <2>1, BumpTurnOrder
<1>4. CASE DrainTurn
  <2>1. PICK low \in NeededForOutput(dpb) :
          /\ IsLowestOutputNeeded(dpb, low)
          /\ OutputPicture(low, Leaves(low, TRUE))
          /\ dpb' = Bump(dpb, low, TRUE)
    BY <1>4 DEF DrainTurn
  <2>2. /\ phase = "drain" /\ last_output_poc' = low.poc
        /\ UNCHANGED <<phase, after, cur, hdr, mem_mgmt_5, sps, cvs>>
    BY <1>4, <2>1 DEF DrainTurn, OutputPicture, spsVars
  <2>3. Restarting
    BY <2>2 DEF Restarting
  <2> QED
    BY <2>1, <2>2, <2>3, OutputOrder
<1> QED
  BY <1>1, <1>2, <1>3, <1>4 DEF Bumping

-----------------------------------------------------------------------------
(* The headers of an access unit: a sequence parameter set keeps the limit *)
(* of the sequence in progress or ends it.                                 *)
LEMMA SpsUpdatedOrder ==
  ASSUME Conforming, SoundPocs, IInv, OrderInv,
         NEW s, NEW d, d \in Dpb, d.pic_list = dpb.pic_list, d.max_num_frames = s.size,
         d.max_num_reorder_frames = dpb.max_num_reorder_frames,
         SpsUpdated(s, d), UNCHANGED <<cur, last_output_poc, trust>>,
         phase \in {"nals", "newseq"}
  PROVE  OrderInv'
<1>1. /\ phase' \in {"fail", "nals"} /\ ~InPicture' /\ Begins'
      /\ Waiting(dpb') = Waiting(dpb)
      /\ Restarting => cvs.needs_idr
  <2>1. phase' \in {"fail", "nals"} /\ dpb'.pic_list = dpb.pic_list
    BY DEF SpsUpdated, Dpb
  <2> QED
    BY <2>1 DEF InPicture, OrderInv, Begins, Waiting, NeededForOutput, Restarting
<1>2. CASE sps' = sps /\ cvs' = cvs
  <2>1. dpb'.max_num_reorder_frames = dpb.max_num_reorder_frames
    BY <1>2 DEF SpsUpdated, OrderInv, ReorderKnown, Dpb
  <2>2. ReorderKnown'
    BY <1>2, <2>1 DEF OrderInv, ReorderKnown
  <2>3. Restarting => Restarting'
    BY <1>1, <1>2 DEF Restarting
  <2> QED
    BY <1>1, <1>2, <2>1, <2>2, <2>3, Unmoved
<1>3. CASE sps' = s /\ cvs' = NewCvs
  <2>1. ReorderKnown'
    <3>1. CASE ReorderFrames(s, d.max_num_frames) > d.max_num_frames
      <4>1. dpb' = d /\ sps' = sps
        BY <3>1 DEF SpsUpdated
      <4> QED
        BY <4>1 DEF OrderInv, ReorderKnown
    <3>2. CASE ~(ReorderFrames(s, d.max_num_frames) > d.max_num_frames)
      BY <1>3, <3>2 DEF SpsUpdated, ReorderKnown, Dpb
    <3> QED
      BY <3>1, <3>2
  <2> QED
    BY <1>1, <1>3, <2>1, Interrupts
<1> QED
  BY <1>2, <1>3 DEF SpsUpdated, Interrupted

LEMMA HeadersOrder ==
  ASSUME Conforming, SoundSps, SoundPocs, IInv, Limits, OrderInv,
         \/ HandleFrame \/ NoSliceInFrame \/ BadNal \/ FailFrame \/ NewPictureFails
         \/ NewSequence
         \/ \E s \in SpsSet : ParseSps(s)
  PROVE  OrderInv'
<1>1. CASE HandleFrame \/ NoSliceInFrame \/ BadNal \/ FailFrame \/ NewPictureFails
  <2>1. /\ ~InPicture' /\ phase' # "newseq" /\ (cur' = cur \/ cur' = NoPicture)
        /\ UNCHANGED <<dpb, sps, last_output_poc, trust, cvs>>
        /\ phase \in {"idle", "nals", "slices", "fail"}
    BY <1>1 DEF HandleFrame, NoSliceInFrame, BadNal, FailFrame, NewPictureFails, Return,
                callVars, spsVars, InPicture
  <2>2. Restarting => Restarting'
    BY <2>1 DEF Restarting
  <2>3. Begins' /\ ReorderKnown'
    BY <2>1 DEF OrderInv, Begins, ReorderKnown, NoPicture
  <2> QED
    BY <2>1, <2>2, <2>3, Unmoved
<1>2. CASE NewSequence
  <2> DEFINE d == [dpb EXCEPT !.max_num_frames = new_sps.size]
  <2>1. new_sps.size \in Nat /\ dpb \in Dpb
    BY SpsTypes DEF IInv, TypeOK
  <2>2. /\ d \in Dpb /\ d.pic_list = dpb.pic_list /\ d.max_num_frames = new_sps.size
        /\ d.max_num_reorder_frames = dpb.max_num_reorder_frames
    BY <2>1 DEF Dpb
  <2>3. /\ SpsUpdated(new_sps, d) /\ UNCHANGED <<cur, last_output_poc, trust>>
        /\ phase = "newseq"
    BY <1>2 DEF NewSequence, callVars
  <2> HIDE DEF d
  <2> QED
    BY <2>2, <2>3, SpsUpdatedOrder
<1>3. ASSUME NEW s \in SpsSet, ParseSps(s) PROVE OrderInv'
  <2>1. phase = "nals" /\ UNCHANGED <<cur, last_output_poc, trust>>
    BY <1>3 DEF ParseSps
  <2>2. CASE seq.res # s.res \/ dpb.max_num_frames # s.size
    <3>1. phase' = "drain" /\ after' = "newseq" /\ UNCHANGED <<sps, dpb, cvs>>
      BY <1>3, <2>2 DEF ParseSps
    <3>2. Restarting' /\ ~InPicture' /\ Begins' /\ ReorderKnown'
      BY <2>1, <3>1 DEF Restarting, InPicture, OrderInv, Begins, ReorderKnown
    <3> QED
      BY <2>1, <3>1, <3>2, Unmoved
  <2>3. CASE ~(seq.res # s.res \/ dpb.max_num_frames # s.size)
    <3>1. SpsUpdated(s, dpb)
      BY <1>3, <2>3 DEF ParseSps
    <3> QED
      BY <2>1, <2>3, <3>1, SpsUpdatedOrder DEF IInv, DpbOk
  <2> QED
    BY <2>2, <2>3
<1> QED
  BY <1>1, <1>2, <1>3

(* A conforming picture is one more of its sequence, or begins one.        *)
LEMMA NewPictureOrder ==
  ASSUME Conforming, SoundPocs, IInv, Limits, OrderInv,
         NEW h \in Slices, NewPicture(h)
  PROVE  OrderInv'
<1>1. /\ phase = "nals" /\ phase' = "gap" /\ hdr' = h /\ cvs' = Extended(h)
      /\ cur' = BlankPicture /\ MayFollow(h)
      /\ UNCHANGED <<dpb, sps, last_output_poc, trust>>
  BY DEF NewPicture, spsVars
<1>2. /\ h.poc \in Pocs \union {0} /\ h.idr \in BOOLEAN /\ (h.idr => h.poc = 0)
  BY DEF Slices, IdrSlices, OtherSlices
<1>3. /\ cvs'.seen = IF h.idr THEN {0} ELSE cvs.seen \union {h.poc}
      /\ cvs'.needs_idr = FALSE
  BY <1>1 DEF Extended
<1>4. Coming' = h.poc /\ (Restarting' <=> h.idr) /\ InPicture'
  BY <1>1, <1>3 DEF Coming, Restarting, InPicture
<1>5. SeenOk'
  <2>1. IsFiniteSet({0}) /\ IsFiniteSet(cvs.seen \union {h.poc})
    BY FS_Singleton, FS_AddElement DEF OrderInv, SeenOk
  <2> QED
    BY <1>2, <1>3, <2>1 DEF OrderInv, SeenOk
<1>6. ~h.idr => ~Restarting /\ h.poc \notin cvs.seen
  BY <1>1 DEF MayFollow, Restarting
<1>7. WaitingOk'
  BY <1>1, <1>3, <1>4, <1>6 DEF OrderInv, WaitingOk
<1>8. dpb.max_num_reorder_frames \in Nat
  BY DEF IInv, DpbOk, Dpb
<1>9. Cardinality(Past(Coming)') <= dpb'.max_num_reorder_frames
  <2>1. CASE h.idr
    <3>1. {q \in {0} : q > 0} = {}
      OBVIOUS
    <3>2. Past(Coming)' = {}
      BY <1>2, <1>3, <1>4, <2>1, <3>1 DEF Past
    <3> QED
      BY <1>1, <1>8, <3>2, FS_EmptySet
  <2>2. CASE ~h.idr
    <3>1. h.poc \in Int
      BY <1>2, PocTypesOk
    <3>2. Past(Coming)' = {q \in cvs.seen : q > h.poc}
      BY <1>3, <1>4, <2>2, <3>1 DEF Past
    <3>3. Cardinality({q \in cvs.seen : q > h.poc}) <= dpb.max_num_reorder_frames
      BY <1>1, <2>2 DEF MayFollow
    <3> QED
      BY <1>1, <3>2, <3>3
  <2> QED
    BY <2>1, <2>2
<1>10. ComingOk'
  <2>1. ~Restarting' => h.poc # last_output_poc /\ \A w \in Waiting(dpb) : w.poc # h.poc
    <3>1. h.poc # MinPoc
      BY <1>2, PocTypesOk
    <3> QED
      BY <1>4, <1>6, <3>1 DEF OrderInv, WaitingOk
  <2> QED
    BY <1>1, <1>2, <1>3, <1>4, <1>9, <2>1 DEF ComingOk
<1>11. ReorderKnown' /\ Begins'
  BY <1>1 DEF OrderInv, ReorderKnown, Begins, BlankPicture, NoPicture
<1>12. Passed => Passed'
  <2>1. CASE h.idr
    BY <1>1, <1>4, <2>1 DEF Passed
  <2>2. CASE ~h.idr
    <3>1. From(last_output_poc) \in SUBSET From(last_output_poc)'
      BY <1>1, <1>3, <2>2 DEF From
    <3>2. IsFiniteSet(From(last_output_poc)') /\ Cardinality(From(last_output_poc)') \in Nat
      <4>1. From(last_output_poc)' \in SUBSET cvs'.seen
        BY DEF From
      <4> QED
        BY <1>5, <4>1, FS_Subset, FS_CardinalityType DEF SeenOk
    <3>3. /\ Cardinality(From(last_output_poc)) <= Cardinality(From(last_output_poc)')
          /\ Cardinality(From(last_output_poc)) \in Nat
      BY <3>1, <3>2, FS_Subset, SeenCounts DEF OrderInv
    <3> QED
      BY <1>1, <1>6, <1>8, <2>2, <3>2, <3>3 DEF Passed
  <2> QED
    BY <1>2, <2>1, <2>2
<1> QED
  BY <1>1, <1>5, <1>7, <1>10, <1>11, <1>12 DEF OrderInv

-----------------------------------------------------------------------------
(* Up to the slices of the picture.                                        *)
LEMMA GapOrder ==
  ASSUME Conforming, SoundPocs, IInv, Limits, OrderInv,
         GapMark \/ GapStore \/ StartPicture \/ StartPictureClear
  PROVE  OrderInv'
<1>0. dpb \in Dpb /\ DpbOk(dpb) /\ MaxNumRefFrames \in Nat
  BY MaxRefsType DEF IInv, DpbOk
<1>1. CASE GapMark
  <2> DEFINE d0 == UpdatePicNums(dpb)
             d == SlidingWindow(d0, MaxNumRefFrames, gap, MaxFrameNum)
  <2>1. Remarked(dpb, d0) /\ d0 \in Dpb /\ DpbOk(d0)
    BY <1>0, UpdatePicNumsRemarks, RemarkedOk DEF DpbOk
  <2>2. Remarked(d0, d) /\ DpbOk(d)
    <3>1. Remarked(d0, d)
      BY <2>1, MarkingRemarks
    <3> QED
      BY <2>1, <3>1, RemarkedOk
  <2>3. /\ Waiting(d) = Waiting(dpb) /\ Waiting(DeleteUnused(d)) = Waiting(dpb)
        /\ d.max_num_reorder_frames = dpb.max_num_reorder_frames
        /\ DeleteUnused(d).max_num_reorder_frames = dpb.max_num_reorder_frames
    BY <1>0, <2>1, <2>2, WaitingRemarked, WaitingDeleted
  <2>4. /\ dpb' \in {d, DeleteUnused(d)} /\ phase = "gap" /\ phase' \in {"fail", "gapbump"}
        /\ ~hdr.idr
        /\ UNCHANGED <<cur, hdr, sps, last_output_poc, trust, cvs>>
    BY <1>1 DEF GapMark, callVars, spsVars, Limits, Opens
  <2> HIDE DEF d
  <2>5. Begins' /\ ReorderKnown' /\ (Restarting => Restarting')
    BY <2>3, <2>4 DEF OrderInv, Begins, ReorderKnown, Restarting
  <2>6. InPicture' => InPicture /\ Coming' = Coming
    BY <2>4 DEF InPicture, Coming
  <2> QED
    BY <2>3, <2>4, <2>5, <2>6, Unmoved
<1>2. CASE GapStore
  <2>1. /\ phase = "gapbump" /\ phase' \in {"fail", "gap"}
        /\ UNCHANGED <<cur, hdr, sps, last_output_poc, trust, cvs>>
    BY <1>2 DEF GapStore, spsVars
  <2>2. /\ Waiting(dpb') = Waiting(dpb)
        /\ dpb'.max_num_reorder_frames = dpb.max_num_reorder_frames
    <3>1. CASE dpb' = dpb
      BY <3>1
    <3>2. CASE dpb' # dpb
      <4>1. PICK poc \in GapPocs : dpb' = DpbAdd(dpb, GapPicture(gap, poc))
        BY <1>2, <3>2 DEF GapStore
      <4>2. GapPicture(gap, poc) \in Picture /\ GapPicture(gap, poc).nonexisting
        BY GapPictureType, ConstantsAssumption DEF IInv, TypeOK
      <4> QED
        BY <1>0, <4>1, <4>2, WaitingAdded
    <3> QED
      BY <3>1, <3>2
  <2>3. Begins' /\ ReorderKnown' /\ (Restarting => Restarting')
    BY <2>1, <2>2 DEF OrderInv, Begins, ReorderKnown, Restarting
  <2>4. InPicture' => InPicture /\ Coming' = Coming
    BY <2>1 DEF InPicture, Coming
  <2> QED
    BY <2>1, <2>2, <2>3, <2>4, Unmoved
<1>3. CASE StartPicture
  <2>1. /\ phase = "gap" /\ cur' = PictureOf(hdr)
        /\ UNCHANGED <<hdr, sps, last_output_poc, trust, cvs>>
        /\ IF hdr.idr THEN phase' = "drain" /\ after' = "slices" /\ dpb' = dpb
           ELSE phase' = "slices" /\ dpb' = UpdatePicNums(dpb)
    BY <1>3 DEF StartPicture, spsVars
  <2>2. /\ Waiting(dpb') = Waiting(dpb)
        /\ dpb'.max_num_reorder_frames = dpb.max_num_reorder_frames
    <3>1. Remarked(dpb, UpdatePicNums(dpb))
      BY <1>0, UpdatePicNumsRemarks
    <3> QED
      BY <1>0, <2>1, <3>1, WaitingRemarked
  <2>3. hdr.poc \in Int /\ hdr.ref \in BOOLEAN
    BY HdrTypes DEF IInv, TypeOK
  <2>4. Coming' = Coming /\ (cur'.ref_pic => cur'.ref # "none")
    BY <2>1, <2>3 DEF Coming, PictureOf, BlankPicture, NoPicture
  <2>5. Begins' /\ ReorderKnown' /\ (Restarting => Restarting')
    BY <2>1, <2>2, <2>4 DEF OrderInv, Begins, ReorderKnown, Restarting
  <2> QED
    BY <2>1, <2>2, <2>4, <2>5, Unmoved DEF InPicture
<1>4. CASE StartPictureClear
  <2>1. /\ phase = "gap" /\ phase' = "slices" /\ cur' = PictureOf(hdr)
        /\ UNCHANGED <<hdr, sps, cvs>> /\ ClearDpb(FALSE)
    BY <1>4 DEF StartPictureClear, spsVars
  <2>2. /\ dpb'.pic_list = {} /\ last_output_poc' = MinPoc /\ trust' = "none"
        /\ dpb'.max_num_reorder_frames = dpb.max_num_reorder_frames
    BY <1>0, <2>1 DEF ClearDpb, DpbClear, Dpb
  <2>3. Waiting(dpb') = {}
    BY <2>2, WaitingEmptied
  <2>4. hdr.poc \in Int /\ hdr.ref \in BOOLEAN
    BY HdrTypes DEF IInv, TypeOK
  <2>5. Coming' = Coming /\ (cur'.ref_pic => cur'.ref # "none")
    BY <2>1, <2>4 DEF Coming, PictureOf, BlankPicture, NoPicture
  <2>6. Begins' /\ ReorderKnown'
    BY <2>1, <2>2, <2>5 DEF OrderInv, Begins, ReorderKnown
  <2> QED
    BY <2>1, <2>2, <2>3, <2>5, <2>6, Unmoved DEF InPicture
<1> QED
  BY <1>1, <1>2, <1>3, <1>4

-----------------------------------------------------------------------------
(* Reference marking keeps the counts, but for operation 5, which begins a *)
(* sequence.                                                               *)
LEMMA FinishOrder ==
  ASSUME SoundPocs, IInv, OrderInv, phase = "marking",
         NEW d, Remarked(dpb, d), NEW c, c.poc = cur.poc, c.ref_pic => c.ref # "none",
         Finish(d, c)
  PROVE  OrderInv'
<1>1. DpbOk(d)
  BY RemarkedOk DEF IInv
<1>2. /\ Waiting(dpb') = Waiting(dpb)
      /\ dpb'.max_num_reorder_frames = dpb.max_num_reorder_frames
  BY <1>1, WaitingRemarked, WaitingDeleted DEF Finish, IInv, DpbOk
<1>3. /\ UNCHANGED <<hdr, sps, last_output_poc, trust, cvs, mem_mgmt_5>> /\ cur' = c
      /\ IF mem_mgmt_5 THEN phase' = "drain" /\ after' = "bump" ELSE phase' = "bump"
  BY DEF Finish, spsVars
<1>4. Begins' /\ ReorderKnown' /\ (Restarting => Restarting')
  BY <1>2, <1>3 DEF OrderInv, Begins, ReorderKnown, Restarting
<1>5. InPicture /\ Coming' = Coming
  BY <1>3 DEF InPicture, Coming
<1> QED
  BY <1>2, <1>3, <1>4, <1>5, Unmoved

LEMMA MmcoOrder ==
  ASSUME SoundPocs, IInv, OrderInv,
         NEW d, Remarked(dpb, d), NEW c, c.poc = cur.poc, c.ref_pic => c.ref # "none",
         Mmco(d, c), UNCHANGED <<mem_mgmt_5, cvs>>
  PROVE  OrderInv'
<1>1. /\ Waiting(dpb') = Waiting(dpb)
      /\ dpb'.max_num_reorder_frames = dpb.max_num_reorder_frames
  BY WaitingRemarked DEF Mmco, IInv, DpbOk
<1>2. /\ UNCHANGED <<phase, hdr, sps, last_output_poc, trust>> /\ cur' = c
      /\ phase = "marking"
  BY DEF Mmco, spsVars
<1>3. Begins' /\ ReorderKnown' /\ (Restarting => Restarting')
  BY <1>1, <1>2 DEF OrderInv, Begins, ReorderKnown, Restarting
<1>4. InPicture /\ Coming' = Coming
  BY <1>2 DEF InPicture, Coming
<1> QED
  BY <1>1, <1>2, <1>3, <1>4, Unmoved

LEMMA MarkingOrder ==
  ASSUME Conforming, SoundPocs, IInv, OrderInv, Marking
  PROVE  OrderInv'
<1>0. /\ dpb \in Dpb /\ cur \in Picture /\ LongIdxs \subseteq Nat
      /\ cur.ref_pic => cur.ref # "none"
  BY ConstantsAssumption DEF IInv, TypeOK, OrderInv, Begins
<1>1. CASE MarkIdr
  <2> DEFINE c == Marked(cur, IF hdr.long_term_reference THEN "long" ELSE "short")
  <2>1. c.poc = cur.poc /\ (c.ref_pic => c.ref # "none")
    BY <1>0 DEF Marked, Picture
  <2>2. phase = "marking" /\ Finish(MarkAllNonRef(dpb), c)
    BY <1>1 DEF MarkIdr
  <2>3. Remarked(dpb, MarkAllNonRef(dpb))
    BY <1>0, MarkingRemarks
  <2> HIDE DEF c
  <2> QED
    BY <2>1, <2>2, <2>3, FinishOrder
<1>2. CASE MarkSliding \/ MmcoEnd
  <2>1. PICK d \in {SlidingWindow(dpb, MaxNumRefFrames, hdr.frame_num, MaxFrameNum), dpb} :
          Finish(d, cur) /\ phase = "marking"
    BY <1>2 DEF MarkSliding, MmcoEnd
  <2>2. Remarked(dpb, d)
    BY <1>0, MarkingRemarks, RemarkedSelf
  <2> QED
    BY <1>0, <2>1, <2>2, FinishOrder
<1>3. CASE UnmarkShort \/ UnmarkLong \/ ShortToLong \/ LimitLong
  <2>1. PICK d : Mmco(d, cur) /\ Remarked(dpb, d)
    <3>1. CASE UnmarkShort
      BY <1>0, <3>1, MarkingRemarks DEF UnmarkShort
    <3>2. CASE UnmarkLong
      BY <1>0, <3>2, MarkingRemarks DEF UnmarkLong
    <3>3. CASE ShortToLong
      <4>1. PICK n \in PicNumXs, idx \in LongIdxs :
               Mmco(Mmco3(dpb, n, idx, hdr.frame_num, MaxFrameNum), cur)
        BY <3>3 DEF ShortToLong
      <4>2. Remarked(dpb, Mmco3(dpb, n, idx, hdr.frame_num, MaxFrameNum))
        BY <1>0, MarkingRemarks
      <4> QED
        BY <4>1, <4>2
    <3>4. CASE LimitLong
      BY <1>0, <3>4, MarkingRemarks DEF LimitLong
    <3> QED
      BY <1>3, <3>1, <3>2, <3>3, <3>4
  <2>2. UNCHANGED <<mem_mgmt_5, cvs>>
    BY <1>3 DEF UnmarkShort, UnmarkLong, ShortToLong, LimitLong
  <2> QED
    BY <1>0, <2>1, <2>2, MmcoOrder
<1>4. CASE CurrentToLong
  <2>1. PICK idx \in LongIdxs :
          Mmco(Mmco6(dpb, idx), [Marked(cur, "long") EXCEPT !.long_term_frame_idx = idx])
    BY <1>4 DEF CurrentToLong
  <2> DEFINE c == [Marked(cur, "long") EXCEPT !.long_term_frame_idx = idx]
  <2>2. c.poc = cur.poc /\ (c.ref_pic => c.ref # "none")
    BY <1>0 DEF Marked, Picture
  <2>3. Remarked(dpb, Mmco6(dpb, idx)) /\ UNCHANGED <<mem_mgmt_5, cvs>>
    BY <1>0, <1>4, MarkingRemarks DEF CurrentToLong
  <2> HIDE DEF c
  <2> QED
    BY <2>1, <2>2, <2>3, MmcoOrder DEF c
<1>5. CASE UnmarkAll
  <2> DEFINE c == [cur EXCEPT !.frame_num = 0, !.poc = 0]
  <2>1. /\ Mmco(MarkAllNonRef(dpb), c) /\ mem_mgmt_5' = TRUE
        /\ cvs' = [NewCvs EXCEPT !.seen = {0}, !.refs = {cur.id}, !.needs_idr = FALSE]
    BY <1>5 DEF UnmarkAll
  <2>2. Remarked(dpb, MarkAllNonRef(dpb))
    BY <1>0, MarkingRemarks
  <2>3. /\ Waiting(dpb') = Waiting(dpb)
        /\ dpb'.max_num_reorder_frames = dpb.max_num_reorder_frames
    BY <1>0, <2>1, <2>2, WaitingRemarked DEF Mmco
  <2>4. /\ UNCHANGED <<phase, hdr, sps, last_output_poc, trust>>
        /\ phase = "marking" /\ cur' = c
    BY <2>1 DEF Mmco, spsVars
  <2>5. c.poc = 0 /\ c.ref = cur.ref /\ c.ref_pic = cur.ref_pic
    BY <1>0 DEF Picture
  <2>6. cvs'.seen = {0}
    BY <2>1 DEF NewCvs
  <2> HIDE DEF c
  <2>7. Restarting' /\ InPicture' /\ Coming' = 0
    BY <2>1, <2>4, <2>5 DEF Restarting, InPicture, Coming
  <2>8. SeenOk'
    BY <2>6, FS_Singleton DEF SeenOk
  <2>9. WaitingOk'
    BY <2>3, <2>7 DEF OrderInv, WaitingOk
  <2>10. ComingOk'
    <3>1. {q \in {0} : q > 0} = {}
      OBVIOUS
    <3>2. Past(Coming)' = {}
      BY <2>6, <2>7, <3>1 DEF Past
    <3>3. dpb'.max_num_reorder_frames \in Nat
      BY <1>0, <2>3 DEF Dpb
    <3> QED
      BY <2>6, <2>7, <3>2, <3>3, FS_EmptySet DEF ComingOk
  <2>11. ReorderKnown' /\ Begins' /\ (Passed => Passed')
    BY <1>0, <2>3, <2>4, <2>5, <2>7 DEF OrderInv, ReorderKnown, Begins, Passed
  <2> QED
    BY <2>4, <2>8, <2>9, <2>10, <2>11 DEF OrderInv
<1> QED
  BY <1>1, <1>2, <1>3, <1>4, <1>5 DEF Marking

-----------------------------------------------------------------------------
(* The picture is stored, or shown at once.                                *)
LEMMA StoreOrder ==
  ASSUME Conforming, SoundPocs, IInv, Limits, OrderInv, Store
  PROVE  OrderInv'
<1> DEFINE it == [order |-> dpb.tail, poc |-> cur.poc]
<1>0. /\ phase = "bump" /\ phase' = "livebump" /\ dpb' = DpbAdd(dpb, cur)
      /\ cur' = NoPicture /\ UNCHANGED <<hdr, sps, last_output_poc, trust, cvs>>
  BY DEF Store, spsVars
<1>1. /\ InPicture /\ ~Restarting /\ ~Restarting' /\ ~InPicture' /\ Coming = cur.poc
  BY <1>0, InPictureLimits DEF InPicture, Restarting, Coming
<1>2. /\ Waiting(dpb') = Waiting(dpb) \union {it}
      /\ dpb'.max_num_reorder_frames = dpb.max_num_reorder_frames
  BY <1>0, WaitingAdded DEF IInv, TypeOK, CurrentPicture
<1>3. /\ cur.poc \in cvs.seen /\ \A w \in Waiting(dpb) : w.poc # cur.poc
      /\ cur.poc \in Pocs \union {0}
  BY <1>1 DEF OrderInv, ComingOk, SeenOk
<1>4. WaitingOk'
  BY <1>0, <1>1, <1>2, <1>3 DEF OrderInv, WaitingOk
<1>5. ComingOk' /\ ReorderKnown' /\ SeenOk' /\ Begins'
  BY <1>0, <1>1, <1>2 DEF OrderInv, ComingOk, ReorderKnown, SeenOk, Begins, NoPicture
<1>6. Passed => Passed'
  <2> SUFFICES ASSUME Passed PROVE Passed'
    OBVIOUS
  <2>1. cur.poc > last_output_poc
    BY <1>1, NotLate
  <2> QED
    BY <1>0, <1>1, <1>2, <2>1 DEF Passed, From
<1> QED
  BY <1>0, <1>4, <1>5, <1>6 DEF OrderInv

(* A picture that is no reference and finds the buffer full of pictures    *)
(* that come after it.                                                     *)
LEMMA DirectlyOutput ==
  ASSUME SoundSps, SoundPocs, IInv, Limits, OrderInv, OutputDirectly
  PROVE  /\ ~HasEmptyFrameBuffer(dpb)
         /\ \A p \in NeededForOutput(dpb) : p.poc > cur.poc
<1>0. /\ phase = "bump" /\ BumpOver({cur}, BumpLevel) /\ ~HasEmptyFrameBuffer(dpb)
      /\ DpbOk(dpb) /\ InPicture /\ ~Restarting /\ Coming = cur.poc
  BY InPictureLimits DEF OutputDirectly, Stored, IInv, InPicture, Restarting, Coming
<1>1. ASSUME NEW p \in NeededForOutput(dpb) PROVE p.poc > cur.poc
  <2>1. PICK low \in NeededForOutput(dpb) : IsLowestOutputNeeded(dpb, low)
    BY <1>0, <1>1, LowestExists
  <2>2. \E overflowed \in BOOLEAN : ~NeedsBump(dpb, low, {cur}, BumpLevel, overflowed)
    BY <1>0, <2>1 DEF BumpOver
  <2>3. ~(cur.poc > low.poc)
    BY <1>0, <2>2 DEF NeedsBump, NormalBump
  <2>4. /\ low.poc \in Int /\ p.poc \in Int /\ cur.poc \in Int /\ cur.poc # low.poc
    <3>1. cur.poc \in Int
      BY DEF IInv, TypeOK, Picture
    <3> QED
      BY <1>0, <3>1, LowestWaits
  <2>5. low.poc <= p.poc
    BY <2>1, <2>4 DEF IsLowestOutputNeeded
  <2> QED
    BY <2>3, <2>4, <2>5
<1> QED
  BY <1>0, <1>1

LEMMA DirectOrder ==
  ASSUME SoundSps, SoundPocs, IInv, Limits, OrderInv, OutputDirectly
  PROVE  /\ OrderInv'
         /\ trust = "reorder" \/ Strict => cur.poc > last_output_poc
<1>0. /\ phase = "bump" /\ phase' = "livebump" /\ dpb' = SetLastOutput(dpb, cur)
      /\ cur' = NoPicture /\ last_output_poc' = cur.poc /\ trust' = "none"
      /\ UNCHANGED <<hdr, sps, cvs>>
  BY DEF OutputDirectly, OutputPicture, spsVars
<1>1. /\ InPicture /\ ~Restarting /\ ~Restarting' /\ ~InPicture' /\ Coming = cur.poc
  BY <1>0, InPictureLimits DEF InPicture, Restarting, Coming
<1>2. /\ dpb'.pic_list = dpb.pic_list
      /\ dpb'.max_num_reorder_frames = dpb.max_num_reorder_frames
  BY <1>0 DEF SetLastOutput, IInv, DpbOk, Dpb
<1>3. Waiting(dpb') = Waiting(dpb)
  BY <1>2 DEF Waiting, NeededForOutput
<1>4. cur.poc \in cvs.seen /\ cur.poc \in Pocs \union {0}
  BY <1>1 DEF OrderInv, ComingOk, SeenOk
<1>5. cur.poc \in Int /\ cur.poc > MinPoc
  BY <1>4, PocTypesOk
<1>6. WaitingOk' /\ ComingOk' /\ ReorderKnown' /\ SeenOk' /\ Begins'
  BY <1>0, <1>1, <1>2, <1>3, <1>4
     DEF OrderInv, WaitingOk, ComingOk, ReorderKnown, SeenOk, Begins, NoPicture
<1>7. ~HasEmptyFrameBuffer(dpb) /\ \A p \in NeededForOutput(dpb) : p.poc > cur.poc
  BY DirectlyOutput
<1>8. \A w \in Waiting(dpb) : w.poc > cur.poc
  BY <1>7 DEF Waiting
<1>9. Strict => Cardinality(From(cur.poc)) > dpb.max_num_reorder_frames
  <2>1. \A p \in NeededForOutput(dpb) : p.poc >= cur.poc
    <3>1. \A p \in NeededForOutput(dpb) : p.poc \in Int
      BY LowestWaits
    <3> QED
      BY <1>5, <1>7, <3>1
  <2>2. Coming >= cur.poc
    BY <1>1, <1>5
  <2> QED
    BY <1>0, <1>5, <1>7, <2>1, <2>2, FullCounts DEF Strict
<1>10. Strict => Passed'
  BY <1>0, <1>2, <1>3, <1>8, <1>9 DEF Passed, From
<1>11. OrderInv'
  BY <1>0, <1>6, <1>10 DEF OrderInv
<1>12. trust = "reorder" \/ Strict => cur.poc > last_output_poc
  BY <1>1, <1>5, NotLate DEF OrderInv
<1> QED
  BY <1>11, <1>12

-----------------------------------------------------------------------------
(* The other steps.                                                        *)
LEMMA RestOrder ==
  ASSUME Conforming, SoundPocs, IInv, Limits, OrderInv,
         \/ EndPicture \/ EndPictureFails \/ FrameDone \/ DrainOver
         \/ Drain \/ Flush \/ Stop \/ Start
  PROVE  OrderInv'
<1>0. dpb \in Dpb /\ DpbOk(dpb)
  BY DEF IInv, DpbOk
<1>1. CASE EndPicture
  <2>1. /\ phase = "slices" /\ phase' \in {"marking", "bump"}
        /\ dpb' \in {dpb, DeleteUnused(dpb)}
        /\ UNCHANGED <<cur, hdr, sps, last_output_poc, trust, cvs>>
    BY <1>1 DEF EndPicture, callVars, spsVars
  <2>2. /\ Waiting(dpb') = Waiting(dpb)
        /\ dpb'.max_num_reorder_frames = dpb.max_num_reorder_frames
    BY <1>0, <2>1, WaitingDeleted
  <2>3. Begins' /\ ReorderKnown' /\ (Restarting => Restarting')
    BY <2>1, <2>2 DEF OrderInv, Begins, ReorderKnown, Restarting
  <2>4. InPicture /\ Coming' = Coming
    BY <2>1 DEF InPicture, Coming
  <2> QED
    BY <2>1, <2>2, <2>3, <2>4, Unmoved
<1>2. CASE EndPictureFails \/ FrameDone \/ Start
  <2>1. /\ phase \in {"slices", "livebump", "stopped"} /\ phase' = "idle"
        /\ cur' = cur \/ cur' = NoPicture
        /\ UNCHANGED <<dpb, sps, last_output_poc, trust, cvs>>
    BY <1>2 DEF EndPictureFails, FrameDone, Start, Return, callVars, spsVars
  <2>2. /\ Begins' /\ ReorderKnown' /\ (Restarting => Restarting') /\ ~InPicture'
    BY <2>1 DEF OrderInv, Begins, ReorderKnown, Restarting, NoPicture, InPicture
  <2> QED
    BY <2>1, <2>2, Unmoved
<1>3. CASE DrainOver
  <2>1. /\ phase = "drain" /\ dpb' = DpbClear(dpb) /\ last_output_poc' = MinPoc
        /\ trust' = "none" /\ UNCHANGED <<sps, cvs>>
    BY <1>3 DEF DrainOver, spsVars
  <2>2. /\ dpb'.pic_list = {}
        /\ dpb'.max_num_reorder_frames = dpb.max_num_reorder_frames
    BY <1>0, <2>1 DEF DpbClear, Dpb
  <2>3. Waiting(dpb') = {}
    BY <2>2, WaitingEmptied
  <2>4. \/ phase' = "idle" /\ cur' = NoPicture
        \/ phase' \in {"fail", after} /\ after # "idle" /\ cur' = cur
    BY <1>3 DEF DrainOver, Return
  <2>5. Begins' /\ ReorderKnown'
    BY <2>1, <2>2, <2>4 DEF OrderInv, Begins, ReorderKnown, NoPicture
  <2>6. InPicture' => InPicture /\ Coming' = Coming
    BY <2>1, <2>4 DEF InPicture, Coming, IInv, TypeOK
  <2> QED
    BY <2>1, <2>2, <2>3, <2>5, <2>6, Unmoved
<1>4. CASE Drain \/ Flush \/ Stop
  <2>1. /\ cvs' = NewCvs /\ phase' \in {"drain", "idle", "stopped"} /\ cur' = cur
        /\ phase' = "drain" => after' = "idle"
    BY <1>4 DEF Drain, Flush, Stop, Interrupted, callVars
  <2>2. CASE Drain
    <3>1. UNCHANGED <<dpb, sps, last_output_poc, trust>>
      BY <2>2 DEF Drain, spsVars
    <3>2. ~InPicture' /\ Begins' /\ ReorderKnown'
      BY <2>1, <3>1 DEF InPicture, OrderInv, Begins, ReorderKnown
    <3> QED
      BY <2>1, <3>1, <3>2, Interrupts
  <2>3. CASE Flush \/ Stop
    <3>1. /\ dpb'.pic_list = {} /\ trust' = "none"
          /\ \/ UNCHANGED sps /\ dpb'.max_num_reorder_frames = dpb.max_num_reorder_frames
             \/ sps' = NoSps /\ dpb'.max_num_reorder_frames = 0
      <4>1. CASE Flush
        BY <1>0, <4>1 DEF Flush, ClearDpb, DpbClear, Dpb, spsVars
      <4>2. CASE Stop
        BY <4>2 DEF Stop, NewDpb
      <4> QED
        BY <2>3, <4>1, <4>2
    <3>2. Waiting(dpb') = {}
      BY <3>1, WaitingEmptied
    <3>3. ReorderFrames(NoSps, NoSps.size) = 0
      BY DEF NoSps, ReorderFrames
    <3>4. ~InPicture' /\ Begins' /\ ReorderKnown'
      BY <2>1, <2>3, <3>1, <3>3 DEF Flush, Stop, InPicture, OrderInv, Begins, ReorderKnown
    <3> QED
      BY <2>1, <3>1, <3>2, <3>4, Interrupts
  <2> QED
    BY <1>4, <2>2, <2>3
<1> QED
  BY <1>1, <1>2, <1>3, <1>4

LEMMA OrderInvInit == Init => OrderInv
<1> SUFFICES ASSUME Init PROVE OrderInv
  OBVIOUS
<1>1. /\ phase = "idle" /\ sps = NoSps /\ dpb.pic_list = {} /\ cvs = NewCvs
      /\ dpb.max_num_reorder_frames = 0 /\ cur = NoPicture /\ last_output_poc = MinPoc
      /\ trust = "none"
  BY DEF Init, NewDpb
<1>2. Waiting(dpb) = {} /\ cvs.seen = {} /\ Restarting
  BY <1>1, WaitingEmptied DEF NewCvs, Restarting
<1>3. SeenOk
  BY <1>2, FS_EmptySet DEF SeenOk
<1>4. ReorderKnown
  BY <1>1 DEF ReorderKnown, ReorderFrames, NoSps
<1> QED
  BY <1>1, <1>2, <1>3, <1>4
     DEF OrderInv, WaitingOk, ComingOk, InPicture, Begins, NoPicture

LEMMA OrderInvNext ==
  ASSUME Conforming, SoundSps, SoundPocs, IInv, Limits, OrderInv, [Next]_vars
  PROVE  OrderInv'
<1>1. CASE UNCHANGED vars
  BY <1>1 DEF vars, callVars, spsVars, clientVars, OrderInv, ReorderKnown, SeenOk,
              WaitingOk, ComingOk, Begins, Passed, From, Past, Restarting, Coming, InPicture
<1>2. CASE \/ HandleFrame \/ BadNal \/ FailFrame \/ NewSequence \/ Nals
           \/ \E s \in SpsSet : ParseSps(s)
  BY <1>2, HeadersOrder, NewPictureOrder DEF Nals
<1>3. CASE GapMark \/ GapStore \/ StartPicture \/ StartPictureClear
  BY <1>3, GapOrder
<1>4. CASE Bumping \/ DrainTurn
  BY <1>4, BumpingOrder
<1>5. CASE Marking
  BY <1>5, MarkingOrder
<1>6. CASE Store
  BY <1>6, StoreOrder
<1>7. CASE OutputDirectly
  BY <1>7, DirectOrder
<1>8. CASE \/ EndPicture \/ EndPictureFails \/ FrameDone \/ DrainOver
           \/ Drain \/ Flush \/ Stop \/ Start
  BY <1>8, RestOrder
<1> QED
  BY <1>1, <1>2, <1>3, <1>4, <1>5, <1>6, <1>7, <1>8 DEF Next, Work, Calls

LEMMA OrderInvariance ==
  ASSUME Conforming, SoundSps, SoundPocs
  PROVE  Spec => [](IInv /\ Limits /\ OrderInv)
<1>1. IInv /\ Limits /\ OrderInv /\ [Next]_vars => OrderInv'
  BY OrderInvNext
<1> QED
  BY <1>1, OrderInvInit, LimitsInvariance, PTL DEF Spec

(* Only a picture that waits or the one under way is shown.                *)
LEMMA ShowsWhen ==
  ASSUME Next, Shows
  PROVE  Bumping \/ DrainTurn \/ OutputDirectly
<1>1. CASE \/ HandleFrame \/ BadNal \/ FailFrame \/ NewSequence \/ NoSliceInFrame
           \/ NewPictureFails \/ Drain \/ Flush \/ Stop \/ Start
  BY <1>1 DEF HandleFrame, BadNal, FailFrame, NewSequence, NoSliceInFrame, NewPictureFails,
              Drain, Flush, Stop, Start, clientVars, Shows
<1>2. ASSUME \E s \in SpsSet : ParseSps(s) PROVE FALSE
  BY <1>2 DEF ParseSps, clientVars, Shows
<1>3. ASSUME \E h \in Slices : NewPicture(h) PROVE FALSE
  BY <1>3 DEF NewPicture, Shows
<1>4. CASE GapMark \/ GapStore \/ StartPicture \/ StartPictureClear
  BY <1>4 DEF GapMark, GapStore, StartPicture, StartPictureClear, clientVars, Shows
<1>5. CASE EndPicture \/ EndPictureFails \/ Store \/ FrameDone \/ DrainOver
  BY <1>5 DEF EndPicture, EndPictureFails, Store, FrameDone, DrainOver, clientVars, Shows
<1>6. CASE MarkIdr \/ MarkSliding \/ MmcoEnd
  BY <1>6 DEF MarkIdr, MarkSliding, MmcoEnd, Finish, Shows
<1>7. CASE UnmarkShort \/ UnmarkLong \/ ShortToLong \/ LimitLong \/ UnmarkAll \/ CurrentToLong
  <2>1. \E d, c : Mmco(d, c)
    BY <1>7 DEF UnmarkShort, UnmarkLong, ShortToLong, LimitLong, UnmarkAll, CurrentToLong
  <2> QED
    BY <2>1 DEF Mmco, clientVars, Shows
<1> QED
  BY <1>1, <1>2, <1>3, <1>4, <1>5, <1>6, <1>7 DEF Next, Work, Nals, Calls, Marking

LEMMA ShownLater ==
  ASSUME SoundSps, SoundPocs, IInv, Limits, OrderInv, Next, Shows,
         trust = "reorder" \/ Strict
  PROVE  last_output_poc' > last_output_poc
<1>1. ASSUME NEW low \in NeededForOutput(dpb), NEW leaves, OutputPicture(low, leaves)
      PROVE  last_output_poc' > last_output_poc
  BY <1>1, LowestWaits DEF OutputPicture
<1>2. CASE Bumping
  <2>1. \E insert, mode : BumpTurn(insert, mode)
    BY <1>2 DEF Bumping, GapBump, BumpBefore, LiveBump
  <2> QED
    BY <1>1, <2>1 DEF BumpTurn
<1>3. CASE DrainTurn
  BY <1>1, <1>3 DEF DrainTurn
<1>4. CASE OutputDirectly
  BY <1>4, DirectOrder DEF OutputDirectly, OutputPicture
<1> QED
  BY <1>2, <1>3, <1>4, ShowsWhen

(* A picture output early because num_reorder_frames pictures precede it   *)
(* (the rule whose comment in needs_bump ends with "Safe.") is never       *)
(* followed by one that belongs before it: not by a picture that waited,   *)
(* not by a later one of its sequence, and not by a drain.                 *)
THEOREM ReorderRuleSafeCorrect ==
  ASSUME Conforming, SoundSps, SoundPocs
  PROVE  Spec => ReorderRuleSafe
<1>1. ASSUME IInv, Limits, OrderInv, [Next]_vars
      PROVE  [Shows /\ trust = "reorder" => last_output_poc' > last_output_poc]_vars
  BY <1>1, ShownLater
<1> QED
  BY <1>1, OrderInvariance, PTL DEF Spec, ReorderRuleSafe

(* With strict compliance a conforming stream's pictures are shown in the  *)
(* order of their counts, and counts that start over do so after all       *)
(* pictures before were shown, provided each sequence parameter set leaves *)
(* room beside the references for the pictures it lets wait.               *)
THEOREM ShownInOrderCorrect ==
  ASSUME Conforming, SoundSps, SoundPocs, Compliance = "strict", Roomy
  PROVE  Spec => ShownInOrder
<1>1. ASSUME IInv, Limits, OrderInv, [Next]_vars
      PROVE  [Shows => last_output_poc' > last_output_poc]_vars
  BY <1>1, ShownLater DEF Strict
<1> QED
  BY <1>1, OrderInvariance, PTL DEF Spec, ShownInOrder

-----------------------------------------------------------------------------
(* The decoder that calculates the counts is one that is given them: each  *)
(* of its steps is the step of H264Decoder it adds to.                     *)
LEMMA OrderNextIsNext == OrderNext => Next
<1> SUFFICES ASSUME OrderNext PROVE Next
  OBVIOUS
<1>1. ASSUME NEW h \in Slices, NEW delta \in Deltas, CodedPicture(h, delta) PROVE Next
  BY <1>1 DEF CodedPicture, Nals, Work, Next
<1>2. CASE CountPicture
  BY <1>2 DEF CountPicture, Work, Next
<1>3. CASE CountGap
  BY <1>3 DEF CountGap, Work, Next
<1>4. CASE RebaseOrder
  BY <1>4 DEF RebaseOrder, Marking, Work, Next
<1>5. CASE RememberReference
  BY <1>5 DEF RememberReference, Marking, Work, Next
<1>6. CASE RememberOther
  BY <1>6 DEF RememberOther, Work, Next
<1>7. CASE ForgetOrder
  BY <1>7 DEF ForgetOrder, Work, Next
<1>8. CASE Elsewhere
  BY <1>8 DEF Elsewhere, Nals, Marking, Work, Next
<1> QED
  BY <1>1, <1>2, <1>3, <1>4, <1>5, <1>6, <1>7, <1>8 DEF OrderNext

(* The decoder that calculates the picture order counts implements the one *)
(* that is given them, so that all that is proved of H264Decoder holds of  *)
(* it.                                                                     *)
THEOREM OrderImplementsDecoder == OrderSpec => Spec
<1>1. OrderInit => Init
  BY DEF OrderInit
<1>2. [OrderNext]_<<vars, orderVars>> => [Next]_vars
  BY OrderNextIsNext
<1> QED
  BY <1>1, <1>2, PTL DEF OrderSpec, Spec

-----------------------------------------------------------------------------
(* The sums over the cycle of reference pictures of type 1, and division   *)
(* with remainder.                                                         *)
LEMMA CycleLength == Len(Cycle) \in Nat \ {0} /\ \A i \in 1..Len(Cycle) : Cycle[i] \in Int
BY OrderAssumption

(* A set of numbers has a least one.                                       *)
LEMMA LeastNumber ==
  ASSUME NEW S, S \subseteq Nat, S # {}
  PROVE  \E n \in S : \A m \in S : n <= m
<1> DEFINE R == OpToRel(<, Nat)
<1>1. IsWellFoundedOn(R, Nat)
  BY NatLessThanWellFounded
<1> HIDE DEF R
<1>2. \E n \in S : \A m \in S : ~(<<m, n>> \in R)
  BY <1>1, WFMin
<1> PICK n \in S : \A m \in S : ~(<<m, n>> \in R)
  BY <1>2
<1>3. \A m \in S : ~(m < n)
  <2> SUFFICES ASSUME NEW m \in S, m < n PROVE FALSE
    OBVIOUS
  <2>1. <<m, n>> \in Nat \X Nat
    OBVIOUS
  <2>2. <<m, n>> \in R
    BY <2>1 DEF R, OpToRel
  <2> QED
    BY <2>2
<1> QED
  BY <1>3

(* f sums the first n offsets of the cycle. That there is such a function   *)
(* is what the recursive definition of CycleSum rests on: were there a     *)
(* length without one, the least would have a function after all.          *)
Sums(f, n) ==
    /\ f \in [0..n -> Int] /\ f[0] = 0
    /\ \A i \in 1..n : f[i] = f[i - 1] + Cycle[i]

LEMMA CycleSumExists == \E f : Sums(f, Len(Cycle))
<1>0. Len(Cycle) \in Nat /\ Len(Cycle) >= 1 /\ \A i \in 1..Len(Cycle) : Cycle[i] \in Int
  BY CycleLength
<1> DEFINE L == Len(Cycle)
<1> HIDE DEF L
<1> DEFINE S == {n \in 0..L : ~\E f : Sums(f, n)}
<1>1. S = {}
  <2> SUFFICES ASSUME S # {} PROVE FALSE
    OBVIOUS
  <2>1. PICK n \in S : \A m \in S : n <= m
    <3>1. S \subseteq Nat
      BY <1>0 DEF L
    <3> HIDE DEF S
    <3> QED
      BY LeastNumber, <3>1
  <2>2. n # 0
    <3>1. Sums([i \in 0..0 |-> 0], 0)
      BY DEF Sums
    <3> QED
      BY <3>1
  <2>3. n - 1 \in 0..L /\ n \in 0..L /\ n - 1 \notin S
    BY <2>1, <2>2, <1>0 DEF L
  <2>4. PICK f : Sums(f, n - 1)
    BY <2>3
  <2> DEFINE g == [i \in 0..n |-> IF i = n THEN f[n - 1] + Cycle[n] ELSE f[i]]
  <2>5. Cycle[n] \in Int
    BY <1>0, <2>2, <2>3 DEF L
  <2>6. Sums(g, n)
    <3>1. g \in [0..n -> Int]
      BY <2>3, <2>4, <2>5, <1>0 DEF Sums, L
    <3>2. g[0] = 0
      BY <2>3, <2>4, <2>2, <1>0 DEF Sums, L
    <3>3. ASSUME NEW i \in 1..n PROVE g[i] = g[i - 1] + Cycle[i]
      BY <2>3, <2>4, <2>2, <1>0 DEF Sums, L
    <3> QED
      BY <3>1, <3>2, <3>3 DEF Sums
  <2> QED
    BY <2>1, <2>6
<1>2. L \notin S /\ L \in 0..L
  BY <1>1, <1>0 DEF L
<1> QED
  BY <1>2 DEF L

(* Two functions that start alike and grow alike are alike.                *)
LEMMA SameSums ==
  ASSUME NEW n \in Nat, NEW f, NEW g, NEW s, f[0] = g[0],
         \A i \in 1..n : f[i] = f[i - 1] + s[i] /\ g[i] = g[i - 1] + s[i]
  PROVE  \A i \in 0..n : f[i] = g[i]
<1> DEFINE S == {i \in 0..n : f[i] # g[i]}
<1> SUFFICES ASSUME S # {} PROVE FALSE
  OBVIOUS
<1>1. S \subseteq Nat
  OBVIOUS
<1>2. PICK i \in S : \A m \in S : i <= m
  <2> HIDE DEF S
  <2> QED
    BY <1>1, LeastNumber
<1>3. i \in 1..n
  OBVIOUS
<1>4. f[i - 1] = g[i - 1]
  BY <1>2, <1>3
<1> QED
  BY <1>3, <1>4

LEMMA CycleSumDef ==
  /\ CycleSum[0] = 0
  /\ \A n \in 0..Len(Cycle) : CycleSum[n] \in Int
  /\ \A n \in 1..Len(Cycle) : CycleSum[n] = CycleSum[n - 1] + Cycle[n]
<1>1. PICK f : Sums(f, Len(Cycle))
  BY CycleSumExists
<1>2. f = [n \in 0..Len(Cycle) |-> IF n = 0 THEN 0 ELSE f[n - 1] + Cycle[n]]
  BY CycleLength, <1>1 DEF Sums
<1>3. CycleSum = [n \in 0..Len(Cycle) |-> IF n = 0 THEN 0 ELSE CycleSum[n - 1] + Cycle[n]]
  BY <1>2 DEF CycleSum
<1> HIDE DEF CycleSum
<1> DEFINE L == Len(Cycle)
<1> HIDE DEF L
<1>4. CycleSum[0] = 0 /\ \A n \in 1..L : CycleSum[n] = CycleSum[n - 1] + Cycle[n]
  BY CycleLength, <1>3 DEF L
<1>5. f[0] = 0 /\ \A n \in 1..L : f[n] = f[n - 1] + Cycle[n]
  BY <1>1 DEF Sums, L
<1>6. \A n \in 0..L : CycleSum[n] = f[n]
  <2>1. L \in Nat
    BY CycleLength DEF L
  <2> QED
    BY <1>4, <1>5, <2>1, SameSums
<1>7. \A n \in 0..L : f[n] \in Int
  BY <1>1 DEF Sums, L
<1> QED
  BY <1>4, <1>6, <1>7 DEF L

LEMMA Division ==
  ASSUME NEW n \in Nat \ {0}, NEW q \in Int, NEW r \in 0..(n - 1), NEW m \in Int, m = q * n + r
  PROVE  m \div n = q /\ m % n = r
<1> DEFINE k == m \div n
           l == m % n
<1>1. m = k * n + l /\ k \in Int /\ l \in 0..(n - 1)
  OBVIOUS
<1> HIDE DEF k, l
<1>2. (k - q) * n = r - l
  BY <1>1
<1>3. k - q < 1
  <2> SUFFICES ASSUME k - q >= 1 PROVE FALSE
    BY <1>1
  <2>1. (k - q) * n >= n
    BY <1>1
  <2> QED
    BY <1>1, <1>2, <2>1
<1>4. k - q > -1
  <2> SUFFICES ASSUME k - q <= -1 PROVE FALSE
    BY <1>1
  <2>1. (k - q) * n <= -n
    BY <1>1
  <2> QED
    BY <1>1, <1>2, <2>1
<1>5. k = q
  BY <1>1, <1>3, <1>4
<1> QED
  BY <1>1, <1>5 DEF k, l

LEMMA CyclesGrow ==
  /\ Cycles(0) = 0
  /\ \A n \in Nat : Cycles(n) \in Int
  /\ \A n \in Nat \ {0} : Cycles(n) = Cycles(n - 1) + Cycle[((n - 1) % Len(Cycle)) + 1]
<1> DEFINE L == Len(Cycle)
           C == CycleSum
<1>0. L \in Nat \ {0} /\ \A i \in 1..L : Cycle[i] \in Int
  BY CycleLength
<1>1. C[0] = 0 /\ (\A n \in 0..L : C[n] \in Int) /\ \A n \in 1..L : C[n] = C[n - 1] + Cycle[n]
  BY CycleSumDef
<1>2. \A n \in Nat : Cycles(n) = IF n = 0 THEN 0
                                ELSE ((n - 1) \div L) * C[L] + C[((n - 1) % L) + 1]
  BY DEF Cycles
<1> HIDE DEF L, C
<1>3. \A n \in Nat : Cycles(n) \in Int
  <2> SUFFICES ASSUME NEW n \in Nat, n # 0 PROVE Cycles(n) \in Int
    BY <1>2
  <2>1. (n - 1) \div L \in Int /\ (n - 1) % L \in 0..(L - 1)
    BY <1>0
  <2>2. C[L] \in Int /\ C[((n - 1) % L) + 1] \in Int
    BY <1>0, <1>1, <2>1
  <2> QED
    BY <1>2, <2>1, <2>2
<1>4. ASSUME NEW n \in Nat \ {0} PROVE Cycles(n) = Cycles(n - 1) + Cycle[((n - 1) % L) + 1]
  <2>1. CASE n = 1
    <3>1. 0 \div L = 0 /\ 0 % L = 0
      BY <1>0, Division
    <3>2. 0 * C[L] = 0
      BY <1>0, <1>1
    <3>3. C[1] = C[0] + Cycle[1]
      BY <1>0, <1>1
    <3> QED
      BY <1>0, <1>1, <1>2, <2>1, <3>1, <3>2, <3>3
  <2>2. CASE n # 1
    <3> DEFINE q == (n - 2) \div L
               r == (n - 2) % L
    <3>1. n - 2 = q * L + r /\ q \in Int /\ r \in 0..(L - 1)
      BY <1>0, <2>2
    <3>2. Cycles(n - 1) = q * C[L] + C[r + 1]
      BY <1>2, <2>2
    <3> HIDE DEF q, r
    <3>3. CASE r < L - 1
      <4>1. n - 1 = q * L + (r + 1) /\ r + 1 \in 0..(L - 1)
        BY <1>0, <3>1, <3>3
      <4>2. (n - 1) \div L = q /\ (n - 1) % L = r + 1
        BY <1>0, <3>1, <4>1, Division
      <4>3. C[r + 2] = C[r + 1] + Cycle[r + 2] /\ C[r + 1] \in Int /\ Cycle[r + 2] \in Int
        BY <1>0, <1>1, <3>1, <4>1
      <4>4. q * C[L] \in Int
        BY <1>0, <1>1, <3>1
      <4>5. Cycles(n) = q * C[L] + C[r + 2]
        BY <1>2, <2>2, <4>2, <3>1
      <4> QED
        BY <3>2, <4>2, <4>3, <4>4, <4>5, <3>1
    <3>4. CASE r = L - 1
      <4> DEFINE next == q + 1
      <4>1. n - 1 = next * L + 0 /\ next \in Int /\ 0 \in 0..(L - 1) /\ n - 1 \in Int
        BY <1>0, <3>1, <3>4
      <4> HIDE DEF next
      <4>2. (n - 1) \div L = next /\ (n - 1) % L = 0
        BY ONLY <1>0, <4>1, Division
      <4> USE DEF next
      <4>3. C[1] = C[0] + Cycle[1] /\ C[0] = 0 /\ Cycle[1] \in Int /\ C[L] \in Int
        BY <1>0, <1>1
      <4>4. (q + 1) * C[L] = q * C[L] + C[L] /\ q * C[L] \in Int
        BY <3>1, <4>3
      <4>5. Cycles(n) = (q + 1) * C[L] + C[1]
        BY <1>2, <2>2, <4>2
      <4> QED
        BY <1>0, <3>2, <3>4, <4>2, <4>3, <4>4, <4>5
    <3> QED
      BY <1>0, <3>1, <3>3, <3>4
  <2> QED
    BY <2>1, <2>2
<1> QED
  BY <1>2, <1>3, <1>4 DEF L

LEMMA RefCountDef == \A n \in Nat : RefCount[n] = Cycles(n)
<1> DEFINE f == [n \in Nat |-> Cycles(n)]
           s == [n \in Nat |-> Cycle[((n - 1) % Len(Cycle)) + 1]]
<1>1. f = [n \in Nat |-> IF n = 0 THEN 0 ELSE f[n - 1] + Cycle[((n - 1) % Len(Cycle)) + 1]]
  BY CyclesGrow
<1> HIDE DEF f
<1>2. RefCount = [n \in Nat |-> IF n = 0 THEN 0
                                ELSE RefCount[n - 1] + Cycle[((n - 1) % Len(Cycle)) + 1]]
  BY <1>1 DEF RefCount
<1> HIDE DEF RefCount
<1>3. \A n \in Nat : RefCount[n] = IF n = 0 THEN 0 ELSE RefCount[n - 1] + s[n]
  BY <1>2
<1>4. \A n \in Nat : f[n] = IF n = 0 THEN 0 ELSE f[n - 1] + s[n]
  BY <1>1
<1> HIDE DEF s
<1>5. ASSUME NEW n \in Nat PROVE RefCount[n] = f[n]
  <2>1. \A i \in 1..n : f[i] = f[i - 1] + s[i] /\ RefCount[i] = RefCount[i - 1] + s[i]
    BY <1>3, <1>4
  <2>2. f[0] = RefCount[0]
    BY <1>3, <1>4
  <2>3. \A i \in 0..n : f[i] = RefCount[i]
    BY <2>1, <2>2, SameSums
  <2> QED
    BY <2>3
<1> QED
  BY <1>5 DEF f

(* A number is got back from its low bits and one less than half the       *)
(* range away: the comparisons of section 8.2.1.1.                         *)
LEMMA Wrap ==
  ASSUME NEW M \in Nat \ {0}, NEW t \in Int, NEW a \in Int, 2 * (t - a) <= M, 2 * (a - t) < M
  PROVE  LET b == a % M
             l == t % M
             msb == a - b
             m == IF l < b /\ 2 * (b - l) >= M THEN msb + M
                  ELSE IF l > b /\ 2 * (l - b) > M THEN msb - M
                  ELSE msb
         IN  m + l = t
<1> DEFINE b == a % M
           l == t % M
           k == t \div M
           j == a \div M
<1>1. /\ t = k * M + l /\ a = j * M + b
      /\ k \in Int /\ j \in Int /\ l \in 0..M-1 /\ b \in 0..M-1
  OBVIOUS
<1> HIDE DEF b, l, k, j
<1>2. (k - j) * M = (t - a) - (l - b)
  BY <1>1
<1>3. k - j <= 1
  <2> SUFFICES ASSUME k - j >= 2 PROVE FALSE
    BY <1>1
  <2>1. (k - j) * M >= 2 * M
    BY <1>1
  <2> QED
    BY <2>1, <1>1, <1>2
<1>4. k - j >= -1
  <2> SUFFICES ASSUME k - j <= -2 PROVE FALSE
    BY <1>1
  <2>1. (k - j) * M <= (-2) * M
    BY <1>1
  <2> QED
    BY <2>1, <1>1, <1>2
<1>5. CASE k - j = 1
  <2>1. (k - j) * M = M
    BY <1>5
  <2> QED
    BY <2>1, <1>1, <1>2 DEF b, l
<1>6. CASE k - j = 0
  <2>1. (k - j) * M = 0
    BY <1>6
  <2> QED
    BY <2>1, <1>1, <1>2 DEF b, l
<1>7. CASE k - j = -1
  <2>1. (k - j) * M = -M
    BY <1>7
  <2> QED
    BY <2>1, <1>1, <1>2 DEF b, l
<1> QED
  BY <1>1, <1>3, <1>4, <1>5, <1>6, <1>7

-----------------------------------------------------------------------------
(* The decoder keeps in step with a conforming stream: what it remembers   *)
(* of a picture is what the stream counts on from.                         *)

(* From the slice header of a picture until the decoder remembers it.      *)
Unremembered ==
    \/ phase \in {"gap", "gapbump", "slices", "marking"}
    \/ (phase = "drain" /\ after = "slices")

Filling == phase = "gapbump" \/ (phase = "gap" /\ gap # hdr.frame_num)
LongRoom == NumLongTerm(dpb) < MaxNumRefFrames
NoLong == ~(InPicture /\ cur.ref # "none")

(* No call fails, and operation 5 is a matter of one picture.              *)
Untroubled ==
    /\ ret = "ok"
    /\ mem_mgmt_5 => \/ phase \in {"marking", "bump", "livebump"}
                     \/ (phase = "drain" /\ after = "bump")

(* PrevRefFrameNum of section 7.4.3 is the one of the picture under way.   *)
Headed ==
    /\ cvs.prev_ref \in 0..(MaxFrameNum - 1)
    /\ Unremembered =>
         /\ hdr \in Slices
         /\ cvs.prev_ref = IF ~hdr.ref THEN Preceding(hdr.frame_num)
                           ELSE IF mem_mgmt_5 THEN 0 ELSE hdr.frame_num
         /\ phase \notin {"gap", "gapbump"} =>
              /\ cur.frame_num = IF mem_mgmt_5 THEN 0 ELSE hdr.frame_num
              /\ cur.ref = "none" <=> ~hdr.ref
    /\ phase = "marking" \/ (phase = "drain" /\ after = "slices") => hdr.ref

(* The pictures inferred for a gap find room among the references, also    *)
(* when prev_ref_frame_num stays behind and the gap is filled once more.   *)
Roomful ==
    /\ Filling => LongRoom
    /\ ~cvs.needs_idr => \/ (Unremembered /\ hdr.ref)
                         \/ prev_ref_frame_num = cvs.prev_ref
                         \/ (NoLong /\ LongRoom)

Synced == Untroubled /\ Headed /\ Roomful

(* What each kind of slice header holds.                                   *)
LEMMA SliceFacts ==
  ASSUME NEW h \in Slices
  PROVE  /\ h.ref \in BOOLEAN /\ h.idr \in BOOLEAN /\ h.frame_num \in 0..(MaxFrameNum - 1)
         /\ h.idr => h.ref /\ h.frame_num = 0 /\ h.poc = 0
         /\ h.no_output_of_prior_pics => h.idr
         /\ h.adaptive => h.ref
<1>1. h.ref \in BOOLEAN /\ h.frame_num \in 0..(MaxFrameNum - 1)
  BY HdrTypes
<1>2. CASE h \in IdrSlices
  BY <1>1, <1>2 DEF IdrSlices
<1>3. CASE h \in OtherSlices /\ (h.adaptive => h.ref)
  BY <1>1, <1>3 DEF OtherSlices
<1> QED
  BY <1>2, <1>3 DEF Slices

LEMMA PrecedingType ==
  ASSUME NEW n \in 0..(MaxFrameNum - 1)
  PROVE  /\ Preceding(n) \in 0..(MaxFrameNum - 1)
         /\ Preceding(n) = IF n = 0 THEN MaxFrameNum - 1 ELSE n - 1
         /\ Following(n) = IF n = MaxFrameNum - 1 THEN 0 ELSE n + 1
<1>1. MaxFrameNum \in Nat \ {0}
  BY ConstantsAssumption
<1>2. CASE n = 0
  <2>1. (n + MaxFrameNum - 1) % MaxFrameNum = MaxFrameNum - 1
    BY <1>1, <1>2
  <2> QED
    BY <1>1, <1>2, <2>1 DEF Preceding, Following
<1>3. CASE n # 0
  <2>1. n + MaxFrameNum - 1 = 1 * MaxFrameNum + (n - 1) /\ n - 1 \in 0..(MaxFrameNum - 1)
    BY <1>1, <1>3
  <2>2. (n + MaxFrameNum - 1) % MaxFrameNum = n - 1
    BY <1>1, <2>1, Division
  <2> QED
    BY <1>1, <1>3, <2>1, <2>2 DEF Preceding, Following
<1> QED
  BY <1>2, <1>3

LEMMA LongRoomKept ==
  ASSUME IInv, IInv', sps' = sps, NumLongTerm(dpb') <= NumLongTerm(dpb), LongRoom
  PROVE  LongRoom'
<1>1. MaxNumRefFrames' = MaxNumRefFrames /\ MaxNumRefFrames \in Nat
  BY MaxRefsType DEF MaxNumRefFrames
<1>2. NumLongTerm(dpb) \in Nat /\ NumLongTerm(dpb') \in Nat
  BY BufferCounts DEF IInv
<1> QED
  BY <1>1, <1>2 DEF LongRoom

(* A step that leaves what the decoder remembers alone.                    *)
LEMMA SyncedOutside ==
  ASSUME IInv, IInv', Synced, ret' = "ok",
         mem_mgmt_5' => \/ phase' \in {"bump", "livebump"}
                        \/ (phase' = "drain" /\ after' = "bump"),
         UNCHANGED <<cvs, prev_ref_frame_num, sps>>, ~Unremembered, ~Unremembered',
         NoLong => NoLong' /\ NumLongTerm(dpb') <= NumLongTerm(dpb)
  PROVE  Synced'
<1>1. Untroubled'
  BY DEF Synced, Untroubled
<1>4. Headed'
  <2>1. ~(phase' = "marking" \/ (phase' = "drain" /\ after' = "slices"))
    BY DEF Unremembered
  <2> QED
    BY <2>1 DEF Synced, Headed
<1>2. NoLong /\ LongRoom => LongRoom'
  BY LongRoomKept
<1>3. Roomful'
  BY <1>2 DEF Synced, Roomful, Filling, Unremembered
<1> QED
  BY <1>1, <1>3, <1>4 DEF Synced

(* A step after which an IDR picture must come.                            *)
LEMMA SyncedAnew ==
  ASSUME Synced, ret' = "ok", ~mem_mgmt_5', cvs' = NewCvs, ~Unremembered'
  PROVE  Synced'
<1>1. Untroubled'
  BY DEF Untroubled
<1>2. Headed'
  BY ConstantsAssumption DEF Headed, Unremembered, NewCvs
<1>3. Roomful'
  BY DEF Roomful, Filling, Unremembered, NewCvs
<1> QED
  BY <1>1, <1>2, <1>3 DEF Synced
(* A step that only takes pictures out of the buffer or unmarks them.      *)
LEMMA SyncedUnmoved ==
  ASSUME IInv, IInv', Synced, NumLongTerm(dpb') <= NumLongTerm(dpb),
         UNCHANGED <<phase, after, ret, cur, hdr, gap, mem_mgmt_5, cvs,
                     prev_ref_frame_num, sps>>
  PROVE  Synced'
<1>1. LongRoom => LongRoom'
  BY LongRoomKept
<1>2. Untroubled'
  BY DEF Synced, Untroubled
<1>3. Headed'
  BY DEF Synced, Headed, Unremembered
<1>4. Roomful'
  BY <1>1 DEF Synced, Roomful, Filling, Unremembered, NoLong, InPicture
<1> QED
  BY <1>2, <1>3, <1>4 DEF Synced

LEMMA SamePictureCounts ==
  ASSUME NEW d, DpbOk(d), NEW d2, d2.pic_list = d.pic_list
  PROVE  NumLongTerm(d2) <= NumLongTerm(d)
<1>1. LongTermRefs(d2) = LongTermRefs(d) /\ NumLongTerm(d) \in Nat
  BY BufferCounts DEF LongTermRefs
<1> QED
  BY <1>1 DEF NumLongTerm

(* Between two pictures.                                                   *)
LEMMA HeadersSynced ==
  ASSUME Conforming, IInv, IInv', Synced,
         \/ HandleFrame \/ NoSliceInFrame \/ BadNal \/ FailFrame \/ NewPictureFails
         \/ NewSequence \/ FrameDone \/ \E s \in SpsSet : ParseSps(s)
  PROVE  Synced'
<1>0. DpbOk(dpb) /\ dpb \in Dpb
  BY DEF IInv, DpbOk
<1>1. ASSUME phase \in {"idle", "nals", "newseq", "fail", "livebump"},
             ret' = "ok", mem_mgmt_5' => mem_mgmt_5 /\ phase # "livebump",
             \/ phase' \in {"nals", "idle", "fail"}
             \/ phase' = "drain" /\ after' = "newseq",
             UNCHANGED <<cvs, prev_ref_frame_num, sps>>, dpb'.pic_list = dpb.pic_list
      PROVE  Synced'
  <2>1. ~mem_mgmt_5'
    BY <1>1 DEF Synced, Untroubled
  <2>2. NumLongTerm(dpb') <= NumLongTerm(dpb)
    BY <1>0, <1>1, SamePictureCounts
  <2>3. NoLong' /\ ~Unremembered /\ ~Unremembered'
    BY <1>1 DEF NoLong, InPicture, Unremembered
  <2> QED
    BY <1>1, <2>1, <2>2, <2>3, SyncedOutside
<1>2. CASE HandleFrame \/ NoSliceInFrame \/ FailFrame \/ NewPictureFails \/ FrameDone
  <2>1. /\ phase \in {"idle", "nals", "fail", "livebump"} /\ ret' = "ok"
        /\ mem_mgmt_5' => mem_mgmt_5 /\ phase # "livebump"
        /\ phase' \in {"nals", "idle", "fail"}
        /\ UNCHANGED <<cvs, prev_ref_frame_num, sps, dpb>>
    BY <1>2 DEF HandleFrame, NoSliceInFrame, FailFrame, NewPictureFails, FrameDone,
                Return, callVars, spsVars, Synced, Untroubled
  <2> QED
    BY <1>1, <2>1
<1>3. ASSUME NEW s, NEW d \in Dpb, SpsUpdated(s, d), d.pic_list = dpb.pic_list,
             phase \in {"nals", "newseq"},
             UNCHANGED <<ret, cur, mem_mgmt_5, prev_ref_frame_num>>
      PROVE  Synced'
  <2>1. CASE ReorderFrames(s, d.max_num_frames) > d.max_num_frames
    <3>1. phase' = "fail" /\ dpb' = d /\ UNCHANGED <<sps, cvs>>
      BY <1>3, <2>1 DEF SpsUpdated
    <3> QED
      BY <1>1, <1>3, <3>1 DEF Synced, Untroubled
  <2>2. CASE ~(ReorderFrames(s, d.max_num_frames) > d.max_num_frames)
    <3>1. /\ phase' = "nals" /\ sps' = s /\ cvs' = IF s = sps THEN cvs ELSE NewCvs
          /\ dpb'.pic_list = d.pic_list
      BY <1>3, <2>2 DEF SpsUpdated, Interrupted, Dpb
    <3>2. CASE s = sps
      BY <1>1, <1>3, <3>1, <3>2 DEF Synced, Untroubled
    <3>3. CASE s # sps
      <4>1. ret' = "ok" /\ ~mem_mgmt_5' /\ ~Unremembered'
        BY <1>3, <3>1 DEF Synced, Untroubled, Unremembered
      <4> QED
        BY <3>1, <3>3, <4>1, SyncedAnew
    <3> QED
      BY <3>2, <3>3
  <2> QED
    BY <2>1, <2>2
<1>4. CASE NewSequence
  <2>1. /\ phase = "newseq"
        /\ SpsUpdated(new_sps, [dpb EXCEPT !.max_num_frames = new_sps.size])
        /\ UNCHANGED <<ret, cur, mem_mgmt_5, prev_ref_frame_num>>
    BY <1>4 DEF NewSequence, callVars
  <2>2. new_sps.size \in Nat
    BY SpsTypes DEF IInv, TypeOK
  <2>3. /\ [dpb EXCEPT !.max_num_frames = new_sps.size] \in Dpb
        /\ [dpb EXCEPT !.max_num_frames = new_sps.size].pic_list = dpb.pic_list
    BY <1>0, <2>2 DEF Dpb
  <2> QED
    BY <1>3, <2>1, <2>3
<1>5. CASE \E s \in SpsSet : ParseSps(s)
  <2>1. PICK s \in SpsSet : ParseSps(s)
    BY <1>5
  <2>2. phase = "nals" /\ UNCHANGED <<ret, cur, mem_mgmt_5, prev_ref_frame_num>>
    BY <2>1 DEF ParseSps
  <2>3. CASE seq.res # s.res \/ dpb.max_num_frames # s.size
    <3>1. phase' = "drain" /\ after' = "newseq" /\ UNCHANGED <<sps, dpb, cvs>>
      BY <2>1, <2>3 DEF ParseSps
    <3> QED
      BY <1>1, <2>2, <3>1 DEF Synced, Untroubled
  <2>4. CASE ~(seq.res # s.res \/ dpb.max_num_frames # s.size)
    BY <1>0, <1>3, <2>1, <2>2, <2>4 DEF ParseSps
  <2> QED
    BY <2>3, <2>4
<1> QED
  BY <1>2, <1>4, <1>5 DEF BadNal

(* The first slice of a picture: where frame numbers are missing, as the   *)
(* stream means it or because prev_ref_frame_num stayed behind, there is   *)
(* room among the references.                                              *)
LEMMA NewPictureSynced ==
  ASSUME Conforming, IInv, IInv', Synced, NEW h \in Slices, NewPicture(h)
  PROVE  Synced'
<1> DEFINE before == IF h.idr THEN 0 ELSE prev_ref_frame_num
<1>1. /\ phase = "nals" /\ phase' = "gap" /\ MayFollow(h) /\ hdr' = h
      /\ cur' = BlankPicture /\ cvs' = Extended(h)
      /\ prev_ref_frame_num' = before
      /\ gap' = IF GapBefore(before, h) THEN Following(before) ELSE h.frame_num
      /\ UNCHANGED <<ret, mem_mgmt_5, dpb, sps>>
  BY DEF NewPicture, spsVars
<1>2. /\ h.ref \in BOOLEAN /\ h.frame_num \in 0..(MaxFrameNum - 1)
      /\ h.idr => h.ref /\ h.frame_num = 0
  BY SliceFacts
<1>3. /\ cvs'.prev_ref = IF h.ref THEN h.frame_num ELSE Preceding(h.frame_num)
      /\ ~cvs'.needs_idr
  BY <1>1 DEF Extended
<1>4. Untroubled'
  BY <1>1 DEF Synced, Untroubled
<1>5. Headed'
  BY <1>1, <1>2, <1>3, <1>4, PrecedingType DEF Headed, Unremembered, Untroubled
<1>6. LongRoom => LongRoom'
  BY <1>1 DEF LongRoom, MaxNumRefFrames
<1>7. GapBefore(cvs.prev_ref, h) /\ ~h.idr => LongRoom
  BY <1>1, SlidingWindowWorks, MaxRefsType DEF MayFollow, IInv, LongRoom
<1>8. ~h.idr => ~cvs.needs_idr /\ (prev_ref_frame_num = cvs.prev_ref \/ LongRoom)
  BY <1>1 DEF MayFollow, Synced, Roomful, Unremembered
<1>9. Filling' => LongRoom'
  <2> SUFFICES ASSUME Filling' PROVE LongRoom
    BY <1>6
  <2>1. GapBefore(before, h)
    BY <1>1 DEF Filling
  <2>2. ~h.idr
    BY <1>2, <2>1 DEF GapBefore
  <2> QED
    BY <1>7, <1>8, <2>1, <2>2
<1>10. ASSUME ~h.ref PROVE prev_ref_frame_num' = cvs'.prev_ref \/ (NoLong' /\ LongRoom')
  <2>1. ~h.idr
    BY <1>2, <1>10
  <2>2. CASE LongRoom
    BY <1>1, <1>6, <2>2, NoPictureMark DEF NoLong
  <2>3. CASE prev_ref_frame_num = cvs.prev_ref /\ h.frame_num = Following(cvs.prev_ref)
    <3>1. cvs.prev_ref \in 0..(MaxFrameNum - 1)
      BY DEF Synced, Headed
    <3>2. Preceding(h.frame_num) = cvs.prev_ref
      BY <1>2, <2>3, <3>1, PrecedingType, ConstantsAssumption
    <3> QED
      BY <1>1, <1>3, <1>10, <2>1, <2>3, <3>2
  <2> QED
    BY <1>1, <1>7, <1>8, <2>1, <2>2, <2>3 DEF MayFollow
<1>11. Roomful'
  BY <1>1, <1>2, <1>9, <1>10 DEF Roomful, Unremembered
<1> QED
  BY <1>4, <1>5, <1>11 DEF Synced
LEMMA GapSynced ==
  ASSUME Conforming, IInv, IInv', Synced,
         GapMark \/ GapStore \/ StartPicture \/ StartPictureClear
  PROVE  Synced'
<1>0. DpbOk(dpb) /\ dpb \in Dpb
  BY DEF IInv, DpbOk
<1>1. /\ phase \in {"gap", "gapbump"} /\ Unremembered
      /\ hdr \in Slices /\ ret = "ok" /\ ~mem_mgmt_5
  BY DEF GapMark, GapStore, StartPicture, StartPictureClear, Synced, Untroubled, Headed,
         Unremembered
<1>2. hdr.ref \in BOOLEAN /\ (hdr.idr => hdr.ref) /\ (hdr.no_output_of_prior_pics => hdr.idr)
  BY <1>1, SliceFacts
<1>3. CASE GapMark
  <2>1. Filling
    BY <1>3 DEF GapMark, Filling
  <2>2. LongRoom
    BY <2>1 DEF Synced, Roomful
  <2>3. ~SlidingWindowFails(dpb, MaxNumRefFrames)
    BY <1>0, <2>2, SlidingWindowWorks, MaxRefsType DEF LongRoom
  <2> DEFINE d0 == UpdatePicNums(dpb)
             d == SlidingWindow(d0, MaxNumRefFrames, gap, MaxFrameNum)
  <2>4. /\ phase' = "gapbump" /\ dpb' = DeleteUnused(d)
        /\ UNCHANGED <<after, ret, cur, hdr, gap, mem_mgmt_5, cvs, prev_ref_frame_num, sps>>
    BY <1>3, <2>3 DEF GapMark, callVars, spsVars
  <2>5. NumLongTerm(dpb') <= NumLongTerm(dpb)
    <3>1. /\ NumLongTerm(d0) <= NumLongTerm(dpb) /\ NumLongTerm(d) <= NumLongTerm(d0)
          /\ NumLongTerm(DeleteUnused(d)) <= NumLongTerm(d)
      BY <1>0, GapMarkUnmarks, UnmarksBounds
    <3>2. /\ NumLongTerm(dpb) \in Nat /\ NumLongTerm(d0) \in Nat
          /\ NumLongTerm(d) \in Nat /\ NumLongTerm(DeleteUnused(d)) \in Nat
      BY <1>0, GapMarkUnmarks, BufferCounts
    <3> HIDE DEF d
    <3> QED
      BY <2>4, <3>1, <3>2
  <2>6. LongRoom'
    BY <2>2, <2>4, <2>5, LongRoomKept
  <2>7. Headed'
    BY <1>1, <1>3, <2>4 DEF Synced, Headed, Unremembered, GapMark
  <2>8. Roomful'
    BY <1>1, <1>3, <2>4, <2>6 DEF Synced, Roomful, Unremembered, NoLong, InPicture, GapMark
  <2> QED
    BY <1>1, <2>4, <2>7, <2>8 DEF Synced, Untroubled
<1>4. CASE GapStore
  <2>1. PICK poc \in GapPocs : dpb' = DpbAdd(dpb, GapPicture(gap, poc))
    BY <1>1, <1>4 DEF GapStore
  <2>2. /\ phase = "gapbump" /\ phase' = "gap"
        /\ UNCHANGED <<after, ret, cur, hdr, mem_mgmt_5, cvs, prev_ref_frame_num, sps>>
    BY <1>1, <1>4 DEF GapStore, spsVars
  <2>3. LongTermRefs(dpb') = LongTermRefs(dpb)
    <3>1. GapPicture(gap, poc) \in Picture /\ GapPicture(gap, poc).ref = "short"
      BY GapPictureType, ConstantsAssumption DEF IInv, TypeOK, GapPicture, NoPicture
    <3> QED
      BY <1>0, <2>1, <3>1, DpbAddBounds
  <2>4. LongRoom'
    BY <2>2, <2>3 DEF Synced, Roomful, Filling, LongRoom, NumLongTerm, MaxNumRefFrames
  <2>5. Headed'
    BY <1>1, <2>2 DEF Synced, Headed, Unremembered
  <2>6. Roomful'
    BY <1>1, <2>2, <2>4 DEF Synced, Roomful, Unremembered, NoLong, InPicture
  <2> QED
    BY <1>1, <2>2, <2>5, <2>6 DEF Synced, Untroubled
<1>5. CASE StartPicture \/ StartPictureClear
  <2>1. /\ phase = "gap" /\ cur' = PictureOf(hdr)
        /\ UNCHANGED <<ret, hdr, mem_mgmt_5, cvs, prev_ref_frame_num, sps>>
        /\ phase' = "slices" \/ (phase' = "drain" /\ after' = "slices" /\ hdr.idr)
        /\ ~hdr.ref => dpb' = UpdatePicNums(dpb)
    BY <1>2, <1>5 DEF StartPicture, StartPictureClear, spsVars
  <2>2. cur'.frame_num = hdr.frame_num /\ (cur'.ref = "none" <=> ~hdr.ref)
    BY <1>2, <2>1 DEF PictureOf, BlankPicture, NoPicture
  <2>3. Headed'
    BY <1>1, <1>2, <2>1, <2>2 DEF Synced, Headed, Unremembered
  <2>4. ~hdr.ref => (LongRoom => LongRoom')
    <3> SUFFICES ASSUME ~hdr.ref PROVE LongRoom => LongRoom'
      OBVIOUS
    <3>1. NumLongTerm(dpb') <= NumLongTerm(dpb)
      BY <1>0, <2>1, UpdatePicNumsUnmarks, UnmarksBounds
    <3> QED
      BY <2>1, <3>1, LongRoomKept
  <2>5. Roomful'
    BY <1>1, <2>1, <2>2, <2>4 DEF Synced, Roomful, Unremembered, NoLong, Filling
  <2> QED
    BY <1>1, <2>1, <2>3, <2>5 DEF Synced, Untroubled
<1> QED
  BY <1>3, <1>4, <1>5

(* Output never fails.                                                     *)
LEMMA BumpSynced ==
  ASSUME Accepting, IInv, IInv', ClientInv, Synced, Bumping
  PROVE  Synced'
<1>1. PICK insert, mode : BumpTurn(insert, mode)
  BY DEF Bumping, GapBump, BumpBefore, LiveBump
<1>2. PICK low \in NeededForOutput(dpb) :
        OutputPicture(low, Leaves(low, FALSE)) /\ dpb' = Bump(dpb, low, FALSE)
  BY <1>1 DEF BumpTurn
<1>3. UNCHANGED <<phase, after, cur, hdr, gap, mem_mgmt_5, cvs, prev_ref_frame_num, sps>>
  BY <1>1 DEF BumpTurn, spsVars
<1>4. ret' = ret
  <2>1. low.id \in pending
    BY DEF ClientInv, Owed, Ids, Accepting
  <2> QED
    BY <1>2, <2>1, OutputSucceeds
<1>5. NumLongTerm(dpb') <= NumLongTerm(dpb)
  BY <1>2, BumpUnmarks, UnmarksBounds DEF IInv
<1> QED
  BY <1>3, <1>4, <1>5, SyncedUnmoved

LEMMA DrainSynced ==
  ASSUME Accepting, IInv, IInv', ClientInv, Synced, DrainTurn \/ DrainOver
  PROVE  Synced'
<1>0. DpbOk(dpb) /\ dpb \in Dpb
  BY DEF IInv, DpbOk
<1>1. CASE DrainTurn
  <2>1. PICK low \in NeededForOutput(dpb) :
          OutputPicture(low, Leaves(low, TRUE)) /\ dpb' = Bump(dpb, low, TRUE)
    BY <1>1 DEF DrainTurn
  <2>2. UNCHANGED <<phase, after, cur, hdr, gap, mem_mgmt_5, cvs, prev_ref_frame_num, sps>>
    BY <1>1 DEF DrainTurn, spsVars
  <2>3. ret' = ret
    <3>1. low.id \in pending
      BY DEF ClientInv, Owed, Ids, Accepting
    <3> QED
      BY <2>1, <3>1, OutputSucceeds
  <2>4. NumLongTerm(dpb') <= NumLongTerm(dpb)
    BY <1>0, <2>1, BumpUnmarks, UnmarksBounds
  <2> QED
    BY <2>2, <2>3, <2>4, SyncedUnmoved
<1>2. CASE DrainOver
  <2>1. phase = "drain" /\ UNCHANGED <<cvs, prev_ref_frame_num, sps>> /\ ret = "ok"
    BY <1>2 DEF DrainOver, spsVars, Synced, Untroubled
  <2>2. NumLongTerm(dpb') <= NumLongTerm(dpb)
    <3>1. LongTermRefs(dpb') = {}
      BY <1>0, <1>2 DEF DrainOver, DpbClear, Dpb, LongTermRefs
    <3> QED
      BY <1>0, <3>1, FS_EmptySet, BufferCounts DEF NumLongTerm
  <2>3. CASE after = "idle"
    <3>1. phase' = "idle" /\ ret' = "ok" /\ ~mem_mgmt_5'
      BY <1>2, <2>3 DEF DrainOver, Return
    <3>2. NoLong' /\ ~Unremembered /\ ~Unremembered'
      BY <2>1, <2>3, <3>1 DEF NoLong, InPicture, Unremembered
    <3> QED
      BY <2>1, <2>2, <3>1, <3>2, SyncedOutside
  <2>4. CASE after # "idle"
    <3>1. /\ phase' = after /\ after \in {"newseq", "slices", "bump"}
          /\ UNCHANGED <<ret, cur, hdr, gap, mem_mgmt_5>>
      BY <1>2, <2>1, <2>4 DEF DrainOver, IInv, TypeOK
    <3>2. LongRoom => LongRoom'
      BY <2>1, <2>2, LongRoomKept
    <3>3. Untroubled'
      BY <2>1, <3>1 DEF Synced, Untroubled
    <3>4. Headed'
      BY <2>1, <3>1 DEF Synced, Headed, Unremembered
    <3>5. Roomful'
      BY <2>1, <3>1, <3>2 DEF Synced, Roomful, Filling, Unremembered, NoLong, InPicture
    <3> QED
      BY <3>3, <3>4, <3>5 DEF Synced
  <2> QED
    BY <2>3, <2>4
<1> QED
  BY <1>1, <1>2

(* finish_picture: prev_ref_frame_num catches up with a reference.         *)
LEMMA FinishSynced ==
  ASSUME Synced, phase = "marking", NEW d, NEW c, Finish(d, c),
         c.frame_num = cur.frame_num
  PROVE  Synced'
<1>1. /\ prev_ref_frame_num' = cur.frame_num
      /\ IF mem_mgmt_5 THEN phase' = "drain" /\ after' = "bump" ELSE phase' = "bump"
      /\ UNCHANGED <<ret, hdr, mem_mgmt_5, cvs>>
  BY DEF Finish
<1>2. ~Unremembered' /\ ~Filling'
  BY <1>1 DEF Unremembered, Filling
<1>3. cvs.prev_ref = cur.frame_num
  BY DEF Synced, Headed, Unremembered
<1>4. Untroubled'
  BY <1>1 DEF Synced, Untroubled
<1>5. Headed'
  BY <1>1, <1>2 DEF Synced, Headed
<1>6. Roomful'
  BY <1>1, <1>2, <1>3 DEF Roomful
<1> QED
  BY <1>4, <1>5, <1>6 DEF Synced

LEMMA MarkingSynced ==
  ASSUME Conforming, IInv, Synced, Marking
  PROVE  Synced'
<1>1. phase = "marking" /\ cur \in Picture /\ cur.ref # "none" /\ hdr.ref
  <2>1. phase = "marking"
    BY DEF Marking, MarkIdr, MarkSliding, MmcoEnd, UnmarkShort, UnmarkLong, ShortToLong,
           LimitLong, UnmarkAll, CurrentToLong, Mmco
  <2> QED
    BY <2>1 DEF Synced, Headed, Unremembered, IInv, TypeOK
<1>2. CASE MarkIdr \/ MarkSliding \/ MmcoEnd
  <2>1. \A reference : Marked(cur, reference).frame_num = cur.frame_num
    BY <1>1 DEF Marked, Picture
  <2> QED
    BY <1>1, <1>2, <2>1, FinishSynced DEF MarkIdr, MarkSliding, MmcoEnd
<1>3. ASSUME NEW d, NEW c, Mmco(d, c), UNCHANGED <<mem_mgmt_5, cvs>>,
             c.frame_num = cur.frame_num, c.ref # "none"
      PROVE  Synced'
  <2>1. cur' = c /\ UNCHANGED <<phase, after, ret, hdr, prev_ref_frame_num>>
    BY <1>3 DEF Mmco
  <2>2. Untroubled'
    BY <1>1, <1>3, <2>1 DEF Synced, Untroubled
  <2>3. Headed'
    BY <1>1, <1>3, <2>1 DEF Synced, Headed, Unremembered
  <2>4. Roomful'
    BY <1>1, <2>1 DEF Roomful, Filling, Unremembered
  <2> QED
    BY <2>2, <2>3, <2>4 DEF Synced
<1>4. CASE UnmarkShort \/ UnmarkLong \/ ShortToLong \/ LimitLong
  <2>1. \E d : Mmco(d, cur) /\ UNCHANGED <<mem_mgmt_5, cvs>>
    BY <1>4 DEF UnmarkShort, UnmarkLong, ShortToLong, LimitLong
  <2> QED
    BY <1>1, <1>3, <2>1
<1>5. CASE CurrentToLong
  <2>1. PICK idx \in LongIdxs :
          Mmco(Mmco6(dpb, idx), [Marked(cur, "long") EXCEPT !.long_term_frame_idx = idx])
    BY <1>5 DEF CurrentToLong
  <2>2. /\ [Marked(cur, "long") EXCEPT !.long_term_frame_idx = idx].frame_num = cur.frame_num
        /\ [Marked(cur, "long") EXCEPT !.long_term_frame_idx = idx].ref # "none"
    BY <1>1 DEF Marked, Picture
  <2> QED
    BY <1>3, <1>5, <2>1, <2>2 DEF CurrentToLong
<1>6. CASE UnmarkAll
  <2>1. /\ cur' = [cur EXCEPT !.frame_num = 0, !.poc = 0] /\ mem_mgmt_5' = TRUE
        /\ UNCHANGED <<phase, after, ret, hdr, prev_ref_frame_num>>
    BY <1>6 DEF UnmarkAll, Mmco
  <2>2. cur'.frame_num = 0 /\ cur'.ref = cur.ref
    BY <1>1, <2>1 DEF Picture
  <2>3. cvs'.prev_ref = 0
    BY <1>6 DEF UnmarkAll, NewCvs
  <2>4. Untroubled'
    BY <1>1, <2>1 DEF Synced, Untroubled
  <2>5. Headed'
    BY <1>1, <2>1, <2>2, <2>3, ConstantsAssumption DEF Synced, Headed, Unremembered
  <2>6. Roomful'
    BY <1>1, <2>1 DEF Roomful, Filling, Unremembered
  <2> QED
    BY <2>4, <2>5, <2>6 DEF Synced
<1> QED
  BY <1>2, <1>4, <1>5, <1>6 DEF Marking

LEMMA EndSynced ==
  ASSUME Conforming, Accepting, IInv, IInv', ClientInv, Synced,
         EndPicture \/ EndPictureFails \/ Store \/ OutputDirectly
  PROVE  Synced'
<1>0. DpbOk(dpb) /\ dpb \in Dpb /\ cur \in Picture
  BY DEF IInv, DpbOk, TypeOK
<1>1. CASE EndPicture
  <2>1. /\ phase = "slices"
        /\ UNCHANGED <<after, ret, cur, hdr, gap, mem_mgmt_5, cvs, prev_ref_frame_num, sps>>
        /\ IF cur.ref # "none" THEN phase' = "marking" /\ dpb' = dpb
           ELSE phase' = "bump" /\ dpb' = DeleteUnused(dpb)
    BY <1>1 DEF EndPicture, callVars, spsVars
  <2>2. hdr \in Slices /\ (cur.ref = "none" <=> ~hdr.ref) /\ ~mem_mgmt_5
    BY <2>1 DEF Synced, Headed, Untroubled, Unremembered
  <2>3. LongRoom => LongRoom'
    <3>1. NumLongTerm(dpb') <= NumLongTerm(dpb)
      BY <1>0, <2>1, DeleteUnusedUnmarks, UnmarksBounds, BufferCounts
    <3> QED
      BY <2>1, <3>1, LongRoomKept
  <2>4. Untroubled'
    BY <2>1, <2>2 DEF Synced, Untroubled
  <2>5. Headed'
    BY <2>1, <2>2 DEF Synced, Headed, Unremembered
  <2>6. Roomful'
    BY <2>1, <2>2, <2>3 DEF Synced, Roomful, Filling, Unremembered, NoLong, InPicture
  <2> QED
    BY <2>4, <2>5, <2>6 DEF Synced
<1>2. CASE EndPictureFails
  BY <1>2 DEF EndPictureFails, Accepting
<1>3. CASE Store
  <2>1. /\ phase = "bump" /\ phase' = "livebump" /\ dpb' = DpbAdd(dpb, cur)
        /\ UNCHANGED <<ret, mem_mgmt_5, cvs, prev_ref_frame_num, sps>>
    BY <1>3 DEF Store, spsVars
  <2>2. ~Unremembered /\ ~Unremembered' /\ NoLong'
    BY <2>1 DEF Unremembered, NoLong, InPicture
  <2>3. NoLong => NumLongTerm(dpb') <= NumLongTerm(dpb)
    <3> SUFFICES ASSUME cur.ref = "none" PROVE NumLongTerm(dpb') <= NumLongTerm(dpb)
      BY <2>1 DEF NoLong, InPicture
    <3>1. LongTermRefs(dpb') = LongTermRefs(dpb)
      BY <1>0, <2>1, DpbAddBounds
    <3> QED
      BY <1>0, <3>1, BufferCounts DEF NumLongTerm
  <2> QED
    BY <2>1, <2>2, <2>3, SyncedOutside DEF Synced, Untroubled
<1>4. CASE OutputDirectly
  <2>1. /\ phase = "bump" /\ phase' = "livebump" /\ dpb' = SetLastOutput(dpb, cur)
        /\ OutputPicture(cur, TRUE)
        /\ UNCHANGED <<mem_mgmt_5, cvs, prev_ref_frame_num, sps>>
    BY <1>4 DEF OutputDirectly, spsVars
  <2>2. ~Unremembered /\ ~Unremembered' /\ NoLong'
    BY <2>1 DEF Unremembered, NoLong, InPicture
  <2>3. ret' = ret
    <3>1. cur.id \in pending
      BY <2>1 DEF ClientInv, Owed, Accepting, AfterEnd, IInv, CurrentPicture, InPicture
    <3> QED
      BY <2>1, <3>1, OutputSucceeds
  <2>4. NumLongTerm(dpb') <= NumLongTerm(dpb)
    <3>1. dpb'.pic_list = dpb.pic_list
      BY <1>0, <2>1 DEF SetLastOutput, Dpb
    <3> QED
      BY <1>0, <3>1, SamePictureCounts
  <2> QED
    BY <2>1, <2>2, <2>3, <2>4, SyncedOutside DEF Synced, Untroubled
<1> QED
  BY <1>1, <1>2, <1>3, <1>4

LEMMA CallsSynced ==
  ASSUME Conforming, IInv, IInv', Synced, Drain \/ Flush \/ Stop \/ Start
  PROVE  Synced'
<1>1. /\ phase \in {"idle", "stopped"} /\ UNCHANGED <<ret, mem_mgmt_5>>
      /\ ~Unremembered /\ ~Unremembered'
  BY DEF Drain, Flush, Stop, Start, callVars, Unremembered
<1>2. ret' = "ok" /\ ~mem_mgmt_5'
  BY <1>1 DEF Synced, Untroubled
<1>3. CASE Drain \/ Flush \/ Stop
  <2>1. cvs' = NewCvs
    BY <1>3 DEF Drain, Flush, Stop, Interrupted
  <2> QED
    BY <1>1, <1>2, <2>1, SyncedAnew
<1>4. CASE Start
  <2>1. phase' = "idle" /\ UNCHANGED <<cvs, prev_ref_frame_num, sps, dpb>>
    BY <1>4 DEF Start, spsVars
  <2>2. NumLongTerm(dpb') <= NumLongTerm(dpb)
    BY <2>1, SamePictureCounts DEF IInv
  <2>3. NoLong'
    BY <2>1 DEF NoLong, InPicture
  <2> QED
    BY <1>1, <1>2, <2>1, <2>2, <2>3, SyncedOutside
<1> QED
  BY <1>3, <1>4

LEMMA SyncedInit == Init => Synced
<1> SUFFICES ASSUME Init PROVE Synced
  OBVIOUS
<1>1. ret = "ok" /\ ~mem_mgmt_5 /\ ~Unremembered /\ phase = "idle" /\ cvs = NewCvs
  BY DEF Init, Unremembered
<1>2. Headed
  BY <1>1, ConstantsAssumption DEF Headed, Unremembered, NewCvs
<1>3. Roomful
  BY <1>1 DEF Roomful, Filling, NewCvs
<1> QED
  BY <1>1, <1>2, <1>3 DEF Synced, Untroubled

LEMMA SyncedNext ==
  ASSUME Conforming, Accepting, IInv, IInv', ClientInv, Synced, [Next]_vars
  PROVE  Synced'
<1>1. CASE UNCHANGED vars
  <2>1. NumLongTerm(dpb') <= NumLongTerm(dpb)
    BY <1>1, SamePictureCounts DEF vars, IInv
  <2> QED
    BY <1>1, <2>1, SyncedUnmoved DEF vars, callVars, spsVars
<1>2. CASE Next
  BY <1>2, HeadersSynced, NewPictureSynced, GapSynced, BumpSynced, DrainSynced,
     MarkingSynced, EndSynced, CallsSynced DEF Next, Work, Nals, Calls
<1> QED
  BY <1>1, <1>2

LEMMA SyncedInvariance ==
  ASSUME Conforming, Accepting
  PROVE  Spec => []Synced
<1>1. IInv /\ IInv' /\ ClientInv /\ Synced /\ [Next]_vars => Synced'
  BY SyncedNext
<1> QED
  BY <1>1, SyncedInit, Invariance, ClientInvariance, PTL DEF Spec

-----------------------------------------------------------------------------
(* The calculated counts are the coded ones.                               *)

(* What the slice semantics ask of frame_num and, after operation 5, of    *)
(* delta_pic_order_cnt_bottom.                                             *)
SoundCoding == MaxFrameNum > 1 /\ \A delta \in Deltas : -delta < MaxPocLsb

FieldCounts ==
    [msb: Int, lsb: Int, delta: Int, offset: Nat, top: Int, bottom: Int, number: Int]
OrderTypes ==
    /\ poc_type \in 0..2
    /\ pic \in FieldCounts
    /\ prev_ref \in [msb: Int, lsb: Int, top: Int, mem_mgmt_5: BOOLEAN]
    /\ prev \in [frame_num: 0..(MaxFrameNum - 1), offset: Nat, mem_mgmt_5: BOOLEAN]
    /\ anchor \in [top: Int, number: Int]

InGap == phase \in {"gap", "gapbump"}
AtHand == Unremembered /\ ~InGap

(* The slice header is read, the count not calculated yet.                 *)
Coded ==
    InGap =>
      IF poc_type = 0
      THEN /\ pic.delta \in Deltas
           /\ pic.lsb = TopOf(hdr.poc, pic.delta) % MaxPocLsb
           /\ Codable(TopOf(hdr.poc, pic.delta), IF hdr.idr THEN 0 ELSE anchor.top)
      ELSE /\ pic.delta = 0 /\ hdr.poc = NumberedTop(pic.number, hdr.ref)
           /\ pic.number \in Nat /\ (~hdr.ref => pic.number >= 1)
           /\ pic.number = FrameNumOffset(hdr.idr, hdr.frame_num) + hdr.frame_num

(* It is calculated, not yet remembered.                                   *)
Calculated ==
    AtHand =>
      /\ pic.bottom = pic.top + pic.delta
      /\ cur.poc = PicOrderCnt(pic)
      /\ IF poc_type = 0
         THEN /\ pic.delta \in Deltas
              /\ IF mem_mgmt_5 THEN cur.poc = 0
                 ELSE pic.msb + pic.lsb = pic.top /\ pic.lsb = pic.top % MaxPocLsb
         ELSE /\ pic.delta = 0
              /\ pic.number = IF mem_mgmt_5 THEN 0 ELSE pic.offset + cur.frame_num
              /\ pic.number \in Nat /\ (~hdr.ref => pic.number >= 1)

(* What the decoder remembers of the last picture gives its number: the    *)
(* one the stream counts on from, or one more if it is no reference.       *)
OffsetBefore == IF prev.mem_mgmt_5 THEN 0 ELSE prev.offset
Numbered ==
    \/ cvs.prev_ref = prev.frame_num /\ anchor.number = OffsetBefore + prev.frame_num
    \/ cvs.prev_ref = Preceding(prev.frame_num)
         /\ anchor.number = OffsetBefore + prev.frame_num - 1

(* What it remembers of the last reference is what the encoder counts from.*)
Anchored ==
    IF poc_type = 0
    THEN /\ PrevOrder(FALSE).lsb = anchor.top % MaxPocLsb
         /\ PrevOrder(FALSE).msb + PrevOrder(FALSE).lsb = anchor.top
    ELSE anchor.number \in Nat /\ (~cvs.needs_idr /\ ~Unremembered => Numbered)

CountInv == OrderTypes /\ Coded /\ Calculated /\ Anchored

LEMMA PocLsbType == MaxPocLsb \in Nat \ {0}
<1> PICK n \in 4..16 : MaxPocLsb = 2 ^ n
  BY OrderAssumption
<1>1. \/ n = 4 \/ n = 5 \/ n = 6 \/ n = 7 \/ n = 8 \/ n = 9 \/ n = 10
      \/ n = 11 \/ n = 12 \/ n = 13 \/ n = 14 \/ n = 15 \/ n = 16
  OBVIOUS
<1>2. /\ 2 ^ 4 = 16 /\ 2 ^ 5 = 32 /\ 2 ^ 6 = 64 /\ 2 ^ 7 = 128 /\ 2 ^ 8 = 256
      /\ 2 ^ 9 = 512 /\ 2 ^ 10 = 1024 /\ 2 ^ 11 = 2048 /\ 2 ^ 12 = 4096
      /\ 2 ^ 13 = 8192 /\ 2 ^ 14 = 16384 /\ 2 ^ 15 = 32768 /\ 2 ^ 16 = 65536
  OBVIOUS
<1>3. 2 ^ n \in {2 ^ 4, 2 ^ 5, 2 ^ 6, 2 ^ 7, 2 ^ 8, 2 ^ 9, 2 ^ 10,
                 2 ^ 11, 2 ^ 12, 2 ^ 13, 2 ^ 14, 2 ^ 15, 2 ^ 16}
  BY <1>1
<1> QED
  BY <1>2, <1>3

LEMMA LowerOf ==
  ASSUME NEW poc \in Int, NEW delta \in Int
  PROVE  /\ TopOf(poc, delta) \in Int
         /\ Lower(TopOf(poc, delta), TopOf(poc, delta) + delta) = poc
BY DEF TopOf, Lower

LEMMA TopOfLower ==
  ASSUME NEW top \in Int, NEW delta \in Int
  PROVE  TopOf(Lower(top, top + delta), delta) = top
BY DEF TopOf, Lower

LEMMA Residue ==
  ASSUME NEW n \in Nat \ {0}, NEW x \in Int, -n < x, x < n
  PROVE  x % n = IF x >= 0 THEN x ELSE x + n
<1>1. CASE x >= 0
  <2>1. x = 0 * n + x /\ x \in 0..(n - 1)
    BY <1>1
  <2> QED
    BY <1>1, <2>1, Division
<1>2. CASE x < 0
  <2>1. x = (-1) * n + (x + n) /\ x + n \in 0..(n - 1) /\ -1 \in Int
    BY <1>2
  <2>2. x % n = x + n
    BY <2>1, Division
  <2> QED
    BY <1>2, <2>2
<1> QED
  BY <1>1, <1>2

(* Type 0: the low bits and the reference before give the high bits.       *)
LEMMA CountsFromLowBits ==
  ASSUME OrderTypes, Anchored, poc_type = 0, NEW idr \in BOOLEAN, NEW o \in FieldCounts,
         NEW poc \in Int, o.lsb = TopOf(poc, o.delta) % MaxPocLsb,
         Codable(TopOf(poc, o.delta), IF idr THEN 0 ELSE anchor.top)
  PROVE  /\ CountType0(idr, o) \in FieldCounts
         /\ CountType0(idr, o).top = TopOf(poc, o.delta)
         /\ CountType0(idr, o).bottom = TopOf(poc, o.delta) + o.delta
         /\ CountType0(idr, o).msb + o.lsb = TopOf(poc, o.delta)
         /\ CountType0(idr, o).lsb = o.lsb /\ CountType0(idr, o).delta = o.delta
<1> DEFINE M == MaxPocLsb
           t == TopOf(poc, o.delta)
           a == IF idr THEN 0 ELSE anchor.top
           b == PrevOrder(idr)
           m == IF o.lsb < b.lsb /\ 2 * (b.lsb - o.lsb) >= M THEN b.msb + M
                ELSE IF o.lsb > b.lsb /\ 2 * (o.lsb - b.lsb) > M THEN b.msb - M
                ELSE b.msb
<1>1. M \in Nat \ {0} /\ t \in Int /\ a \in Int /\ o.lsb \in Int
  BY PocLsbType, LowerOf DEF OrderTypes, FieldCounts
<1>2. b.lsb = a % M /\ b.msb + b.lsb = a /\ b.msb \in Int /\ b.lsb \in Int
  <2>1. CASE idr
    <3>1. 0 % M = 0
      BY <1>1, Residue
    <3> QED
      BY <2>1, <3>1 DEF PrevOrder
  <2>2. CASE ~idr
    <3>1. b = PrevOrder(FALSE) /\ b.msb \in Int /\ b.lsb \in Int
      BY <2>2 DEF PrevOrder, OrderTypes
    <3> QED
      BY <2>2, <3>1 DEF Anchored
  <2> QED
    BY <2>1, <2>2
<1>3. CountType0(idr, o) = [o EXCEPT !.msb = m, !.top = m + o.lsb, !.bottom = m + o.lsb + o.delta]
  BY DEF CountType0
<1>4. 2 * (t - a) <= M /\ 2 * (a - t) < M /\ o.lsb = t % M
  BY DEF Codable
<1> HIDE DEF M, t, a, b
<1>5. b.msb = a - (a % M)
  BY <1>1, <1>2
<1>6. m + o.lsb = t
  <2> DEFINE w == IF t % M < a % M /\ 2 * ((a % M) - (t % M)) >= M THEN a - (a % M) + M
                  ELSE IF t % M > a % M /\ 2 * ((t % M) - (a % M)) > M THEN a - (a % M) - M
                  ELSE a - (a % M)
  <2>1. w + (t % M) = t
    BY <1>1, <1>4, Wrap
  <2>2. m = w
    BY <1>2, <1>4, <1>5
  <2> QED
    BY <1>4, <2>1, <2>2
<1>7. m \in Int
  BY <1>1, <1>2
<1> HIDE DEF m
<1>8. m + o.lsb \in Int /\ m + o.lsb + o.delta \in Int
  BY <1>1, <1>7 DEF FieldCounts
<1> QED
  BY <1>3, <1>6, <1>7, <1>8 DEF FieldCounts, t

LEMMA OffsetType ==
  ASSUME OrderTypes, NEW idr \in BOOLEAN, NEW n \in 0..(MaxFrameNum - 1)
  PROVE  FrameNumOffset(idr, n) \in Nat
BY ConstantsAssumption DEF FrameNumOffset, OrderTypes

(* Types 1 and 2: the number gives the count.                              *)
LEMMA CountsFromNumber ==
  ASSUME OrderTypes, poc_type # 0, NEW h \in Slices, NEW o \in FieldCounts,
         o.delta = 0, o.number \in Nat, ~h.ref => o.number >= 1,
         o.number = FrameNumOffset(h.idr, h.frame_num) + h.frame_num
  PROVE  /\ CalculatePoc(h, o) \in FieldCounts
         /\ CalculatePoc(h, o).top = NumberedTop(o.number, h.ref)
         /\ CalculatePoc(h, o).bottom = CalculatePoc(h, o).top
         /\ CalculatePoc(h, o).offset + h.frame_num = o.number
         /\ CalculatePoc(h, o).number = o.number /\ CalculatePoc(h, o).delta = 0
<1> DEFINE offset == FrameNumOffset(h.idr, h.frame_num)
<1>1. /\ h.ref \in BOOLEAN /\ h.idr \in BOOLEAN /\ h.frame_num \in 0..(MaxFrameNum - 1)
      /\ (h.idr => h.ref /\ h.frame_num = 0)
  BY SliceFacts
<1>2. offset \in Nat /\ o.number = offset + h.frame_num /\ (h.idr => offset = 0)
  BY <1>1, OffsetType DEF FrameNumOffset
<1> HIDE DEF offset
<1>3. CASE poc_type = 1
  <2> DEFINE top == Cycles(AbsFrameNum(h)) + (IF h.ref THEN 0 ELSE NonRefOffset)
  <2>1. CalculatePoc(h, o) = [o EXCEPT !.offset = offset, !.top = top, !.bottom = top + o.delta]
    <3>1. CalculatePoc(h, o) = CountType1(h, o)
      BY <1>3 DEF CalculatePoc
    <3> QED
      BY <3>1 DEF CountType1, offset
  <2>2. AbsFrameNum(h) \in Nat /\ AbsFrameNum(h) = IF h.ref THEN o.number ELSE o.number - 1
    BY <1>1, <1>2 DEF AbsFrameNum, offset
  <2>3. /\ Cycles(AbsFrameNum(h)) = RefCount[AbsFrameNum(h)]
        /\ Cycles(AbsFrameNum(h)) \in Int
    BY <2>2, RefCountDef, CyclesGrow
  <2>4. top = NumberedTop(o.number, h.ref)
    BY <1>1, <1>3, <2>2, <2>3 DEF NumberedTop
  <2>5. top \in Int
    BY <1>1, <2>3, OrderAssumption
  <2> HIDE DEF top
  <2>6. top + o.delta = top
    BY <2>5
  <2> QED
    BY <1>2, <2>1, <2>4, <2>5, <2>6 DEF FieldCounts
<1>4. CASE poc_type = 2
  <2> DEFINE top == IF h.idr THEN 0
                    ELSE IF h.ref THEN 2 * (offset + h.frame_num)
                    ELSE 2 * (offset + h.frame_num) - 1
  <2>1. CalculatePoc(h, o) = [o EXCEPT !.offset = offset, !.top = top, !.bottom = top]
    <3>1. CalculatePoc(h, o) = CountType2(h, o)
      BY <1>4 DEF CalculatePoc
    <3> QED
      BY <3>1 DEF CountType2, offset
  <2>2. top = NumberedTop(o.number, h.ref)
    BY <1>1, <1>2, <1>4 DEF NumberedTop
  <2>3. top \in Int
    BY <1>1, <1>2
  <2> HIDE DEF top
  <2> QED
    BY <1>2, <2>1, <2>2, <2>3 DEF FieldCounts
<1> QED
  BY <1>3, <1>4 DEF OrderTypes

(* frame_num gives the number, also when it wraps and after pictures that  *)
(* are no references.                                                      *)
LEMMA NumberFromFrameNum ==
  ASSUME Conforming, SoundCoding, OrderTypes, Anchored, poc_type # 0, Synced,
         phase = "nals", NEW h \in Slices, MayFollow(h)
  PROVE  /\ NumberOf(h) = FrameNumOffset(h.idr, h.frame_num) + h.frame_num
         /\ NumberOf(h) \in Nat /\ (~h.ref => NumberOf(h) >= 1)
<1> DEFINE M == MaxFrameNum
           n == h.frame_num
           f == prev.frame_num
           b == OffsetBefore
           r == cvs.prev_ref
<1>1. /\ h.ref \in BOOLEAN /\ h.idr \in BOOLEAN /\ n \in 0..(M - 1)
      /\ h.idr => h.ref /\ n = 0
  BY SliceFacts
<1>2. M \in Nat /\ M > 1 /\ r \in 0..(M - 1) /\ f \in 0..(M - 1) /\ b \in Nat
      /\ anchor.number \in Nat
  BY ConstantsAssumption
     DEF SoundCoding, Synced, Headed, OrderTypes, OffsetBefore, Anchored
<1>3. CASE h.idr
  BY <1>1, <1>3 DEF NumberOf, FrameNumOffset
<1>4. CASE ~h.idr
  <2>1. r # n
    <3>1. Following(r) # r
      BY <1>2, PrecedingType
    <3> QED
      BY <1>4, <3>1 DEF MayFollow, GapBefore
  <2>2. NumberOf(h) = anchor.number + ((n - r) % M)
    BY <1>4 DEF NumberOf
  <2>3. (n - r) % M = IF n - r >= 0 THEN n - r ELSE n - r + M
    <3>1. n - r \in Int /\ -M < n - r /\ n - r < M
      BY <1>1, <1>2
    <3> HIDE DEF M, n, r
    <3> QED
      BY <1>2, <3>1, Residue
  <2>4. FrameNumOffset(h.idr, n) = IF f > n THEN b + M ELSE b
    BY <1>4 DEF FrameNumOffset, OffsetBefore
  <2>5. \/ r = f /\ anchor.number = b + f
        \/ r = (IF f = 0 THEN M - 1 ELSE f - 1) /\ anchor.number = b + f - 1
    <3>1. ~cvs.needs_idr /\ ~Unremembered
      BY <1>4 DEF MayFollow, Unremembered
    <3> QED
      BY <1>2, <3>1, PrecedingType DEF Anchored, Numbered
  <2> HIDE DEF M, n, f, b, r
  <2>6. NumberOf(h) = FrameNumOffset(h.idr, n) + n /\ NumberOf(h) \in Nat /\ NumberOf(h) >= 1
    BY <1>1, <1>2, <2>1, <2>2, <2>3, <2>4, <2>5
  <2> QED
    BY <2>6 DEF n
<1> QED
  BY <1>1, <1>3, <1>4
(* A step that leaves the counts alone: the picture under way stays so.    *)
LEMMA CountsKept ==
  ASSUME CountInv, UNCHANGED orderVars,
         InGap' => InGap /\ hdr' = hdr,
         AtHand' => /\ AtHand /\ hdr' = hdr /\ mem_mgmt_5' = mem_mgmt_5
                    /\ cur'.poc = cur.poc /\ cur'.frame_num = cur.frame_num,
         ~Unremembered' => cvs'.needs_idr \/ (~Unremembered /\ cvs' = cvs)
  PROVE  CountInv'
<1>1. UNCHANGED <<poc_type, pic, prev_ref, prev, anchor>>
  BY DEF orderVars
<1>2. OrderTypes'
  BY <1>1 DEF CountInv, OrderTypes
<1>3. Coded'
  <2> SUFFICES ASSUME InGap' PROVE Coded'
    BY DEF Coded
  <2> QED
    BY <1>1 DEF CountInv, Coded, Codable, NumberedTop, FrameNumOffset
<1>4. Calculated'
  <2> SUFFICES ASSUME AtHand' PROVE Calculated'
    BY DEF Calculated
  <2>1. PicOrderCnt(pic)' = PicOrderCnt(pic)
    BY <1>1 DEF PicOrderCnt
  <2> QED
    BY <1>1, <2>1 DEF CountInv, Calculated
<1>5. Anchored'
  BY <1>1 DEF CountInv, Anchored, PrevOrder, Numbered, OffsetBefore
<1> QED
  BY <1>2, <1>3, <1>4, <1>5 DEF CountInv

(* The slice header codes the count; ...                                   *)
LEMMA CodedPictureCounts ==
  ASSUME Conforming, SoundCoding, IInv, Synced, CountInv,
         NEW h \in Slices, NEW delta \in Deltas, CodedPicture(h, delta)
  PROVE  CountInv'
<1>1. /\ phase = "nals" /\ phase' = "gap" /\ MayFollow(h) /\ hdr' = h /\ Encodes(h, delta)
      /\ pic' = [NoOrder EXCEPT
                    !.lsb = IF poc_type = 0 THEN TopOf(h.poc, delta) % MaxPocLsb ELSE 0,
                    !.delta = delta, !.number = NumberOf(h)]
      /\ UNCHANGED <<poc_type, prev_ref, prev, anchor>>
  BY DEF CodedPicture, NewPicture
<1>2. /\ h.poc \in Int /\ h.ref \in BOOLEAN /\ h.idr \in BOOLEAN
      /\ h.frame_num \in 0..(MaxFrameNum - 1) /\ delta \in Int
  BY HdrTypes, SliceFacts, OrderAssumption
<1>3. /\ pic' \in FieldCounts /\ pic'.delta = delta /\ pic'.number = NumberOf(h)
      /\ poc_type = 0 => pic'.lsb = TopOf(h.poc, delta) % MaxPocLsb
  <2>1. NumberOf(h) \in Int
    <3>1. (h.frame_num - cvs.prev_ref) % MaxFrameNum \in Int
      BY <1>2, ConstantsAssumption DEF Synced, Headed
    <3> QED
      BY <3>1 DEF NumberOf, CountInv, OrderTypes
  <2>2. TopOf(h.poc, delta) % MaxPocLsb \in Int
    <3>1. TopOf(h.poc, delta) \in Int
      BY <1>2 DEF TopOf
    <3> QED
      BY <3>1, PocLsbType
  <2> DEFINE lsb == IF poc_type = 0 THEN TopOf(h.poc, delta) % MaxPocLsb ELSE 0
             number == NumberOf(h)
             before == NoOrder
  <2>3. pic' = [before EXCEPT !.lsb = lsb, !.delta = delta, !.number = number]
    BY <1>1
  <2>4. lsb \in Int /\ number \in Int
    BY <2>1, <2>2
  <2>5. /\ pic' \in FieldCounts /\ pic'.delta = delta /\ pic'.number = number
        /\ pic'.lsb = lsb
    <3>1. before \in FieldCounts
      BY DEF NoOrder, FieldCounts
    <3> HIDE DEF lsb, number, before
    <3> QED
      BY <1>2, <2>3, <2>4, <3>1 DEF FieldCounts
  <2> QED
    BY <2>5
<1>4. OrderTypes'
  BY <1>1, <1>3 DEF CountInv, OrderTypes
<1>5. Coded'
  <2>1. CASE poc_type = 0
    BY <1>1, <1>3, <2>1 DEF Coded, Encodes, Codable
  <2>2. CASE poc_type # 0
    <3>1. /\ NumberOf(h) = FrameNumOffset(h.idr, h.frame_num) + h.frame_num
          /\ NumberOf(h) \in Nat /\ (~h.ref => NumberOf(h) >= 1)
      BY <1>1, <2>2, NumberFromFrameNum DEF CountInv
    <3>2. FrameNumOffset(h.idr, h.frame_num)' = FrameNumOffset(h.idr, h.frame_num)
      BY <1>1 DEF FrameNumOffset
    <3>3. delta = 0 /\ h.poc = NumberedTop(NumberOf(h), h.ref)
      BY <1>1, <2>2 DEF Encodes
    <3> QED
      BY <1>1, <1>3, <2>2, <3>1, <3>2, <3>3 DEF Coded, NumberedTop, FrameNumOffset
  <2> QED
    BY <2>1, <2>2
<1>6. Calculated'
  BY <1>1 DEF Calculated, AtHand, InGap
<1>7. Anchored'
  BY <1>1 DEF CountInv, Anchored, PrevOrder, Unremembered
<1> QED
  BY <1>4, <1>5, <1>6, <1>7 DEF CountInv

(* ... init_current_picture recovers it; ...                               *)
LEMMA CountPictureCounts ==
  ASSUME IInv, Synced, CountInv, CountPicture
  PROVE  CountInv'
<1>1. /\ phase = "gap" /\ cur' = PictureOf(hdr)
      /\ UNCHANGED <<hdr, mem_mgmt_5, cvs, poc_type, prev_ref, prev, anchor>>
      /\ phase' = "slices" \/ (phase' = "drain" /\ after' = "slices")
      /\ pic' = CalculatePoc(hdr, pic)
  BY DEF CountPicture, StartPicture, StartPictureClear
<1>2. /\ Unremembered /\ InGap /\ ~InGap' /\ Unremembered'
      /\ hdr \in Slices /\ ~mem_mgmt_5
  BY <1>1 DEF Unremembered, InGap, Synced, Headed, Untroubled
<1>3. /\ hdr.poc \in Int /\ hdr.idr \in BOOLEAN
      /\ cur'.poc = hdr.poc /\ cur'.frame_num = hdr.frame_num
  BY <1>1, <1>2, HdrTypes, SliceFacts DEF PictureOf, BlankPicture, NoPicture
<1>4. pic \in FieldCounts /\ OrderTypes /\ Coded /\ Anchored
  BY DEF CountInv, OrderTypes
<1>5. CASE poc_type = 0
  <2>1. pic' = CountType0(hdr.idr, pic)
    BY <1>1, <1>5 DEF CalculatePoc
  <2>2. /\ pic.delta \in Deltas /\ pic.delta \in Int
        /\ pic.lsb = TopOf(hdr.poc, pic.delta) % MaxPocLsb
        /\ Codable(TopOf(hdr.poc, pic.delta), IF hdr.idr THEN 0 ELSE anchor.top)
    BY <1>2, <1>4, <1>5, OrderAssumption DEF Coded
  <2>3. /\ pic' \in FieldCounts /\ pic'.top = TopOf(hdr.poc, pic.delta)
        /\ pic'.bottom = pic'.top + pic.delta
        /\ pic'.msb + pic'.lsb = pic'.top /\ pic'.lsb = pic'.top % MaxPocLsb
        /\ pic'.delta = pic.delta
    BY <1>3, <1>4, <1>5, <2>1, <2>2, CountsFromLowBits
  <2>4. PicOrderCnt(pic') = hdr.poc
    <3>1. Lower(TopOf(hdr.poc, pic.delta), TopOf(hdr.poc, pic.delta) + pic.delta) = hdr.poc
      BY <1>3, <2>2, LowerOf
    <3> QED
      BY <2>3, <3>1 DEF PicOrderCnt
  <2>5. Calculated'
    BY <1>1, <1>2, <1>3, <1>5, <2>2, <2>3, <2>4 DEF Calculated, PicOrderCnt
  <2>6. OrderTypes'
    BY <1>1, <1>4, <2>3 DEF OrderTypes
  <2>7. Anchored'
    BY <1>1, <1>4, <1>5 DEF Anchored, PrevOrder
  <2> QED
    BY <1>2, <2>5, <2>6, <2>7 DEF CountInv, Coded
<1>6. CASE poc_type # 0
  <2>1. /\ pic.delta = 0 /\ hdr.poc = NumberedTop(pic.number, hdr.ref)
        /\ pic.number \in Nat /\ (~hdr.ref => pic.number >= 1)
        /\ pic.number = FrameNumOffset(hdr.idr, hdr.frame_num) + hdr.frame_num
    BY <1>2, <1>4, <1>6 DEF Coded
  <2>2. /\ pic' \in FieldCounts /\ pic'.top = hdr.poc /\ pic'.bottom = pic'.top
        /\ pic'.offset + hdr.frame_num = pic.number
        /\ pic'.number = pic.number /\ pic'.delta = 0
    BY <1>1, <1>2, <1>4, <1>6, <2>1, CountsFromNumber
  <2>3. PicOrderCnt(pic') = hdr.poc /\ pic'.bottom = pic'.top + pic'.delta
    BY <1>3, <2>2 DEF PicOrderCnt, Lower
  <2>4. Calculated'
    BY <1>1, <1>2, <1>3, <1>6, <2>1, <2>2, <2>3 DEF Calculated, PicOrderCnt
  <2>5. OrderTypes'
    BY <1>1, <1>4, <2>2 DEF OrderTypes
  <2>6. Anchored'
    BY <1>1, <1>2, <1>4, <1>6 DEF Anchored
  <2> QED
    BY <1>2, <2>4, <2>5, <2>6 DEF CountInv, Coded
<1> QED
  BY <1>5, <1>6

(* ... operation 5 rebases it.                                             *)
LEMMA RebaseCounts ==
  ASSUME IInv, Synced, CountInv, RebaseOrder
  PROVE  CountInv'
<1> DEFINE c == PicOrderCnt(pic)
<1>1. /\ phase = "marking" /\ phase' = "marking" /\ hdr' = hdr /\ mem_mgmt_5' = TRUE
      /\ cur' = [cur EXCEPT !.frame_num = 0, !.poc = 0]
      /\ pic' = [pic EXCEPT !.top = @ - c, !.bottom = @ - c, !.number = 0]
      /\ UNCHANGED <<poc_type, prev_ref, prev, anchor>>
  BY DEF RebaseOrder, UnmarkAll, Mmco
<1>2. AtHand /\ AtHand' /\ ~InGap' /\ Unremembered' /\ hdr.ref
  BY <1>1 DEF AtHand, InGap, Unremembered, Synced, Headed
<1>3. cur'.poc = 0 /\ cur'.frame_num = 0
  BY <1>1 DEF IInv, TypeOK, Picture
<1>4. pic \in FieldCounts /\ pic.bottom = pic.top + pic.delta /\ OrderTypes /\ Calculated
  BY <1>2 DEF CountInv, OrderTypes, Calculated
<1>5. c \in Int /\ c = IF pic.top < pic.bottom THEN pic.top ELSE pic.bottom
  BY <1>4 DEF PicOrderCnt, Lower, FieldCounts
<1> HIDE DEF c
<1>6. /\ pic' \in FieldCounts /\ pic'.top = pic.top - c /\ pic'.bottom = pic.bottom - c
      /\ pic'.number = 0 /\ pic'.delta = pic.delta
  <2> DEFINE top == pic.top - c
             bottom == pic.bottom - c
             number == 0
  <2>1. top \in Int /\ bottom \in Int
    BY <1>4, <1>5 DEF FieldCounts
  <2>2. pic' = [pic EXCEPT !.top = top, !.bottom = bottom, !.number = number]
    BY <1>1
  <2>3. /\ pic' \in FieldCounts /\ pic'.top = top /\ pic'.bottom = bottom
        /\ pic'.number = number /\ pic'.delta = pic.delta
    <3>1. number \in Int
      OBVIOUS
    <3> HIDE DEF top, bottom, number
    <3> QED
      BY <1>4, <2>1, <2>2, <3>1 DEF FieldCounts
  <2> QED
    BY <2>3
<1>7. PicOrderCnt(pic') = 0 /\ pic'.bottom = pic'.top + pic'.delta
  BY <1>4, <1>5, <1>6 DEF PicOrderCnt, Lower, FieldCounts
<1>8. Calculated'
  BY <1>1, <1>2, <1>3, <1>4, <1>6, <1>7 DEF Calculated, PicOrderCnt
<1>9. OrderTypes'
  BY <1>1, <1>4, <1>6 DEF OrderTypes
<1>10. Anchored'
  BY <1>1, <1>2 DEF CountInv, Anchored, PrevOrder
<1> QED
  BY <1>2, <1>8, <1>9, <1>10 DEF CountInv, Coded
(* A reference is remembered: after operation 5 its top field count stands *)
(* for the low bits, which it does not exceed.                             *)
LEMMA RememberReferenceCounts ==
  ASSUME SoundCoding, IInv, Synced, CountInv, RememberReference
  PROVE  CountInv'
<1>1. /\ phase = "marking"
      /\ phase' = "bump" \/ (phase' = "drain" /\ after' = "bump")
      /\ prev_ref' = [msb |-> pic.msb, lsb |-> pic.lsb, top |-> pic.top,
                      mem_mgmt_5 |-> mem_mgmt_5]
      /\ prev' = [frame_num |-> cur.frame_num, offset |-> pic.offset,
                  mem_mgmt_5 |-> mem_mgmt_5]
      /\ anchor' = [top |-> TopOf(cur.poc, pic.delta), number |-> pic.number]
      /\ UNCHANGED <<cvs, poc_type, pic>>
  BY DEF RememberReference, MarkIdr, MarkSliding, MmcoEnd, Finish, Remembered
<1>2. AtHand /\ ~Unremembered' /\ ~InGap' /\ ~AtHand' /\ hdr.ref
  BY <1>1 DEF AtHand, InGap, Unremembered, Synced, Headed
<1>3. cvs.prev_ref = cur.frame_num /\ (mem_mgmt_5 => cur.frame_num = 0)
      /\ cur.frame_num \in 0..(MaxFrameNum - 1)
  BY <1>1, <1>2 DEF Synced, Headed, AtHand, InGap, IInv, CurrentPicture
<1>4. pic \in FieldCounts /\ pic.delta \in Int /\ pic.top \in Int /\ pic.msb \in Int
      /\ pic.lsb \in Int /\ pic.offset \in Nat /\ pic.number \in Int
      /\ mem_mgmt_5 \in BOOLEAN
  BY DEF CountInv, OrderTypes, FieldCounts, IInv, TypeOK
<1>5. pic.bottom = pic.top + pic.delta /\ cur.poc = PicOrderCnt(pic)
  BY <1>2 DEF CountInv, Calculated
<1>6. TopOf(cur.poc, pic.delta) = pic.top
  BY <1>4, <1>5, TopOfLower DEF PicOrderCnt
<1>7. OrderTypes'
  BY <1>1, <1>3, <1>4, <1>6 DEF CountInv, OrderTypes
<1>8. ASSUME poc_type = 0 PROVE Anchored'
  <2>1. CASE mem_mgmt_5
    <3>1. cur.poc = 0 /\ -pic.delta < MaxPocLsb
      BY <1>2, <1>8, <2>1 DEF CountInv, Calculated, SoundCoding
    <3>2. pic.top = IF pic.delta < 0 THEN -pic.delta ELSE 0
      BY <1>4, <1>6, <3>1 DEF TopOf
    <3>3. pic.top % MaxPocLsb = pic.top
      BY <1>4, <3>1, <3>2, PocLsbType, Residue
    <3> QED
      BY <1>1, <1>4, <1>6, <1>8, <2>1, <3>3 DEF Anchored, PrevOrder
  <2>2. CASE ~mem_mgmt_5
    <3>1. pic.msb + pic.lsb = pic.top /\ pic.lsb = pic.top % MaxPocLsb
      BY <1>2, <1>8, <2>2 DEF CountInv, Calculated
    <3> QED
      BY <1>1, <1>6, <1>8, <2>2, <3>1 DEF Anchored, PrevOrder
  <2> QED
    BY <2>1, <2>2
<1>9. ASSUME poc_type # 0 PROVE Anchored'
  <2>1. /\ pic.number = IF mem_mgmt_5 THEN 0 ELSE pic.offset + cur.frame_num
        /\ pic.number \in Nat
    BY <1>2, <1>9 DEF CountInv, Calculated
  <2>2. Numbered'
    BY <1>1, <1>3, <2>1 DEF Numbered, OffsetBefore
  <2> QED
    BY <1>1, <1>9, <2>1, <2>2 DEF Anchored
<1> QED
  BY <1>2, <1>7, <1>8, <1>9 DEF CountInv, Coded, Calculated

(* A picture that is no reference is remembered for frame_num alone.       *)
LEMMA RememberOtherCounts ==
  ASSUME IInv, Synced, CountInv, RememberOther
  PROVE  CountInv'
<1>1. /\ phase = "slices"
      /\ UNCHANGED <<after, hdr, cur, mem_mgmt_5, cvs, poc_type, pic, prev_ref>>
      /\ IF cur.ref # "none" THEN phase' = "marking" ELSE phase' = "bump"
      /\ IF cur.ref = "none"
         THEN /\ prev' = [frame_num |-> cur.frame_num, offset |-> pic.offset,
                          mem_mgmt_5 |-> mem_mgmt_5]
              /\ anchor' = [anchor EXCEPT !.number = pic.number - 1]
         ELSE UNCHANGED <<prev, anchor>>
  BY DEF RememberOther, EndPicture, callVars, Remembered
<1>2. AtHand /\ ~InGap' /\ ~mem_mgmt_5 /\ hdr \in Slices
      /\ cur.frame_num = hdr.frame_num /\ (cur.ref = "none" <=> ~hdr.ref)
  BY <1>1 DEF AtHand, InGap, Unremembered, Synced, Headed, Untroubled
<1>3. CASE cur.ref # "none"
  <2>1. AtHand' /\ Unremembered' /\ UNCHANGED orderVars
    BY <1>1, <1>3 DEF AtHand, InGap, Unremembered, orderVars
  <2> QED
    BY <1>1, <1>2, <2>1, CountsKept
<1>4. CASE cur.ref = "none"
  <2>1. ~Unremembered' /\ ~AtHand'
    BY <1>1, <1>4 DEF AtHand, Unremembered
  <2>2. cvs.prev_ref = Preceding(cur.frame_num) /\ cur.frame_num \in 0..(MaxFrameNum - 1)
    BY <1>1, <1>2, <1>4 DEF Synced, Headed, AtHand, IInv, CurrentPicture
  <2>3. pic.offset \in Nat /\ pic.number \in Int /\ anchor \in [top: Int, number: Int]
    BY DEF CountInv, OrderTypes, FieldCounts
  <2>4. anchor'.top = anchor.top /\ anchor'.number = pic.number - 1
        /\ anchor' \in [top: Int, number: Int]
    BY <1>1, <1>4, <2>3
  <2>5. OrderTypes'
    <3>1. prev' \in [frame_num: 0..(MaxFrameNum - 1), offset: Nat, mem_mgmt_5: BOOLEAN]
      <4>1. prev' = [frame_num |-> cur.frame_num, offset |-> pic.offset,
                     mem_mgmt_5 |-> mem_mgmt_5]
        BY <1>1, <1>4
      <4>2. mem_mgmt_5 \in BOOLEAN
        BY DEF IInv, TypeOK
      <4> QED
        BY <2>2, <2>3, <4>1, <4>2
    <3> QED
      BY <1>1, <2>4, <3>1 DEF CountInv, OrderTypes
  <2>6. CASE poc_type = 0
    BY <1>1, <2>1, <2>4, <2>5, <2>6, <1>2
      DEF CountInv, Anchored, PrevOrder, Coded, Calculated
  <2>7. CASE poc_type # 0
    <3>1. pic.number = pic.offset + cur.frame_num /\ pic.number \in Nat /\ pic.number >= 1
      BY <1>2, <1>4, <2>7 DEF CountInv, Calculated
    <3>2. Numbered'
      <4>1. cvs'.prev_ref = Preceding(cur.frame_num)
        BY <1>1, <2>2
      <4>2. OffsetBefore' = pic.offset /\ prev'.frame_num = cur.frame_num
        BY <1>1, <1>2, <1>4 DEF OffsetBefore
      <4>3. anchor'.number = OffsetBefore' + prev'.frame_num - 1
        BY <2>2, <2>3, <2>4, <3>1, <4>2
      <4> QED
        BY <4>1, <4>2, <4>3 DEF Numbered, Preceding
    <3>3. anchor'.number \in Nat
      BY <2>4, <3>1
    <3> QED
      BY <1>1, <1>2, <2>1, <2>5, <2>7, <3>2, <3>3
        DEF CountInv, Anchored, Coded, Calculated
  <2> QED
    BY <2>6, <2>7
<1> QED
  BY <1>3, <1>4

LEMMA ForgetCounts ==
  ASSUME CountInv, ForgetOrder
  PROVE  CountInv'
<1>1. /\ phase = "bump" /\ phase' = "livebump" /\ pic' = NoOrder
      /\ UNCHANGED <<cvs, poc_type, prev_ref, prev, anchor>>
  BY DEF ForgetOrder, Store, OutputDirectly
<1>2. ~Unremembered /\ ~Unremembered' /\ ~InGap' /\ ~AtHand'
  BY <1>1 DEF Unremembered, InGap, AtHand
<1>3. OrderTypes'
  BY <1>1 DEF CountInv, OrderTypes, NoOrder, FieldCounts
<1>4. Anchored'
  BY <1>1, <1>2 DEF CountInv, Anchored, PrevOrder, Numbered, OffsetBefore
<1> QED
  BY <1>2, <1>3, <1>4 DEF CountInv, Coded, Calculated

(* The rest of the decoder does not touch the counts: no picture is given  *)
(* up between its slice header and the moment it is remembered.            *)
LEMMA ElsewhereCounts ==
  ASSUME Conforming, Accepting, IInv, IInv', ClientInv, Synced, Synced', CountInv,
         CountGap \/ Elsewhere
  PROVE  CountInv'
<1>0. UNCHANGED orderVars
  BY DEF CountGap, Elsewhere
<1>1. CASE GapMark \/ GapStore
  <2>1. phase \in {"gap", "gapbump"} /\ phase' \in {"gap", "gapbump"} /\ hdr' = hdr
    <3>1. GapMark => ~SlidingWindowFails(dpb, MaxNumRefFrames)
      BY SlidingWindowWorks, MaxRefsType
        DEF GapMark, Synced, Roomful, Filling, LongRoom, IInv
    <3> QED
      BY <1>1, <3>1 DEF GapMark, GapStore, callVars, Synced, Untroubled
  <2> QED
    BY <1>0, <2>1, CountsKept DEF InGap, AtHand, Unremembered
<1>2. CASE Bumping \/ DrainTurn
  <2>1. UNCHANGED <<phase, after, hdr, cur, mem_mgmt_5, cvs>>
    BY <1>2 DEF Bumping, GapBump, BumpBefore, LiveBump, BumpTurn, DrainTurn
  <2> QED
    BY <1>0, <2>1, CountsKept DEF InGap, AtHand, Unremembered
<1>3. CASE UnmarkShort \/ UnmarkLong \/ ShortToLong \/ LimitLong \/ CurrentToLong
  <2>1. /\ phase = "marking" /\ UNCHANGED <<phase, hdr, mem_mgmt_5>>
        /\ cur'.poc = cur.poc /\ cur'.frame_num = cur.frame_num
    BY <1>3 DEF UnmarkShort, UnmarkLong, ShortToLong, LimitLong, CurrentToLong, Mmco, Marked,
                IInv, TypeOK, Picture
  <2> QED
    BY <1>0, <2>1, CountsKept DEF InGap, AtHand, Unremembered
<1>4. CASE DrainOver
  <2>1. /\ phase = "drain" /\ cvs' = cvs /\ ret = "ok"
        /\ after \in {"idle", "newseq", "slices", "bump"}
    BY <1>4 DEF DrainOver, Synced, Untroubled, IInv, TypeOK
  <2>2. \/ after = "idle" /\ phase' = "idle"
        \/ phase' = after /\ after # "idle" /\ UNCHANGED <<hdr, cur, mem_mgmt_5>>
    BY <1>4, <2>1 DEF DrainOver, Return
  <2> QED
    BY <1>0, <2>1, <2>2, CountsKept DEF InGap, AtHand, Unremembered
<1>5. CASE \/ NoSliceInFrame \/ NewPictureFails \/ FailFrame \/ FrameDone
           \/ HandleFrame \/ Drain \/ Flush \/ Stop \/ Start
  <2>1. phase \in {"idle", "nals", "fail", "livebump", "stopped"}
        /\ (phase' \in {"idle", "nals", "fail", "stopped"} \/ (phase' = "drain" /\ after' = "idle"))
        /\ cvs' \in {cvs, NewCvs}
    BY <1>5 DEF NoSliceInFrame, NewPictureFails, FailFrame, FrameDone, HandleFrame, Drain,
                Flush, Stop, Start, Return, Interrupted
  <2> QED
    BY <1>0, <2>1, CountsKept DEF InGap, AtHand, Unremembered, NewCvs
<1>6. CASE NewSequence \/ \E s \in SpsSet : ParseSps(s)
  <2>1. phase \in {"nals", "newseq"}
        /\ (phase' \in {"nals", "fail"} \/ (phase' = "drain" /\ after' = "newseq"))
        /\ cvs' \in {cvs, NewCvs}
    BY <1>6 DEF NewSequence, ParseSps, SpsUpdated, Interrupted
  <2> QED
    BY <1>0, <2>1, CountsKept DEF InGap, AtHand, Unremembered, NewCvs
<1> QED
  BY <1>1, <1>2, <1>3, <1>4, <1>5, <1>6
    DEF CountGap, Elsewhere, Calls, BadNal, EndPictureFails, Accepting

LEMMA CountsInit == OrderInit => CountInv
<1> SUFFICES ASSUME OrderInit PROVE CountInv
  OBVIOUS
<1>1. /\ phase = "idle" /\ cvs = NewCvs /\ poc_type \in 0..2 /\ pic = NoOrder
      /\ prev_ref = [msb |-> 0, lsb |-> 0, top |-> 0, mem_mgmt_5 |-> FALSE]
      /\ prev = [frame_num |-> 0, offset |-> 0, mem_mgmt_5 |-> FALSE]
      /\ anchor = [top |-> 0, number |-> 0]
  BY OrderAssumption DEF OrderInit, Init
<1>2. OrderTypes
  BY <1>1, ConstantsAssumption DEF OrderTypes, NoOrder, FieldCounts
<1>3. Anchored
  <2>1. 0 % MaxPocLsb = 0
    BY PocLsbType, Residue
  <2> QED
    BY <1>1, <2>1 DEF Anchored, PrevOrder, NewCvs
<1> QED
  BY <1>1, <1>2, <1>3 DEF CountInv, Coded, Calculated, InGap, AtHand, Unremembered

LEMMA CountsNext ==
  ASSUME Conforming, Accepting, SoundCoding, IInv, IInv', ClientInv, Synced, Synced',
         CountInv, [OrderNext]_<<vars, orderVars>>
  PROVE  CountInv'
<1>1. CASE UNCHANGED <<vars, orderVars>>
  BY <1>1, CountsKept DEF vars, callVars, InGap, AtHand, Unremembered
<1>2. CASE OrderNext
  BY <1>2, CodedPictureCounts, CountPictureCounts, RebaseCounts, RememberReferenceCounts,
     RememberOtherCounts, ForgetCounts, ElsewhereCounts DEF OrderNext
<1> QED
  BY <1>1, <1>2

-----------------------------------------------------------------------------
(* A client that takes every picture, a conforming stream, frame_num of at *)
(* least two values and distances of the bottom field in their range: the  *)
(* count calculated for a picture is the one its encoder gave it, in all   *)
(* three types, whatever wraps, whatever frame numbers are missing and     *)
(* whatever operation 5 rebases.                                           *)
THEOREM PocAsMeantCorrect ==
  ASSUME Conforming, Accepting, SoundCoding
  PROVE  OrderSpec => []PocAsMeant
<1>1. Spec => [](IInv /\ ClientInv /\ Synced)
  BY Invariance, ClientInvariance, SyncedInvariance, PTL
<1>2. OrderSpec => Spec
  BY OrderImplementsDecoder
<1>3. /\ IInv /\ ClientInv /\ Synced /\ (IInv /\ ClientInv /\ Synced)' /\ CountInv
      /\ [OrderNext]_<<vars, orderVars>>
      => CountInv'
  BY CountsNext
<1>4. CountInv => PocAsMeant
  BY DEF CountInv, Calculated, PocAsMeant, AtHand, InGap, Unremembered
<1> QED
  BY <1>1, <1>2, <1>3, <1>4, CountsInit, PTL DEF OrderSpec

(* A conforming stream whose client takes every picture never makes the    *)
(* sliding window of handle_frame_num_gap fail, not even when frame numbers*)
(* are inferred a second time because prev_ref_frame_num stayed behind.    *)
THEOREM GapsNeverFail ==
  ASSUME Conforming, Accepting
  PROVE  Spec => [](phase = "gap" /\ gap # hdr.frame_num
                      => ~SlidingWindowFails(dpb, MaxNumRefFrames))
<1>1. ASSUME IInv, Synced, phase = "gap", gap # hdr.frame_num
      PROVE  ~SlidingWindowFails(dpb, MaxNumRefFrames)
  BY <1>1, SlidingWindowWorks, MaxRefsType DEF Synced, Roomful, Filling, LongRoom, IInv
<1> QED
  BY <1>1, Invariance, SyncedInvariance, PTL
=============================================================================
