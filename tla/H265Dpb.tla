------------------------------ MODULE H265Dpb ------------------------------
(***************************************************************************)
(* The decoded picture buffer of lib/codecs/gsth265picture.c and the       *)
(* derivation of the reference picture set in gsth265decoder.c, as         *)
(* operators on a value. The GArray of pictures is a set of records whose  *)
(* field "order" ranks them; g_array_remove_index_fast moves the last      *)
(* picture of the array to the place of the one removed.                   *)
(***************************************************************************)
EXTENDS Integers, FiniteSets

(* Id is the system_frame_number, which also names the client's buffer.    *)
Picture ==
    [id: Nat, order: Nat, poc: Int, lsb: Nat, ref: BOOLEAN, long_term: BOOLEAN,
     output_flag: BOOLEAN, needed_for_output: BOOLEAN, latency: Nat]

Dpb == [pic_list: SUBSET Picture, tail: Nat, max_num_pics: Nat, num_output_needed: Int]

NewDpb == [pic_list |-> {}, tail |-> 0, max_num_pics |-> 0, num_output_needed |-> 0]

DpbClear_KeepsCount(d) == [d EXCEPT !.pic_list = {}, !.tail = 0]
DpbClear(d) == [d EXCEPT !.pic_list = {}, !.tail = 0, !.num_output_needed = 0]

-----------------------------------------------------------------------------
Ids(S) == {p.id : p \in S}
Pocs(S) == {p.poc : p \in S}
First(S) == {p \in S : \A q \in S : p.order <= q.order}

NeededForOutput(d) == {p \in d.pic_list : p.needed_for_output}
References(d) == {p \in d.pic_list : p.ref}
Unused_AlsoNeeded(d) == {p \in d.pic_list : ~p.ref}
Unused(d) == {p \in d.pic_list : ~p.needed_for_output /\ ~p.ref}
DeleteUnused(d) == [d EXCEPT !.pic_list = @ \ Unused(d)]

(* The pictures waiting for their output grow older by one.                *)
Aged(S) == {IF p.needed_for_output THEN [p EXCEPT !.latency = @ + 1] ELSE p : p \in S}

(* The picture is stored as a short-term reference (C.3.4).                *)
DpbAdd(d, p) ==
    [d EXCEPT !.pic_list = (IF p.output_flag THEN Aged(@) ELSE @) \union
                  {[p EXCEPT !.order = d.tail, !.needed_for_output = p.output_flag,
                             !.ref = TRUE, !.long_term = FALSE]},
              !.tail = @ + 1,
              !.num_output_needed = IF p.output_flag THEN @ + 1 ELSE @]

(* The first of the pictures with the lowest picture order count.          *)
IsLowestOutputNeeded_FirstStored(d, p) == p \in First(NeededForOutput(d))
IsLowestOutputNeeded(d, p) ==
    /\ p \in NeededForOutput(d)
    /\ \A q \in NeededForOutput(d) : p.poc < q.poc \/ (p.poc = q.poc /\ p.order <= q.order)

RemoveFast(S, p) ==
    {IF \A r \in S : r.order <= q.order THEN [q EXCEPT !.order = p.order] ELSE q
        : q \in S \ {p}}

(* gst_h265_dpb_bump once the lowest picture p is found: a reference stays *)
(* in the array unless the buffer is being drained.                        *)
Leaves(p, drain) == drain \/ ~p.ref

Bump_KeepsNeeded(d, p, drain) ==
    IF Leaves(p, drain)
    THEN [d EXCEPT !.num_output_needed = @ - 1, !.pic_list = RemoveFast(@, p)] ELSE d

Bump(d, p, drain) ==
    [d EXCEPT !.num_output_needed = @ - 1,
              !.pic_list = IF Leaves(p, drain) THEN RemoveFast(@, p)
                           ELSE (@ \ {p}) \union {[p EXCEPT !.needed_for_output = FALSE]}]

-----------------------------------------------------------------------------
(* gst_h265_dpb_needs_bump; a limit of 0 is no limit, but for "reorder".   *)
TooLate(d, latency) ==
    latency > 0 /\ \E p \in NeededForOutput(d) : p.latency >= latency

NeedsBump_OutputsOnly(d, reorder, latency, buffering) ==
    d.num_output_needed > reorder \/ TooLate(d, latency)

NeedsBump(d, reorder, latency, buffering) ==
    \/ Cardinality(d.pic_list) > d.max_num_pics
    \/ d.num_output_needed > reorder
    \/ d.num_output_needed # 0 /\ TooLate(d, latency)
    \/ buffering > 0 /\ Cardinality(d.pic_list) >= buffering

-----------------------------------------------------------------------------
(* The reference picture set (8.3.2). A short-term entry of a slice names  *)
(* a picture order count relative to the current one; a long-term entry    *)
(* names an absolute one, or only its least significant bits when "msb" is *)
(* false (the code computes one from the delta_poc_msb_cycle).             *)

MarkAllNonRef(d) == [d EXCEPT !.pic_list = {[p EXCEPT !.ref = FALSE] : p \in @}]

LongTerm_FullPoc(d, e) == First({p \in References(d) : p.poc = e.poc})
LongTerm(d, e) ==
    First({p \in References(d) : IF e.msb THEN p.poc = e.poc ELSE p.lsb = e.poc})

ShortTerm(d, poc) == First({p \in References(d) : ~p.long_term /\ p.poc = poc})

Found(d, entries) == UNION {LongTerm(d, e) : e \in entries}
MarkLongTerm(d, S) ==
    [d EXCEPT !.pic_list = {IF p \in S THEN [p EXCEPT !.long_term = TRUE] ELSE p : p \in @}]

(* The five lists of the set, by the ids of the pictures they refer to.    *)
RefPicSets ==
    [StCurrBefore: SUBSET Nat, StCurrAfter: SUBSET Nat, StFoll: SUBSET Nat,
     LtCurr: SUBSET Nat, LtFoll: SUBSET Nat]
NoRefPicSets ==
    [StCurrBefore |-> {}, StCurrAfter |-> {}, StFoll |-> {}, LtCurr |-> {}, LtFoll |-> {}]

Referred(sets) ==
    sets.StCurrBefore \union sets.StCurrAfter \union sets.StFoll
        \union sets.LtCurr \union sets.LtFoll

(* rps: the entries of the slice; poc: the picture order count of the      *)
(* current picture.                                                        *)
LongTermMarked(d, rps) == MarkLongTerm(d, Found(d, rps.lt_curr) \union Found(d, rps.lt_foll))

RefPicSetsOf(d, rps, poc) ==
    LET marked == LongTermMarked(d, rps)
        Short(deltas) == Ids(UNION {ShortTerm(marked, poc + delta) : delta \in deltas})
    IN  [StCurrBefore |-> Short({delta \in rps.st_curr : delta < 0}),
         StCurrAfter  |-> Short({delta \in rps.st_curr : delta >= 0}),
         StFoll       |-> Short(rps.st_foll),
         LtCurr       |-> Ids(Found(d, rps.lt_curr)),
         LtFoll       |-> Ids(Found(d, rps.lt_foll))]

(* Pictures are unmarked unless one in the set has their order count.      *)
MarkRps_KeepsOthers(d, rps, poc) == LongTermMarked(d, rps)
MarkRps(d, rps, poc) ==
    LET inSet == Pocs({p \in d.pic_list : p.id \in Referred(RefPicSetsOf(d, rps, poc))})
    IN  [d EXCEPT !.pic_list =
            {IF p.poc \in inSet THEN p ELSE [p EXCEPT !.ref = FALSE, !.long_term = FALSE]
                : p \in LongTermMarked(d, rps).pic_list}]
=============================================================================
