------------------------- MODULE H264DecoderProofs -------------------------
(***************************************************************************)
(* Theorems about H264Decoder for every value of its constants: the types  *)
(* and the output counter and, for conforming streams, the long-term       *)
(* indices and the limits on the number of pictures and of references.     *)
(* They rest on what each operation of H264Dpb preserves, for every        *)
(* buffer, and how it changes the numbers of pictures and of references.   *)
(***************************************************************************)
EXTENDS H264Decoder, FiniteSetTheorems, TLAPS

-----------------------------------------------------------------------------
(* The pictures of a buffer are finitely many, stamped with distinct       *)
(* positions below the next one, and of distinct frames (the pictures      *)
(* inferred for gaps share the id 0 and are never output).                 *)
Placed(d) ==
    /\ IsFiniteSet(d.pic_list)
    /\ \A p \in d.pic_list : p.order < d.tail
    /\ \A p, q \in d.pic_list : p.order = q.order => p = q

Named(d) ==
    /\ \A p, q \in d.pic_list : p.id = q.id /\ p.id # 0 => p = q
    /\ \A p \in NeededForOutput(d) : p.id # 0

Counted(d) == d.num_output_needed = Cardinality(NeededForOutput(d))

DpbOk(d) == d \in Dpb /\ Placed(d) /\ Named(d) /\ Counted(d)

(* d2 is d with other reference markings.                                  *)
Remarked(d, d2) ==
    \E f \in [d.pic_list -> Picture] :
        /\ \A p \in d.pic_list :
              /\ f[p].id = p.id
              /\ f[p].order = p.order
              /\ f[p].poc = p.poc
              /\ f[p].frame_num = p.frame_num
              /\ f[p].needed_for_output = p.needed_for_output
        /\ d2 = [d EXCEPT !.pic_list = {f[p] : p \in d.pic_list}]

-----------------------------------------------------------------------------
(* What an update of the buffer's own fields has to show.                  *)
LEMMA DpbUpdate ==
  ASSUME NEW d \in Dpb, NEW S \in SUBSET Picture, NEW t \in Nat, NEW n \in Int,
         NEW poc \in Int, NEW nonRef \in BOOLEAN
  PROVE  [d EXCEPT !.pic_list = S, !.tail = t, !.num_output_needed = n,
                   !.last_output_poc = poc, !.last_output_non_ref = nonRef] \in Dpb
BY DEF Dpb

LEMMA NewDpbOk == NewDpb \in Dpb /\ DpbOk(NewDpb)
<1>1. NewDpb \in Dpb
  BY MinPocAssumption DEF NewDpb, Dpb
<1>2. NewDpb.pic_list = {} /\ NeededForOutput(NewDpb) = {} /\ NewDpb.num_output_needed = 0
  BY DEF NewDpb, NeededForOutput
<1> QED
  BY <1>1, <1>2, FS_EmptySet DEF DpbOk, Placed, Named, Counted

LEMMA DpbClearOk ==
  ASSUME NEW d \in Dpb
  PROVE  /\ DpbOk(DpbClear(d))
         /\ DpbClear(d).pic_list = {}
         /\ NeededForOutput(DpbClear(d)) = {}
<1>1. DpbClear(d) \in Dpb
  <2>1. /\ {} \in SUBSET Picture /\ FALSE \in BOOLEAN
        /\ 0 \in Nat /\ 0 \in Int /\ MinPoc \in Int
    BY MinPocAssumption
  <2> QED
    BY <2>1, DpbUpdate, Zenon DEF DpbClear
<1>2. /\ DpbClear(d).pic_list = {} /\ NeededForOutput(DpbClear(d)) = {}
      /\ DpbClear(d).num_output_needed = 0
  BY DEF DpbClear, Dpb, NeededForOutput
<1> QED
  BY <1>1, <1>2, FS_EmptySet DEF DpbOk, Placed, Named, Counted

(* The limits of the buffer may change under the pictures.                 *)
LEMMA LimitsOk ==
  ASSUME NEW d, DpbOk(d), NEW size \in Nat, NEW reorder \in Nat
  PROVE  /\ DpbOk([d EXCEPT !.max_num_frames = size])
         /\ DpbOk([d EXCEPT !.max_num_reorder_frames = reorder])
BY DEF DpbOk, Dpb, Placed, Named, Counted, NeededForOutput

LEMMA NeededFinite ==
  ASSUME NEW d, DpbOk(d)
  PROVE  IsFiniteSet(NeededForOutput(d)) /\ Cardinality(NeededForOutput(d)) \in Nat
<1>1. NeededForOutput(d) \in SUBSET d.pic_list /\ IsFiniteSet(d.pic_list)
  BY DEF DpbOk, Placed, NeededForOutput
<1>2. IsFiniteSet(NeededForOutput(d))
  BY <1>1, FS_Subset
<1> QED
  BY <1>2, FS_CardinalityType

(* The counter a C integer never lets get negative.                        *)
LEMMA CounterNatural ==
  ASSUME NEW d, DpbOk(d)
  PROVE  d.num_output_needed \in Nat
BY NeededFinite DEF DpbOk, Counted

-----------------------------------------------------------------------------
LEMMA RemarkedOk ==
  ASSUME NEW d, DpbOk(d), NEW d2, Remarked(d, d2)
  PROVE  /\ DpbOk(d2)
         /\ Ids(d2.pic_list) = Ids(d.pic_list)
         /\ Ids(NeededForOutput(d2)) = Ids(NeededForOutput(d))
         /\ d2.max_num_frames = d.max_num_frames
         /\ d2.max_num_reorder_frames = d.max_num_reorder_frames
<1> PICK f \in [d.pic_list -> Picture] :
        /\ \A p \in d.pic_list :
              /\ f[p].id = p.id
              /\ f[p].order = p.order
              /\ f[p].poc = p.poc
              /\ f[p].frame_num = p.frame_num
              /\ f[p].needed_for_output = p.needed_for_output
        /\ d2 = [d EXCEPT !.pic_list = {f[p] : p \in d.pic_list}]
  BY DEF Remarked
<1> DEFINE T == {f[p] : p \in d.pic_list}
           N == NeededForOutput(d)
           g == [p \in N |-> f[p]]
<1>1. d2.pic_list = T /\ d2.tail = d.tail /\ d2.num_output_needed = d.num_output_needed
  BY DEF DpbOk, Dpb
<1>2. d2 \in Dpb
  BY DEF DpbOk, Dpb
<1>3. \A p, q \in d.pic_list : f[p] = f[q] => p = q
  BY DEF DpbOk, Placed
<1>4. IsFiniteSet(T)
  <2>1. f \in Surjection(d.pic_list, T)
    BY DEF Surjection
  <2> QED
    BY <2>1, FS_Surjection DEF DpbOk, Placed
<1>5. Placed(d2)
  BY <1>1, <1>4 DEF DpbOk, Placed
<1>6. NeededForOutput(d2) = {f[p] : p \in N}
  BY <1>1 DEF NeededForOutput
<1>7. Named(d2)
  BY <1>1, <1>6 DEF DpbOk, Named, NeededForOutput
<1>8. Counted(d2)
  <2>1. N \in SUBSET d.pic_list /\ IsFiniteSet(N)
    BY NeededFinite DEF NeededForOutput
  <2>2. g \in Bijection(N, NeededForOutput(d2))
    BY <1>3, <1>6, <2>1 DEF Bijection, Injection, Surjection, IsInjective
  <2>3. ExistsBijection(N, NeededForOutput(d2))
    BY <2>2 DEF ExistsBijection
  <2>4. Cardinality(NeededForOutput(d2)) = Cardinality(N)
    BY <2>1, <2>3, FS_Bijection
  <2> QED
    BY <1>1, <2>4 DEF DpbOk, Counted
<1>9. /\ Ids(d2.pic_list) = Ids(d.pic_list)
      /\ Ids(NeededForOutput(d2)) = Ids(N)
  BY <1>1, <1>6 DEF Ids, NeededForOutput
<1>10. /\ d2.max_num_frames = d.max_num_frames
       /\ d2.max_num_reorder_frames = d.max_num_reorder_frames
  BY DEF DpbOk, Dpb
<1> QED
  BY <1>2, <1>5, <1>7, <1>8, <1>9, <1>10 DEF DpbOk

-----------------------------------------------------------------------------
(* Storing a picture: at most one of the buffer's frames has its id.       *)
LEMMA DpbAddOk ==
  ASSUME NEW d, DpbOk(d), NEW p \in Picture,
         p.id \notin Ids(d.pic_list) \/ p.id = 0,
         p.nonexisting <=> p.id = 0
  PROVE  /\ DpbOk(DpbAdd(d, p))
         /\ Ids(DpbAdd(d, p).pic_list) = Ids(d.pic_list) \union {p.id}
         /\ Ids(NeededForOutput(DpbAdd(d, p))) =
              Ids(NeededForOutput(d)) \union (IF p.nonexisting THEN {} ELSE {p.id})
<1> DEFINE q == [p EXCEPT !.order = d.tail, !.needed_for_output = ~p.nonexisting]
           d2 == DpbAdd(d, p)
           N == NeededForOutput(d)
<1>1. /\ q \in Picture /\ q.order = d.tail /\ q.id = p.id
      /\ q.needed_for_output = ~p.nonexisting
  BY DEF DpbOk, Dpb, Picture
<1>2. /\ d2.pic_list = d.pic_list \union {q} /\ d2.tail = d.tail + 1
      /\ d2.num_output_needed = IF p.nonexisting THEN d.num_output_needed
                                ELSE d.num_output_needed + 1
  BY DEF DpbAdd, DpbOk, Dpb
<1>3. d2 \in Dpb
  <2> DEFINE n == IF p.nonexisting THEN d.num_output_needed ELSE d.num_output_needed + 1
             poc == IF p.poc = 0 THEN MinPoc ELSE d.last_output_poc
             nonRef == IF p.poc = 0 THEN FALSE ELSE d.last_output_non_ref
  <2>1. /\ d \in Dpb /\ d.pic_list \in SUBSET Picture /\ d.tail + 1 \in Nat
        /\ n \in Int /\ poc \in Int
    BY MinPocAssumption DEF DpbOk, Dpb
  <2>2. nonRef \in BOOLEAN
    BY DEF DpbOk, Dpb
  <2>3. d2 = [d EXCEPT !.pic_list = d.pic_list \union {q}, !.tail = d.tail + 1,
                       !.num_output_needed = n, !.last_output_poc = poc,
                       !.last_output_non_ref = nonRef]
    BY Zenon DEF DpbAdd
  <2> HIDE DEF q, n, poc, nonRef, d2
  <2>4. d.pic_list \union {q} \in SUBSET Picture
    BY <1>1, <2>1
  <2> QED
    BY <2>1, <2>3, <2>2, <2>4, DpbUpdate, Zenon
<1> HIDE DEF q, d2
<1>4. /\ q \notin d.pic_list
      /\ d.tail \in Nat
      /\ \A a \in d.pic_list : a.order \in Nat /\ a.order < d.tail /\ a.order # q.order
  <2>1. d.tail \in Nat /\ d.pic_list \subseteq Picture
    BY DEF DpbOk, Dpb
  <2>2. \A a \in d.pic_list : a.order \in Nat /\ a.order < d.tail
    BY <2>1 DEF DpbOk, Placed, Picture
  <2> QED
    BY <1>1, <2>1, <2>2
<1>5. Placed(d2)
  <2>1. IsFiniteSet(d2.pic_list)
    BY <1>2, FS_AddElement DEF DpbOk, Placed
  <2>2. \A a \in d2.pic_list : a.order < d2.tail
    BY <1>1, <1>2, <1>4
  <2>3. \A a, b \in d2.pic_list : a.order = b.order => a = b
    BY <1>1, <1>2, <1>4 DEF DpbOk, Placed
  <2> QED
    BY <2>1, <2>2, <2>3 DEF Placed
<1>6. NeededForOutput(d2) = N \union (IF p.nonexisting THEN {} ELSE {q})
  BY <1>1, <1>2 DEF NeededForOutput
<1>7. Named(d2)
  BY <1>1, <1>2, <1>6 DEF DpbOk, Named, Ids
<1>8. Counted(d2)
  <2>1. IsFiniteSet(N) /\ q \notin N
    BY <1>4, NeededFinite DEF NeededForOutput
  <2>2. Cardinality(N \union {q}) = Cardinality(N) + 1
    BY <2>1, FS_AddElement
  <2> QED
    BY <1>2, <1>6, <2>2 DEF DpbOk, Counted
<1>9. /\ Ids(d2.pic_list) = Ids(d.pic_list) \union {p.id}
      /\ Ids(NeededForOutput(d2)) = Ids(N) \union (IF p.nonexisting THEN {} ELSE {p.id})
  <2>1. CASE p.nonexisting
    BY <2>1, <1>1, <1>2, <1>6 DEF Ids
  <2>2. CASE ~p.nonexisting
    BY <2>2, <1>1, <1>2, <1>6 DEF Ids
  <2> QED
    BY <2>1, <2>2
<1> QED
  BY <1>3, <1>5, <1>7, <1>8, <1>9 DEF DpbOk, d2

LEMMA DeleteUnusedOk ==
  ASSUME NEW d, DpbOk(d)
  PROVE  /\ DpbOk(DeleteUnused(d))
         /\ NeededForOutput(DeleteUnused(d)) = NeededForOutput(d)
         /\ DeleteUnused(d).pic_list = d.pic_list \ Unused(d)
<1> DEFINE d2 == DeleteUnused(d)
<1>1. /\ d2.pic_list = d.pic_list \ Unused(d) /\ d2.tail = d.tail
      /\ d2.num_output_needed = d.num_output_needed
      /\ d2 \in Dpb
  BY DEF DeleteUnused, DpbOk, Dpb
<1>2. NeededForOutput(d2) = NeededForOutput(d)
  BY <1>1 DEF NeededForOutput, Unused
<1>3. IsFiniteSet(d2.pic_list)
  BY <1>1, FS_Subset DEF DpbOk, Placed
<1> QED
  BY <1>1, <1>2, <1>3 DEF DpbOk, Placed, Named, Counted

(* Bumping outputs a picture and counts it off.                            *)
LEMMA BumpOk ==
  ASSUME NEW d, DpbOk(d), NEW p \in NeededForOutput(d), NEW drain \in BOOLEAN
  PROVE  /\ DpbOk(Bump(d, p, drain))
         /\ Ids(Bump(d, p, drain).pic_list) =
              IF Leaves(p, drain) THEN Ids(d.pic_list) \ {p.id} ELSE Ids(d.pic_list)
         /\ NeededForOutput(Bump(d, p, drain)) = NeededForOutput(d) \ {p}
<1> DEFINE d2 == Bump(d, p, drain)
           N == NeededForOutput(d)
           kept == IF Leaves(p, drain) THEN {} ELSE {Output(p)}
           list == (d.pic_list \ {p}) \union kept
<1>1. p \in d.pic_list /\ p \in Picture /\ p.needed_for_output /\ p.id # 0
  BY DEF NeededForOutput, DpbOk, Dpb, Named
<1>2. /\ Output(p) \in Picture /\ Output(p).order = p.order /\ Output(p).id = p.id
      /\ Output(p).needed_for_output = FALSE
  BY <1>1 DEF Output, Picture
<1>3. /\ d2.pic_list = (d.pic_list \ {p}) \union kept /\ d2.tail = d.tail
      /\ d2.num_output_needed = d.num_output_needed - 1
  BY DEF Bump, SetLastOutput, DpbOk, Dpb
<1>4. d2 \in Dpb
  <2>1. /\ d \in Dpb /\ p.poc \in Int
        /\ d.tail \in Nat /\ d.num_output_needed - 1 \in Int
    BY <1>1 DEF Picture, DpbOk, Dpb
  <2>2. (~p.ref_pic) \in BOOLEAN
    OBVIOUS
  <2>3. list \in SUBSET Picture
    BY <1>2 DEF DpbOk, Dpb
  <2>4. d2 = [d EXCEPT !.pic_list = list, !.tail = d.tail,
                       !.num_output_needed = d.num_output_needed - 1,
                       !.last_output_poc = p.poc, !.last_output_non_ref = ~p.ref_pic]
    BY <2>1 DEF Bump, SetLastOutput, Dpb
  <2> HIDE DEF list, d2
  <2> QED
    BY <2>1, <2>3, <2>4, <2>2, DpbUpdate, Zenon
<1> HIDE DEF d2
<1>5. Placed(d2)
  <2>1. IsFiniteSet(d.pic_list \ {p})
    BY FS_RemoveElement DEF DpbOk, Placed
  <2>2. IsFiniteSet((d.pic_list \ {p}) \union {Output(p)})
    BY <2>1, FS_AddElement
  <2>3. d2.pic_list = d.pic_list \ {p} \/ d2.pic_list = (d.pic_list \ {p}) \union {Output(p)}
    BY <1>3
  <2>4. IsFiniteSet(d2.pic_list)
    BY <2>1, <2>2, <2>3
  <2> QED
    BY <1>1, <1>2, <1>3, <2>4 DEF DpbOk, Placed
<1>6. NeededForOutput(d2) = N \ {p}
  BY <1>2, <1>3 DEF NeededForOutput
<1>7. Named(d2)
  BY <1>1, <1>2, <1>3, <1>6 DEF DpbOk, Named
<1>8. Counted(d2)
  <2>1. Cardinality(N \ {p}) = Cardinality(N) - 1
    BY NeededFinite, FS_RemoveElement
  <2> QED
    BY <1>3, <1>6, <2>1 DEF DpbOk, Counted
<1>9. Ids(d2.pic_list) =
        IF Leaves(p, drain) THEN Ids(d.pic_list) \ {p.id} ELSE Ids(d.pic_list)
  BY <1>1, <1>2, <1>3 DEF Ids, DpbOk, Named
<1> QED
  BY <1>4, <1>5, <1>6, <1>7, <1>8, <1>9 DEF DpbOk, d2

-----------------------------------------------------------------------------
(* Reference marking only remarks.                                         *)
LEMMA RemarkedTransitive ==
  ASSUME NEW d1, NEW d2, NEW d3, d1 \in Dpb, Remarked(d1, d2), Remarked(d2, d3)
  PROVE  Remarked(d1, d3)
<1> PICK f \in [d1.pic_list -> Picture] :
        /\ \A p \in d1.pic_list :
              /\ f[p].id = p.id
              /\ f[p].order = p.order
              /\ f[p].poc = p.poc
              /\ f[p].frame_num = p.frame_num
              /\ f[p].needed_for_output = p.needed_for_output
        /\ d2 = [d1 EXCEPT !.pic_list = {f[p] : p \in d1.pic_list}]
  BY DEF Remarked
<1>1. d2.pic_list = {f[p] : p \in d1.pic_list}
  BY DEF Dpb
<1> PICK g \in [d2.pic_list -> Picture] :
        /\ \A p \in d2.pic_list :
              /\ g[p].id = p.id
              /\ g[p].order = p.order
              /\ g[p].poc = p.poc
              /\ g[p].frame_num = p.frame_num
              /\ g[p].needed_for_output = p.needed_for_output
        /\ d3 = [d2 EXCEPT !.pic_list = {g[p] : p \in d2.pic_list}]
  BY DEF Remarked
<1> DEFINE h == [p \in d1.pic_list |-> g[f[p]]]
<1>2. h \in [d1.pic_list -> Picture]
  BY <1>1
<1>3. \A p \in d1.pic_list :
              /\ h[p].id = p.id
              /\ h[p].order = p.order
              /\ h[p].poc = p.poc
              /\ h[p].frame_num = p.frame_num
              /\ h[p].needed_for_output = p.needed_for_output
  BY <1>1
<1>4. d3 = [d1 EXCEPT !.pic_list = {h[p] : p \in d1.pic_list}]
  <2>1. \A p \in d1.pic_list : h[p] = g[f[p]] /\ f[p] \in d2.pic_list
    BY <1>1
  <2>2. \A q \in d2.pic_list : \E p \in d1.pic_list : h[p] = g[q]
    BY <1>1, <2>1
  <2>3. {g[p] : p \in d2.pic_list} = {h[p] : p \in d1.pic_list}
    <3> HIDE DEF h
    <3> QED
      BY <2>1, <2>2
  <2> QED
    BY <2>3 DEF Dpb
<1> QED
  BY <1>2, <1>3, <1>4 DEF Remarked

LEMMA SetReferenceRemarks ==
  ASSUME NEW d \in Dpb, NEW S, NEW r \in References
  PROVE  Remarked(d, SetReference(d, S, r))
<1> DEFINE f == [p \in d.pic_list |-> IF p \in S THEN Marked(p, r) ELSE p]
<1>1. \A p \in Picture :
        /\ Marked(p, r) \in Picture
        /\ Marked(p, r).id = p.id
        /\ Marked(p, r).order = p.order
        /\ Marked(p, r).poc = p.poc
        /\ Marked(p, r).frame_num = p.frame_num
        /\ Marked(p, r).needed_for_output = p.needed_for_output
  BY DEF Marked, Picture, References
<1>2. f \in [d.pic_list -> Picture]
  BY <1>1 DEF Dpb
<1>3. \A p \in d.pic_list :
              /\ f[p].id = p.id
              /\ f[p].order = p.order
              /\ f[p].poc = p.poc
              /\ f[p].frame_num = p.frame_num
              /\ f[p].needed_for_output = p.needed_for_output
  BY <1>1 DEF Dpb
<1>4. {f[p] : p \in d.pic_list} = {IF p \in S THEN Marked(p, r) ELSE p : p \in d.pic_list}
  OBVIOUS
<1>5. SetReference(d, S, r) = [d EXCEPT !.pic_list = {f[p] : p \in d.pic_list}]
  BY <1>4 DEF SetReference, Dpb
<1> QED
  BY <1>2, <1>3, <1>5 DEF Remarked

LEMMA UpdatePicNumsRemarks ==
  ASSUME NEW d \in Dpb
  PROVE  Remarked(d, UpdatePicNums(d))
<1> DEFINE renumbered(p) == [p EXCEPT !.long_term_pic_num = p.long_term_frame_idx]
           f == [p \in d.pic_list |-> IF p.ref = "long" THEN renumbered(p) ELSE p]
<1>1. \A p \in Picture :
        /\ renumbered(p) \in Picture
        /\ renumbered(p).id = p.id
        /\ renumbered(p).order = p.order
        /\ renumbered(p).poc = p.poc
        /\ renumbered(p).frame_num = p.frame_num
        /\ renumbered(p).needed_for_output = p.needed_for_output
  BY DEF Picture
<1>2. f \in [d.pic_list -> Picture]
  BY <1>1 DEF Dpb
<1>3. \A p \in d.pic_list :
              /\ f[p].id = p.id
              /\ f[p].order = p.order
              /\ f[p].poc = p.poc
              /\ f[p].frame_num = p.frame_num
              /\ f[p].needed_for_output = p.needed_for_output
  BY <1>1 DEF Dpb
<1>4. {f[p] : p \in d.pic_list} =
        {IF p.ref = "long" THEN renumbered(p) ELSE p : p \in d.pic_list}
  OBVIOUS
<1>5. UpdatePicNums(d) = [d EXCEPT !.pic_list = {f[p] : p \in d.pic_list}]
  BY <1>4 DEF UpdatePicNums, Dpb
<1> QED
  BY <1>2, <1>3, <1>5 DEF Remarked

LEMMA AssignLongTermRemarks ==
  ASSUME NEW d \in Dpb, NEW S, NEW idx \in Nat
  PROVE  Remarked(d, AssignLongTerm(d, S, idx))
<1> DEFINE d1 == SetReference(d, S, "long")
           assigned(p) == [p EXCEPT !.long_term_frame_idx = idx]
           orders == {s.order : s \in S}
           f == [p \in d1.pic_list |-> IF p.order \in orders THEN assigned(p) ELSE p]
<1>1. Remarked(d, d1)
  BY SetReferenceRemarks DEF References
<1>2. d1 \in Dpb
  BY <1>1 DEF Remarked, Dpb
<1>3. \A p \in Picture :
        /\ assigned(p) \in Picture
        /\ assigned(p).id = p.id
        /\ assigned(p).order = p.order
        /\ assigned(p).poc = p.poc
        /\ assigned(p).frame_num = p.frame_num
        /\ assigned(p).needed_for_output = p.needed_for_output
  BY DEF Picture
<1>4. f \in [d1.pic_list -> Picture]
  BY <1>2, <1>3 DEF Dpb
<1>5. \A p \in d1.pic_list :
              /\ f[p].id = p.id
              /\ f[p].order = p.order
              /\ f[p].poc = p.poc
              /\ f[p].frame_num = p.frame_num
              /\ f[p].needed_for_output = p.needed_for_output
  BY <1>2, <1>3 DEF Dpb
<1>6. {f[p] : p \in d1.pic_list} =
        {IF p.order \in orders THEN assigned(p) ELSE p : p \in d1.pic_list}
  OBVIOUS
<1>7. AssignLongTerm(d, S, idx) = [d1 EXCEPT !.pic_list = {f[p] : p \in d1.pic_list}]
  BY <1>2, <1>6 DEF AssignLongTerm, Dpb
<1>8. Remarked(d1, AssignLongTerm(d, S, idx))
  BY <1>4, <1>5, <1>7 DEF Remarked
<1> QED
  BY <1>1, <1>8, RemarkedTransitive

LEMMA RemarkedSelf ==
  ASSUME NEW d \in Dpb
  PROVE  Remarked(d, d)
<1> DEFINE f == [p \in d.pic_list |-> p]
<1>1. f \in [d.pic_list -> Picture] /\ {f[p] : p \in d.pic_list} = d.pic_list
  BY DEF Dpb
<1>2. d = [d EXCEPT !.pic_list = {f[p] : p \in d.pic_list}]
  BY <1>1 DEF Dpb
<1> QED
  BY <1>1, <1>2 DEF Remarked

LEMMA MarkingRemarks ==
  ASSUME NEW d \in Dpb, NEW idx \in Nat, NEW n, NEW fn, NEW maxFrameNum, NEW refs
  PROVE  /\ Remarked(d, MarkAllNonRef(d))
         /\ Remarked(d, SlidingWindow(d, refs, fn, maxFrameNum))
         /\ Remarked(d, Mmco1(d, n, fn, maxFrameNum))
         /\ Remarked(d, Mmco2(d, n))
         /\ Remarked(d, Mmco3(d, n, idx, fn, maxFrameNum))
         /\ Remarked(d, Mmco4(d, n))
         /\ Remarked(d, Mmco6(d, idx))
<1>1. Remarked(d, Mmco3(d, n, idx, fn, maxFrameNum))
  <2> DEFINE other == ShortRefByPicNum(d, n, fn, maxFrameNum)
             d1 == SetReference(d, LongRefByIdx(d, idx), "none")
  <2>1. Remarked(d, d1)
    BY SetReferenceRemarks DEF References
  <2>2. d1 \in Dpb
    BY <2>1 DEF Remarked, Dpb
  <2>3. Remarked(d, AssignLongTerm(d1, other, idx))
    BY <2>1, <2>2, AssignLongTermRemarks, RemarkedTransitive
  <2> QED
    BY <2>3, RemarkedSelf DEF Mmco3
<1> QED
  BY <1>1, SetReferenceRemarks
     DEF References, MarkAllNonRef, SlidingWindow, Mmco1, Mmco2, Mmco4, Mmco6

-----------------------------------------------------------------------------
(* How many pictures and references an operation leaves, for the invariants*)
(* of a conforming stream.                                                 *)

(* No two long-term references of one index; none of index "idx".          *)
OneLong(d) ==
    \A p, q \in LongTermRefs(d) : p.long_term_frame_idx = q.long_term_frame_idx => p = q
Apart(d, idx) == \A p \in LongTermRefs(d) : p.long_term_frame_idx # idx

(* d2 has only pictures of d, and none of them is marked more than there.  *)
Unmarks(d, d2) ==
    /\ d2.max_num_frames = d.max_num_frames
    /\ \E f \in [d.pic_list -> Picture] :
        /\ \A p \in d.pic_list :
              /\ f[p].ref \in {p.ref, "none"}
              /\ f[p].long_term_frame_idx = p.long_term_frame_idx
        /\ d2.pic_list \subseteq {f[p] : p \in d.pic_list}

NumFrames(d) == Cardinality(d.pic_list)
NumReferences(d) == Cardinality(ReferenceFrames(d))
NumLongTerm(d) == Cardinality(LongTermRefs(d))

LEMMA ImageBound ==
  ASSUME NEW f, NEW A, IsFiniteSet(A), NEW B, \A b \in B : \E a \in A : b = f[a]
  PROVE  IsFiniteSet(B) /\ Cardinality(B) <= Cardinality(A)
<1> DEFINE T == {f[p] : p \in A}
           g == [p \in A |-> f[p]]
<1>1. g \in Surjection(A, T)
  BY DEF Surjection
<1>2. IsFiniteSet(T) /\ Cardinality(T) <= Cardinality(A)
  BY <1>1, FS_Surjection
<1>3. IsFiniteSet(B) /\ Cardinality(B) <= Cardinality(T)
  BY <1>2, FS_Subset
<1> QED
  BY <1>2, <1>3, FS_CardinalityType

LEMMA Counts ==
  ASSUME NEW d, DpbOk(d)
  PROVE  /\ IsFiniteSet(d.pic_list) /\ NumFrames(d) \in Nat
         /\ IsFiniteSet(ReferenceFrames(d)) /\ NumReferences(d) \in Nat
         /\ IsFiniteSet(LongTermRefs(d)) /\ NumLongTerm(d) \in Nat
         /\ IsFiniteSet(ShortTermRefs(d)) /\ Cardinality(ShortTermRefs(d)) \in Nat
         /\ NumReferences(d) = Cardinality(ShortTermRefs(d)) + NumLongTerm(d)
<1> DEFINE S == ShortTermRefs(d)
           L == LongTermRefs(d)
<1>1. IsFiniteSet(d.pic_list) /\ \A p \in d.pic_list : p.ref \in References
  BY DEF DpbOk, Placed, Dpb, Picture
<1>2. /\ ReferenceFrames(d) \in SUBSET d.pic_list
      /\ S \in SUBSET d.pic_list /\ L \in SUBSET d.pic_list
  BY DEF ReferenceFrames, ShortTermRefs, LongTermRefs
<1>3. IsFiniteSet(ReferenceFrames(d)) /\ IsFiniteSet(S) /\ IsFiniteSet(L)
  BY <1>1, <1>2, FS_Subset
<1>4. ReferenceFrames(d) = S \union L /\ S \cap L = {}
  BY <1>1 DEF ReferenceFrames, ShortTermRefs, LongTermRefs, References
<1>5. Cardinality(S \union L) = Cardinality(S) + Cardinality(L) - Cardinality(S \cap L)
  BY <1>3, FS_Union
<1>6. /\ Cardinality(S) \in Nat /\ Cardinality(L) \in Nat
      /\ Cardinality(d.pic_list) \in Nat /\ Cardinality(ReferenceFrames(d)) \in Nat
  BY <1>1, <1>3, FS_CardinalityType
<1>7. Cardinality(S \cap L) = 0
  BY <1>4, FS_EmptySet
<1> HIDE DEF S, L
<1>8. Cardinality(ReferenceFrames(d)) = Cardinality(S) + Cardinality(L)
  BY <1>4, <1>5, <1>6, <1>7
<1> QED
  BY <1>1, <1>3, <1>6, <1>8 DEF NumFrames, NumReferences, NumLongTerm, S, L

LEMMA UnmarksBounds ==
  ASSUME NEW d, DpbOk(d), NEW d2, Unmarks(d, d2)
  PROVE  /\ d2.max_num_frames = d.max_num_frames
         /\ NumFrames(d2) <= NumFrames(d)
         /\ NumReferences(d2) <= NumReferences(d)
         /\ NumLongTerm(d2) <= NumLongTerm(d)
         /\ OneLong(d) => OneLong(d2)
         /\ \A idx : Apart(d, idx) => Apart(d2, idx)
<1> PICK f \in [d.pic_list -> Picture] :
        /\ \A p \in d.pic_list :
              /\ f[p].ref \in {p.ref, "none"}
              /\ f[p].long_term_frame_idx = p.long_term_frame_idx
        /\ d2.pic_list \subseteq {f[p] : p \in d.pic_list}
  BY DEF Unmarks
<1>1. NumFrames(d2) <= NumFrames(d)
  <2>1. \A b \in d2.pic_list : \E a \in d.pic_list : b = f[a]
    OBVIOUS
  <2>2. IsFiniteSet(d.pic_list)
    BY Counts
  <2>3. Cardinality(d2.pic_list) <= Cardinality(d.pic_list)
    BY <2>1, <2>2, ImageBound
  <2> QED
    BY <2>3 DEF NumFrames
<1>2. \A b \in ReferenceFrames(d2) : \E a \in ReferenceFrames(d) : b = f[a]
  BY DEF ReferenceFrames
<1>3. NumReferences(d2) <= NumReferences(d)
  <2>1. IsFiniteSet(ReferenceFrames(d))
    BY Counts
  <2>2. Cardinality(ReferenceFrames(d2)) <= Cardinality(ReferenceFrames(d))
    BY <1>2, <2>1, ImageBound
  <2> QED
    BY <2>2 DEF NumReferences
<1>4. \A b \in LongTermRefs(d2) : \E a \in LongTermRefs(d) : b = f[a]
  BY DEF LongTermRefs
<1>5. NumLongTerm(d2) <= NumLongTerm(d)
  <2>1. IsFiniteSet(LongTermRefs(d))
    BY Counts
  <2>2. Cardinality(LongTermRefs(d2)) <= Cardinality(LongTermRefs(d))
    BY <1>4, <2>1, ImageBound
  <2> QED
    BY <2>2 DEF NumLongTerm
<1>6. \A p \in LongTermRefs(d) : f[p].long_term_frame_idx = p.long_term_frame_idx
  BY DEF LongTermRefs
<1>7. OneLong(d) => OneLong(d2)
  BY <1>4, <1>6 DEF OneLong
<1>8. \A idx : Apart(d, idx) => Apart(d2, idx)
  BY <1>4, <1>6 DEF Apart
<1> QED
  BY <1>1, <1>3, <1>5, <1>7, <1>8 DEF Unmarks

-----------------------------------------------------------------------------
LEMMA SetReferenceUnmarks ==
  ASSUME NEW d \in Dpb, NEW S
  PROVE  /\ Unmarks(d, SetReference(d, S, "none"))
         /\ ReferenceFrames(SetReference(d, S, "none")) = ReferenceFrames(d) \ S
<1> DEFINE f == [p \in d.pic_list |-> IF p \in S THEN Marked(p, "none") ELSE p]
           d2 == SetReference(d, S, "none")
<1>1. \A p \in Picture :
        /\ Marked(p, "none") \in Picture /\ Marked(p, "none").ref = "none"
        /\ Marked(p, "none").long_term_frame_idx = p.long_term_frame_idx
  BY DEF Marked, Picture, References
<1>2. f \in [d.pic_list -> Picture]
  BY <1>1 DEF Dpb
<1>3. \A p \in d.pic_list :
        /\ f[p].ref \in {p.ref, "none"}
        /\ f[p].long_term_frame_idx = p.long_term_frame_idx
  BY <1>1 DEF Dpb
<1>4. /\ d2.pic_list = {IF p \in S THEN Marked(p, "none") ELSE p : p \in d.pic_list}
      /\ d2.max_num_frames = d.max_num_frames
  BY DEF SetReference, Dpb
<1>5. d2.pic_list = {f[p] : p \in d.pic_list}
  BY <1>4
<1>6. Unmarks(d, d2)
  BY <1>2, <1>3, <1>4, <1>5 DEF Unmarks
<1>7. ReferenceFrames(d2) = ReferenceFrames(d) \ S
  <2>1. \A p \in d.pic_list : p \in S => Marked(p, "none").ref = "none"
    BY <1>1 DEF Dpb
  <2> QED
    BY <1>4, <2>1 DEF ReferenceFrames
<1> QED
  BY <1>6, <1>7

LEMMA UpdatePicNumsUnmarks ==
  ASSUME NEW d \in Dpb
  PROVE  /\ Unmarks(d, UpdatePicNums(d))
         /\ \A p \in UpdatePicNums(d).pic_list : p.needed_for_output \in BOOLEAN
<1> DEFINE renumbered(p) == [p EXCEPT !.long_term_pic_num = p.long_term_frame_idx]
           f == [p \in d.pic_list |-> IF p.ref = "long" THEN renumbered(p) ELSE p]
<1>1. \A p \in Picture :
        /\ renumbered(p) \in Picture
        /\ renumbered(p).ref = p.ref
        /\ renumbered(p).long_term_frame_idx = p.long_term_frame_idx
  BY DEF Picture
<1>2. f \in [d.pic_list -> Picture]
  BY <1>1 DEF Dpb
<1>3. \A p \in d.pic_list :
        /\ f[p].ref \in {p.ref, "none"}
        /\ f[p].long_term_frame_idx = p.long_term_frame_idx
  BY <1>1 DEF Dpb
<1>4. UpdatePicNums(d).pic_list =
        {IF p.ref = "long" THEN renumbered(p) ELSE p : p \in d.pic_list}
  BY DEF UpdatePicNums, Dpb
<1>5. UpdatePicNums(d).pic_list = {f[p] : p \in d.pic_list}
  BY <1>4
<1>6. UpdatePicNums(d).max_num_frames = d.max_num_frames
  BY DEF UpdatePicNums, Dpb
<1> QED
  BY <1>2, <1>3, <1>5, <1>6 DEF Unmarks, Picture

LEMMA DeleteUnusedUnmarks ==
  ASSUME NEW d \in Dpb
  PROVE  /\ Unmarks(d, DeleteUnused(d))
         /\ Unused(DeleteUnused(d)) = {}
         /\ ReferenceFrames(DeleteUnused(d)) = ReferenceFrames(d)
<1> DEFINE f == [p \in d.pic_list |-> p]
<1>1. f \in [d.pic_list -> Picture] /\ {f[p] : p \in d.pic_list} = d.pic_list
  BY DEF Dpb
<1>2. /\ DeleteUnused(d).pic_list = d.pic_list \ Unused(d)
      /\ DeleteUnused(d).max_num_frames = d.max_num_frames
  BY DEF DeleteUnused, Dpb
<1>3. Unmarks(d, DeleteUnused(d))
  BY <1>1, <1>2 DEF Unmarks
<1> QED
  BY <1>2, <1>3 DEF Unused, ReferenceFrames

LEMMA BumpUnmarks ==
  ASSUME NEW d, DpbOk(d), NEW p \in NeededForOutput(d), NEW drain \in BOOLEAN
  PROVE  /\ Unmarks(d, Bump(d, p, drain))
         /\ ~drain /\ Unused(d) = {} => Unused(Bump(d, p, drain)) = {}
<1> DEFINE f == [q \in d.pic_list |-> IF q = p THEN Output(p) ELSE q]
           d2 == Bump(d, p, drain)
<1>1. p \in d.pic_list /\ p \in Picture /\ d \in Dpb
  BY DEF NeededForOutput, DpbOk, Dpb
<1>2. /\ Output(p) \in Picture /\ Output(p).ref = p.ref
      /\ Output(p).long_term_frame_idx = p.long_term_frame_idx
  BY <1>1 DEF Output, Picture
<1>3. /\ d2.pic_list =
           (d.pic_list \ {p}) \union (IF Leaves(p, drain) THEN {} ELSE {Output(p)})
      /\ d2.max_num_frames = d.max_num_frames
  BY <1>1 DEF Bump, SetLastOutput, Dpb
<1> HIDE DEF d2
<1>4. f \in [d.pic_list -> Picture]
  BY <1>2 DEF DpbOk, Dpb
<1>5. \A q \in d.pic_list :
        /\ f[q].ref \in {q.ref, "none"}
        /\ f[q].long_term_frame_idx = q.long_term_frame_idx
  BY <1>2
<1>6. d2.pic_list \subseteq {f[q] : q \in d.pic_list}
  BY <1>1, <1>3
<1>7. Unmarks(d, d2)
  BY <1>3, <1>4, <1>5, <1>6 DEF Unmarks
<1>8. ~drain /\ Unused(d) = {} => Unused(d2) = {}
  BY <1>2, <1>3 DEF Unused, Leaves
<1> QED
  BY <1>7, <1>8 DEF d2

(* All the operations but the one that assigns a long-term index.          *)
LEMMA MarkingUnmarks ==
  ASSUME NEW d \in Dpb, NEW idx, NEW n, NEW fn, NEW maxFrameNum, NEW refs
  PROVE  /\ Unmarks(d, MarkAllNonRef(d))
         /\ ReferenceFrames(MarkAllNonRef(d)) = {}
         /\ Unmarks(d, SlidingWindow(d, refs, fn, maxFrameNum))
         /\ Unmarks(d, Mmco1(d, n, fn, maxFrameNum))
         /\ Unmarks(d, Mmco2(d, n))
         /\ Unmarks(d, Mmco4(d, n))
         /\ Unmarks(d, Mmco6(d, idx))
BY SetReferenceUnmarks
   DEF MarkAllNonRef, ReferenceFrames, SlidingWindow, Mmco1, Mmco2, Mmco4, Mmco6

LEMMA UnmarksSelf ==
  ASSUME NEW d \in Dpb
  PROVE  Unmarks(d, d)
<1> DEFINE f == [p \in d.pic_list |-> p]
<1>1. f \in [d.pic_list -> Picture] /\ {f[p] : p \in d.pic_list} = d.pic_list
  BY DEF Dpb
<1> QED
  BY <1>1 DEF Unmarks, Dpb, Picture

(* An index freed by operation 3 or 6 is free.                             *)
LEMMA IndexFreed ==
  ASSUME NEW d \in Dpb, DpbOk(d), OneLong(d), NEW idx
  PROVE  LET d2 == SetReference(d, LongRefByIdx(d, idx), "none")
         IN  Apart(d2, idx) /\ OneLong(d2)
<1> DEFINE S == LongRefByIdx(d, idx)
           d2 == SetReference(d, S, "none")
<1>1. OneLong(d2)
  BY SetReferenceUnmarks, UnmarksBounds
<1>2. \A p \in LongTermRefs(d) : p.long_term_frame_idx = idx => p \in S
  <2> SUFFICES ASSUME NEW p \in LongTermRefs(d), p.long_term_frame_idx = idx
               PROVE  p \in S
    OBVIOUS
  <2>1. \A q \in LongTermRefs(d) : q.long_term_frame_idx = idx => q = p
    BY DEF OneLong
  <2>2. p.order \in Nat
    BY DEF LongTermRefs, Dpb, Picture
  <2>3. ~Before(p, p)
    BY <2>2 DEF Before
  <2> QED
    BY <2>1, <2>3 DEF LongRefByIdx, First
<1>3. \A p \in d.pic_list : Marked(p, "none").ref = "none"
  BY DEF Marked, Dpb, Picture
<1>4. d2.pic_list = {IF p \in S THEN Marked(p, "none") ELSE p : p \in d.pic_list}
  BY DEF SetReference, Dpb
<1>5. LongTermRefs(d2) \subseteq LongTermRefs(d) \ S
  <2> HIDE DEF S
  <2> QED
    BY <1>3, <1>4 DEF LongTermRefs
<1>6. Apart(d2, idx)
  <2> HIDE DEF S, d2
  <2> QED
    BY <1>2, <1>5 DEF Apart
<1> QED
  BY <1>1, <1>6

(* Operation 3 makes one short-term reference a long-term one.             *)
LEMMA Mmco3Bounds ==
  ASSUME NEW d \in Dpb, DpbOk(d), NEW n, NEW idx \in Nat, NEW fn, NEW maxFrameNum
  PROVE  LET d2 == Mmco3(d, n, idx, fn, maxFrameNum)
         IN  /\ d2.max_num_frames = d.max_num_frames
             /\ NumFrames(d2) <= NumFrames(d)
             /\ NumReferences(d2) <= NumReferences(d)
             /\ OneLong(d) => OneLong(d2)
             /\ \A i : i # idx /\ Apart(d, i) => Apart(d2, i)
<1> DEFINE other == ShortRefByPicNum(d, n, fn, maxFrameNum)
           d1 == SetReference(d, LongRefByIdx(d, idx), "none")
           d2 == AssignLongTerm(d1, other, idx)
           orders == {s.order : s \in other}
           f == [p \in d1.pic_list |->
                   IF p.order \in orders
                   THEN [(IF p \in other THEN Marked(p, "long") ELSE p)
                           EXCEPT !.long_term_frame_idx = idx]
                   ELSE p]
<1>1. CASE other = {}
  <2>1. Mmco3(d, n, idx, fn, maxFrameNum) = d
    BY <1>1 DEF Mmco3
  <2> QED
    BY <2>1, UnmarksSelf, UnmarksBounds
<1>2. CASE other # {}
  <2>1. Mmco3(d, n, idx, fn, maxFrameNum) = d2
    BY <1>2 DEF Mmco3
  <2>2. Unmarks(d, d1) /\ Remarked(d, d1)
    BY SetReferenceUnmarks, SetReferenceRemarks DEF References
  <2>3. /\ DpbOk(d1) /\ d1 \in Dpb /\ d1.max_num_frames = d.max_num_frames
        /\ NumFrames(d1) <= NumFrames(d)
        /\ NumReferences(d1) <= NumReferences(d)
        /\ \A i : Apart(d, i) => Apart(d1, i)
    BY <2>2, RemarkedOk, UnmarksBounds DEF DpbOk
  <2>4. \A p \in other :
          /\ p \in d1.pic_list /\ p.ref = "short"
          /\ \A q \in d1.pic_list : q.order = p.order => q = p
    <3>1. \A p \in other : p \in d.pic_list /\ p.ref = "short" /\ p \notin LongRefByIdx(d, idx)
      BY DEF ShortRefByPicNum, LongRefByIdx, First, ShortTermRefs, LongTermRefs
    <3>2. \A p \in other : p \in d1.pic_list
      <4>1. d1.pic_list = {IF p \in LongRefByIdx(d, idx) THEN Marked(p, "none") ELSE p :
                             p \in d.pic_list}
        BY DEF SetReference, Dpb
      <4> QED
        BY <3>1, <4>1
    <3> HIDE DEF other, d1
    <3> QED
      BY <2>3, <3>1, <3>2 DEF DpbOk, Placed
  <2>5. \A p, q \in other : p = q
    <3>1. \A p, q \in other : ~Before(p, q) /\ p.order \in Nat /\ q.order \in Nat
      BY DEF ShortRefByPicNum, First, ShortTermRefs, Dpb, Picture
    <3>2. \A p, q \in other : p.order = q.order
      BY <3>1 DEF Before
    <3> HIDE DEF other, d1
    <3> QED
      BY <2>4, <3>2
  <2>6. /\ d2.pic_list = {IF p.order \in orders
                          THEN [p EXCEPT !.long_term_frame_idx = idx] ELSE p :
                            p \in {IF q \in other THEN Marked(q, "long") ELSE q :
                                     q \in d1.pic_list}}
        /\ d2.max_num_frames = d1.max_num_frames
    <3> HIDE DEF other, d1
    <3> QED
      BY <2>3 DEF AssignLongTerm, SetReference, Dpb
  <2>7. \A q \in Picture : Marked(q, "long").order = q.order
    BY DEF Marked, Picture
  <2>8. \A b \in d2.pic_list : \E p \in d1.pic_list : b = f[p]
    <3> HIDE DEF other, d1, orders, d2
    <3>1. d1.pic_list \subseteq Picture
      BY <2>3 DEF Dpb
    <3> SUFFICES ASSUME NEW b \in d2.pic_list PROVE \E p \in d1.pic_list : b = f[p]
      OBVIOUS
    <3> PICK p \in d1.pic_list :
          LET q == IF p \in other THEN Marked(p, "long") ELSE p
          IN  b = IF q.order \in orders THEN [q EXCEPT !.long_term_frame_idx = idx] ELSE q
      BY <2>6
    <3>2. Marked(p, "long").order = p.order
      BY <2>7, <3>1
    <3>3. b = f[p]
      <4>1. CASE p \in other
        <5>1. p.order \in orders
          BY <4>1 DEF orders
        <5> QED
          BY <3>2, <4>1, <5>1
      <4>2. CASE p \notin other
        BY <4>2
      <4> QED
        BY <4>1, <4>2
    <3> QED
      BY <3>3
  <2>9. \A p \in d1.pic_list :
          \/ p \notin other /\ f[p] = p
          \/ p \in other /\ f[p].ref = "long" /\ f[p].long_term_frame_idx = idx
    <3>1. d1.pic_list \subseteq Picture
      BY <2>3 DEF Dpb
    <3> HIDE DEF other, d1, d2
    <3>2. \A p \in d1.pic_list : p.order \in orders <=> p \in other
      BY <2>4
    <3>3. \A p \in Picture :
            /\ [Marked(p, "long") EXCEPT !.long_term_frame_idx = idx].ref = "long"
            /\ [Marked(p, "long") EXCEPT !.long_term_frame_idx = idx].long_term_frame_idx = idx
      BY DEF Marked, Picture
    <3> HIDE DEF orders
    <3> QED
      BY <3>1, <3>2, <3>3
  <2> HIDE DEF f, other, d1, d2, orders
  <2>10. NumFrames(d2) <= NumFrames(d1)
    BY <2>3, <2>8, Counts, ImageBound DEF NumFrames
  <2>11. NumReferences(d2) <= NumReferences(d1)
    <3>1. \A b \in ReferenceFrames(d2) : \E p \in ReferenceFrames(d1) : b = f[p]
      BY <2>4, <2>8, <2>9 DEF ReferenceFrames
    <3>2. IsFiniteSet(ReferenceFrames(d1))
      BY <2>3, Counts
    <3> QED
      BY <3>1, <3>2, ImageBound DEF NumReferences
  <2>12. \A b \in LongTermRefs(d2) :
           \/ b \in LongTermRefs(d1)
           \/ \E p \in other : b = f[p] /\ b.long_term_frame_idx = idx
    BY <2>8, <2>9 DEF LongTermRefs
  <2>13. OneLong(d) => OneLong(d2)
    <3>1. OneLong(d) => Apart(d1, idx) /\ OneLong(d1)
      BY IndexFreed DEF d1
    <3> QED
      BY <2>5, <2>12, <3>1 DEF OneLong, Apart
  <2>14. \A i : i # idx /\ Apart(d, i) => Apart(d2, i)
    BY <2>3, <2>12 DEF Apart
  <2>15. /\ NumFrames(d) \in Nat /\ NumFrames(d1) \in Nat
         /\ NumReferences(d) \in Nat /\ NumReferences(d1) \in Nat
    BY <2>3, Counts
  <2>16. NumFrames(d2) \in Int /\ NumReferences(d2) \in Int
    <3>1. Remarked(d1, d2)
      BY <2>3, AssignLongTermRemarks DEF d2
    <3> QED
      BY <2>3, <3>1, RemarkedOk, Counts
  <2> QED
    BY <2>1, <2>3, <2>6, <2>10, <2>11, <2>13, <2>14, <2>15, <2>16
<1> QED
  BY <1>1, <1>2

(* Storing a picture, of which "order" and "needed_for_output" change.     *)
LEMMA DpbAddBounds ==
  ASSUME NEW d, DpbOk(d), NEW p \in Picture
  PROVE  /\ DpbAdd(d, p).max_num_frames = d.max_num_frames
         /\ NumFrames(DpbAdd(d, p)) <= NumFrames(d) + 1
         /\ NumReferences(DpbAdd(d, p)) <=
              IF p.ref = "none" THEN NumReferences(d) ELSE NumReferences(d) + 1
         /\ p.ref # "long" => LongTermRefs(DpbAdd(d, p)) = LongTermRefs(d)
         /\ OneLong(d) /\ (p.ref = "long" => Apart(d, p.long_term_frame_idx))
              => OneLong(DpbAdd(d, p))
<1> DEFINE q == [p EXCEPT !.order = d.tail, !.needed_for_output = ~p.nonexisting]
           d2 == DpbAdd(d, p)
<1>1. q.ref = p.ref /\ q.long_term_frame_idx = p.long_term_frame_idx
  BY DEF Picture
<1>2. d2.pic_list = d.pic_list \union {q} /\ d2.max_num_frames = d.max_num_frames
  BY DEF DpbAdd, DpbOk, Dpb
<1> HIDE DEF q, d2
<1>3. NumFrames(d2) <= NumFrames(d) + 1
  <2>1. Cardinality(d.pic_list \union {q}) <= Cardinality(d.pic_list) + 1
    <3>1. IsFiniteSet(d.pic_list) /\ Cardinality(d.pic_list) \in Nat
      BY Counts DEF NumFrames
    <3>2. Cardinality(d.pic_list \union {q}) =
            IF q \in d.pic_list THEN Cardinality(d.pic_list) ELSE Cardinality(d.pic_list) + 1
      BY <3>1, FS_AddElement
    <3> QED
      BY <3>1, <3>2
  <2> QED
    BY <1>2, <2>1 DEF NumFrames
<1>4. NumReferences(d2) <= IF p.ref = "none" THEN NumReferences(d) ELSE NumReferences(d) + 1
  <2>1. NumReferences(d) \in Nat /\ IsFiniteSet(ReferenceFrames(d))
    BY Counts
  <2>2. CASE p.ref = "none"
    <3>1. ReferenceFrames(d2) = ReferenceFrames(d)
      BY <1>1, <1>2, <2>2 DEF ReferenceFrames
    <3> QED
      BY <2>1, <2>2, <3>1 DEF NumReferences
  <2>3. CASE p.ref # "none"
    <3>1. ReferenceFrames(d2) = ReferenceFrames(d) \union {q}
      BY <1>1, <1>2, <2>3 DEF ReferenceFrames
    <3>2. Cardinality(ReferenceFrames(d) \union {q}) <= Cardinality(ReferenceFrames(d)) + 1
      BY <2>1, FS_AddElement DEF NumReferences
    <3> QED
      BY <2>3, <3>1, <3>2 DEF NumReferences
  <2> QED
    BY <2>2, <2>3
<1>5. p.ref # "long" => LongTermRefs(d2) = LongTermRefs(d)
  BY <1>1, <1>2 DEF LongTermRefs
<1>6. OneLong(d) /\ (p.ref = "long" => Apart(d, p.long_term_frame_idx)) => OneLong(d2)
  BY <1>1, <1>2 DEF OneLong, Apart, LongTermRefs
<1> QED
  BY <1>2, <1>3, <1>4, <1>5, <1>6 DEF d2

-----------------------------------------------------------------------------
(* R orders S strictly and totally.                                        *)
Orders(R, S) ==
    /\ \A p \in S : <<p, p>> \notin R
    /\ \A p, q, r \in S : <<p, q>> \in R /\ <<q, r>> \in R => <<p, r>> \in R
    /\ \A p, q \in S : p = q \/ <<p, q>> \in R \/ <<q, p>> \in R

(* Then at least k elements of S have fewer than k elements before them.   *)
LEMMA Ranking ==
  ASSUME NEW S, IsFiniteSet(S), NEW R, Orders(R, S), NEW k \in Nat,
         k <= Cardinality(S), NEW V,
         V = {p \in S : Cardinality({q \in S : <<q, p>> \in R}) < k}
  PROVE  IsFiniteSet(V) /\ Cardinality(V) >= k
<1> DEFINE n == Cardinality(S)
           down(p) == {q \in S : <<q, p>> \in R}
           rank == [p \in S |-> Cardinality(down(p))]
           T == 0 .. (n - 1)
           K == 0 .. (k - 1)
<1>1. n \in Nat
  BY FS_CardinalityType
<1>2. ASSUME NEW p \in S
      PROVE  IsFiniteSet(down(p)) /\ Cardinality(down(p)) \in Nat
  <2>1. IsFiniteSet(down(p))
    BY FS_Subset
  <2> QED
    BY <2>1, FS_CardinalityType
<1>3. ASSUME NEW p \in S
      PROVE  Cardinality(down(p)) <= n - 1
  <2>1. IsFiniteSet(S \ {p}) /\ Cardinality(S \ {p}) = n - 1
    BY FS_RemoveElement
  <2>2. down(p) \in SUBSET (S \ {p})
    BY DEF Orders
  <2>3. Cardinality(down(p)) <= Cardinality(S \ {p})
    BY <2>1, <2>2, FS_Subset
  <2> QED
    BY <2>1, <2>3
<1>4. ASSUME NEW p \in S, NEW q \in S, <<p, q>> \in R
      PROVE  Cardinality(down(p)) < Cardinality(down(q))
  <2>1. p \notin down(p) /\ down(p) \union {p} \in SUBSET down(q)
    BY <1>4 DEF Orders
  <2>2. Cardinality(down(p) \union {p}) = Cardinality(down(p)) + 1
    BY <1>2, <2>1, FS_AddElement
  <2>3. Cardinality(down(p) \union {p}) <= Cardinality(down(q))
    BY <1>2, <2>1, FS_Subset
  <2> HIDE DEF down
  <2> QED
    BY <1>2, <2>2, <2>3
<1>5. rank \in Injection(S, T)
  <2>1. rank \in [S -> T]
    <3> HIDE DEF down, n
    <3> QED
      BY <1>1, <1>2, <1>3
  <2>2. \A p, q \in S : rank[p] = rank[q] => p = q
    <3> SUFFICES ASSUME NEW p \in S, NEW q \in S, rank[p] = rank[q] PROVE p = q
      OBVIOUS
    <3>1. Cardinality(down(p)) = Cardinality(down(q))
      OBVIOUS
    <3>2. p = q \/ <<p, q>> \in R \/ <<q, p>> \in R
      BY DEF Orders
    <3> HIDE DEF down, rank
    <3> QED
      BY <1>2, <1>4, <3>1, <3>2
  <2> HIDE DEF rank, T
  <2> QED
    BY <2>1, <2>2 DEF Injection, IsInjective
<1>6. IsFiniteSet(T) /\ Cardinality(T) = n
  <2> HIDE DEF n
  <2>1. n - 1 \in Int /\ 0 \in Int
    BY <1>1
  <2>2. IsFiniteSet(T) /\ Cardinality(T) = IF 0 > n - 1 THEN 0 ELSE n - 1 - 0 + 1
    BY <2>1, FS_Interval
  <2> QED
    BY <1>1, <2>2
<1>7. rank \in Surjection(S, T)
  <2> HIDE DEF rank, T
  <2> QED
    BY <1>5, <1>6, FS_Injection
<1>8. V = {p \in S : Cardinality(down(p)) < k} /\ IsFiniteSet(V)
  BY FS_Subset
<1>9. IsFiniteSet(K) /\ Cardinality(K) = k
  <2>1. k - 1 \in Int /\ 0 \in Int
    OBVIOUS
  <2>2. IsFiniteSet(K) /\ Cardinality(K) = IF 0 > k - 1 THEN 0 ELSE k - 1 - 0 + 1
    BY <2>1, FS_Interval
  <2> QED
    BY <2>2
<1>10. \A i \in K : \E p \in V : i = rank[p]
  <2>1. K \subseteq T
    <3>1. k <= n
      OBVIOUS
    <3> HIDE DEF n
    <3> QED
      BY <1>1, <3>1
  <2>2. \A i \in T : \E p \in S : rank[p] = i
    <3> HIDE DEF rank, T
    <3> QED
      BY <1>7 DEF Surjection
  <2>3. \A i \in K : i < k
    OBVIOUS
  <2> HIDE DEF down, T, K
  <2> QED
    BY <1>8, <2>1, <2>2, <2>3
<1>11. Cardinality(K) <= Cardinality(V)
  <2> HIDE DEF rank, K
  <2> QED
    BY <1>8, <1>10, ImageBound
<1>12. Cardinality(V) \in Nat
  BY <1>8, FS_CardinalityType
<1> HIDE DEF K
<1>13. Cardinality(V) >= k
  BY <1>9, <1>11, <1>12
<1> QED
  BY <1>8, <1>13

(* Some picture is the lowest of those that wait for their output.         *)
LEMMA LowestExists ==
  ASSUME NEW d, DpbOk(d), NeededForOutput(d) # {}
  PROVE  \E low \in NeededForOutput(d) : IsLowestOutputNeeded(d, low)
<1> DEFINE N == NeededForOutput(d)
           below(p, q) == p.poc < q.poc \/ (p.poc = q.poc /\ Before(p, q))
           R == {e \in N \X N : below(e[1], e[2])}
           V == {p \in N : Cardinality({q \in N : <<q, p>> \in R}) < 1}
<1>1. IsFiniteSet(N) /\ Cardinality(N) \in Nat
  BY NeededFinite
<1>2. 1 <= Cardinality(N)
  <2> HIDE DEF N
  <2> QED
    BY <1>1, FS_EmptySet DEF N
<1>3. \A p \in N : p.poc \in Int /\ p.order \in Nat
  BY DEF NeededForOutput, DpbOk, Dpb, Picture
<1>4. \A p, q \in N : p.order = q.order => p = q
  BY DEF NeededForOutput, DpbOk, Placed
<1> HIDE DEF N
<1>5. \A p, q \in N : <<p, q>> \in R <=> below(p, q)
  OBVIOUS
<1> HIDE DEF R
<1>6. Orders(R, N)
  BY <1>3, <1>4, <1>5 DEF Before, Orders
<1>7. IsFiniteSet(V) /\ Cardinality(V) >= 1
  BY <1>1, <1>2, <1>6, Ranking
<1>8. V # {}
  <2> HIDE DEF V
  <2> QED
    BY <1>7, FS_EmptySet
<1> PICK low \in V : TRUE
  BY <1>8
<1>9. {q \in N : <<q, low>> \in R} = {}
  <2> DEFINE D == {q \in N : <<q, low>> \in R}
  <2>1. IsFiniteSet(D) /\ Cardinality(D) < 1
    BY <1>1, FS_Subset
  <2> HIDE DEF D
  <2>2. Cardinality(D) = 0
    BY <2>1, FS_CardinalityType
  <2>3. D = {}
    BY <2>1, <2>2, FS_EmptySet
  <2> QED
    BY <2>3 DEF D
<1>10. \A q \in N : ~below(q, low)
  BY <1>5, <1>9
<1>11. \A q \in N : low.poc < q.poc \/ (low.poc = q.poc /\ ~Before(q, low))
  BY <1>3, <1>10
<1> QED
  BY <1>11 DEF IsLowestOutputNeeded, N

(* A picture nobody waits for and that is no reference is deleted, so that *)
(* what is left when nothing waits for its output are the references.      *)
LEMMA OnlyReferences ==
  ASSUME NEW d, DpbOk(d), NeededForOutput(d) = {}, Unused(d) = {}
  PROVE  NumFrames(d) <= NumReferences(d)
<1>1. d.pic_list \in SUBSET ReferenceFrames(d)
  BY DEF NeededForOutput, Unused, ReferenceFrames
<1> QED
  BY <1>1, Counts, FS_Subset DEF NumFrames, NumReferences

(* Unless it fails, the sliding window leaves room for a reference.        *)
LEMMA SlidingWindowRoom ==
  ASSUME NEW d, DpbOk(d), NEW refs \in Nat, NEW fn \in Int, NEW maxFrameNum \in Int,
         ~SlidingWindowFails(d, refs)
  PROVE  \/ refs = 0
         \/ NumReferences(SlidingWindow(d, refs, fn, maxFrameNum)) < refs
<1> SUFFICES ASSUME refs # 0
             PROVE  NumReferences(SlidingWindow(d, refs, fn, maxFrameNum)) < refs
  OBVIOUS
<1> DEFINE S == ShortTermRefs(d)
           k == Excess(d, refs)
           V == SlidingVictims(d, refs, fn, maxFrameNum)
           R == {e \in S \X S : Older(e[1], e[2], fn, maxFrameNum)}
           F == ReferenceFrames(d)
<1>1. /\ IsFiniteSet(S) /\ Cardinality(S) \in Nat
      /\ IsFiniteSet(F) /\ Cardinality(F) \in Nat
      /\ k = Cardinality(F) - refs + 1 /\ k <= Cardinality(S)
  BY Counts DEF NumReferences, SlidingWindowFails, Excess
<1>2. V \in SUBSET S /\ S \in SUBSET F
  BY DEF SlidingVictims, ShortTermRefs, ReferenceFrames
<1>3. IsFiniteSet(V) /\ Cardinality(V) \in Nat
  BY <1>1, <1>2, FS_Subset, FS_CardinalityType
<1>4. k >= 0 => Cardinality(V) >= k
  <2> SUFFICES ASSUME k >= 0 PROVE Cardinality(V) >= k
    OBVIOUS
  <2>1. k \in Nat
    BY <1>1
  <2>2. \A p \in S : p.frame_num \in Nat /\ p.order \in Nat
    BY DEF ShortTermRefs, DpbOk, Dpb, Picture
  <2>3. \A p, q \in S : p.order = q.order => p = q
    BY DEF ShortTermRefs, DpbOk, Placed
  <2>4. \A p \in S : FrameNumWrap(p, fn, maxFrameNum) \in Int
    BY <2>2 DEF FrameNumWrap
  <2>5. V = {p \in S : Cardinality({q \in S : <<q, p>> \in R}) < k}
    <3>1. \A p \in S : {q \in S : Older(q, p, fn, maxFrameNum)} = {q \in S : <<q, p>> \in R}
      OBVIOUS
    <3> HIDE DEF R, k
    <3> QED
      BY <3>1 DEF SlidingVictims, k
  <2> HIDE DEF S, k, V
  <2>6. \A p, q \in S : <<p, q>> \in R <=> Older(p, q, fn, maxFrameNum)
    OBVIOUS
  <2> HIDE DEF R
  <2>7. Orders(R, S)
    BY <2>2, <2>3, <2>4, <2>6 DEF Older, Before, Orders
  <2>8. IsFiniteSet(S) /\ k <= Cardinality(S)
    BY <1>1
  <2> SUFFICES ASSUME NEW shorts, shorts = S, NEW n, n = k, NEW first, first = V,
                      NEW older, older = R
               PROVE  Cardinality(first) >= n
    OBVIOUS
  <2>9. /\ IsFiniteSet(shorts) /\ Orders(older, shorts)
        /\ n \in Nat /\ n <= Cardinality(shorts)
        /\ first = {p \in shorts : Cardinality({q \in shorts : <<q, p>> \in older}) < n}
    BY <2>1, <2>5, <2>7, <2>8
  <2> QED
    BY <2>9, Ranking
<1>5. ReferenceFrames(SlidingWindow(d, refs, fn, maxFrameNum)) = F \ V
  BY SetReferenceUnmarks DEF SlidingWindow, DpbOk
<1>6. Cardinality(F \ V) = Cardinality(F) - Cardinality(V)
  <2>1. F \cap V = V
    BY <1>2
  <2>2. Cardinality(F \ V) = Cardinality(F) - Cardinality(F \cap V)
    BY <1>1, <1>3, FS_Difference
  <2> HIDE DEF F, V
  <2> QED
    BY <2>1, <2>2
<1> HIDE DEF F, V, S, k
<1>7. Cardinality(F \ V) < refs
  BY <1>1, <1>3, <1>4, <1>6
<1> QED
  BY <1>5, <1>7 DEF NumReferences

-----------------------------------------------------------------------------
(* The current access unit is being parsed; its picture is under way.      *)
InHeaders == phase \in {"nals", "newseq"} \/ (phase = "drain" /\ after = "newseq")
InPicture ==
    \/ phase \in {"gap", "gapbump", "slices", "marking", "bump"}
    \/ phase = "drain" /\ after \in {"slices", "bump"}

CurrentPicture ==
    /\ InPicture => cur.id = aus
    /\ ~InPicture /\ phase # "fail" => cur.id = 0
    /\ cur.id \in {0, aus}
    /\ cur.nonexisting = FALSE
    /\ cur.frame_num \in 0..(MaxFrameNum - 1)

(* The picture in progress is not in the buffer yet; what is there came    *)
(* with this access unit or an earlier one.                                *)
StoredEarlier ==
    /\ InHeaders \/ InPicture \/ phase = "fail" => aus # 0 /\ aus \notin Ids(dpb.pic_list)
    /\ \A n \in Ids(dpb.pic_list) : n <= aus

IInv == TypeOK /\ DpbOk(dpb) /\ CurrentPicture /\ StoredEarlier
-----------------------------------------------------------------------------
LEMMA HdrTypes ==
  ASSUME NEW h \in Slices \union {NoSlice}
  PROVE  /\ h.frame_num \in 0..(MaxFrameNum - 1)
         /\ h.poc \in Int
         /\ h.ref \in BOOLEAN
<1>1. CASE h \in IdrSlices
  <2>1. h.frame_num = 0 /\ h.poc = 0
    BY <1>1 DEF IdrSlices
  <2>2. h.ref \in BOOLEAN
    BY <1>1 DEF IdrSlices
  <2>3. 0 \in 0..(MaxFrameNum - 1)
    BY ConstantsAssumption
  <2> QED
    BY <2>1, <2>2, <2>3
<1>2. CASE h \in OtherSlices
  BY <1>2, ConstantsAssumption DEF OtherSlices
<1>3. CASE h = NoSlice
  BY <1>3, ConstantsAssumption DEF NoSlice
<1> QED
  BY <1>1, <1>2, <1>3 DEF Slices

LEMMA SpsTypes ==
  ASSUME NEW s \in SpsSet \union {NoSps}, NEW size \in Nat
  PROVE  s.size \in Nat /\ ReorderFrames(s, size) \in Nat
BY ConstantsAssumption DEF NoSps, ReorderFrames

LEMMA FollowingType ==
  ASSUME NEW n \in 0..(MaxFrameNum - 1)
  PROVE  Following(n) \in 0..(MaxFrameNum - 1)
BY ConstantsAssumption DEF Following

LEMMA NoPictureType ==
  /\ NoPicture \in Picture
  /\ NoPicture.id = 0 /\ NoPicture.nonexisting = FALSE
  /\ NoPicture.frame_num \in 0..(MaxFrameNum - 1)
BY ConstantsAssumption DEF NoPicture, Picture, References

LEMMA BlankPictureType ==
  ASSUME aus \in Nat
  PROVE  /\ BlankPicture \in Picture
         /\ BlankPicture.id = aus /\ BlankPicture.nonexisting = FALSE
         /\ BlankPicture.frame_num \in 0..(MaxFrameNum - 1)
<1>1. BlankPicture \in Picture
  BY NoPictureType DEF BlankPicture, Picture
<1>2. BlankPicture.id = aus
  BY DEF BlankPicture, NoPicture
<1>3. BlankPicture.nonexisting = FALSE /\ BlankPicture.frame_num = NoPicture.frame_num
  BY DEF BlankPicture, NoPicture
<1> QED
  BY <1>1, <1>2, <1>3, NoPictureType

LEMMA PictureOfType ==
  ASSUME aus \in Nat, NEW h \in Slices \union {NoSlice}
  PROVE  /\ PictureOf(h) \in Picture
         /\ PictureOf(h).id = aus /\ PictureOf(h).nonexisting = FALSE
         /\ PictureOf(h).frame_num = h.frame_num
<1>1. h.frame_num \in Nat /\ h.poc \in Int /\ h.ref \in BOOLEAN
  BY HdrTypes, ConstantsAssumption
<1> QED
  BY <1>1, BlankPictureType DEF PictureOf, BlankPicture, NoPicture, Picture, References

LEMMA GapPictureType ==
  ASSUME NEW n \in 0..(MaxFrameNum - 1), NEW poc \in Int
  PROVE  /\ GapPicture(n, poc) \in Picture
         /\ GapPicture(n, poc).id = 0 /\ GapPicture(n, poc).nonexisting
<1>1. n \in Nat /\ TRUE \in BOOLEAN /\ "short" \in References
  BY ConstantsAssumption DEF References
<1>2. GapPicture(n, poc) \in Picture
  BY <1>1, NoPictureType DEF GapPicture, Picture
<1>3. GapPicture(n, poc).id = 0 /\ GapPicture(n, poc).nonexisting
  BY DEF GapPicture, NoPicture
<1> QED
  BY <1>2, <1>3

LEMMA MarkedType ==
  ASSUME NEW p \in Picture, NEW r \in References
  PROVE  /\ Marked(p, r) \in Picture
         /\ Marked(p, r).id = p.id
         /\ Marked(p, r).nonexisting = p.nonexisting
         /\ Marked(p, r).frame_num = p.frame_num
BY DEF Marked, Picture, References
LEMMA ResetType ==
  ASSUME NEW p \in Picture
  PROVE  LET q == [p EXCEPT !.frame_num = 0, !.poc = 0]
         IN  /\ q \in Picture /\ q.id = p.id /\ q.nonexisting = p.nonexisting
             /\ q.frame_num = 0
<1> DEFINE m == [p EXCEPT !.frame_num = 0]
           q == [p EXCEPT !.frame_num = 0, !.poc = 0]
<1>1. q \in Picture
  <2>1. m \in Picture /\ 0 \in Int
    BY DEF Picture
  <2>2. q = [m EXCEPT !.poc = 0]
    BY DEF Picture
  <2> HIDE DEF m
  <2> QED
    BY <2>1, <2>2 DEF Picture
<1>2. q.id = p.id /\ q.frame_num = 0
  BY DEF Picture
<1>3. q.nonexisting = p.nonexisting
  BY DEF Picture
<1> QED
  BY <1>1, <1>2, <1>3

-----------------------------------------------------------------------------
LEMMA InitInv == Init => IInv
<1> SUFFICES ASSUME Init PROVE IInv
  OBVIOUS
<1>1. DpbOk(dpb)
  BY NewDpbOk DEF Init
<1>2. TypeOK
  <2>1. 0 \in 0..(MaxFrameNum - 1) /\ 0 \in 0..MaxMmco /\ 0 \in 0..MaxAus
    BY ConstantsAssumption
  <2>2. /\ phase \in Phases /\ after \in {"idle", "newseq", "slices", "bump"}
        /\ ret \in {"ok", "error"} /\ trust \in {"none", "non_ref", "reorder"}
    BY DEF Init, Phases
  <2>3. mem_mgmt_5 \in BOOLEAN
    BY DEF Init
  <2> QED
    BY <1>1, <2>1, <2>2, <2>3, NoPictureType, MinPocAssumption
       DEF Init, TypeOK, DpbOk
<1>3. CurrentPicture
  BY NoPictureType DEF Init, CurrentPicture, InPicture
<1>4. StoredEarlier
  BY DEF Init, StoredEarlier, InPicture, InHeaders, NewDpb, Ids
<1> QED
  BY <1>1, <1>2, <1>3, <1>4 DEF IInv

(* Pictures waiting for their output come from access units.               *)
LEMMA NeededAreFrames ==
  ASSUME IInv, NEW p \in NeededForOutput(dpb)
  PROVE  p \in dpb.pic_list /\ p \in Picture /\ p.id \in Frames /\ p.poc \in Int
<1>1. p \in dpb.pic_list /\ p \in Picture /\ p.id # 0
  BY DEF NeededForOutput, IInv, DpbOk, Dpb, Named
<1>2. p.id \in Nat /\ p.poc \in Int
  BY <1>1 DEF Picture
<1>3. p.id <= aus /\ aus \in 0..MaxAus
  BY <1>1 DEF IInv, StoredEarlier, Ids, TypeOK
<1> QED
  BY <1>1, <1>2, <1>3, ConstantsAssumption DEF Frames

LEMMA OutputPictureTypes ==
  ASSUME TypeOK, NEW p, p.id \in Frames, p.poc \in Int, NEW leaves, OutputPicture(p, leaves)
  PROVE  /\ ret' \in {"ok", "error"} /\ last_output_poc' \in Int
         /\ pending' \subseteq Frames /\ held' \subseteq Frames
         /\ shown' \subseteq Frames /\ discarded' \subseteq Frames
BY DEF OutputPicture, TypeOK

LEMMA BumpTurnInv ==
  ASSUME IInv, NEW insert, NEW mode, BumpTurn(insert, mode)
  PROVE  IInv'
<1> PICK low \in NeededForOutput(dpb) :
        /\ OutputPicture(low, Leaves(low, FALSE))
        /\ dpb' = Bump(dpb, low, FALSE)
        /\ trust' = SafeRule(low, mode)
        /\ UNCHANGED <<phase, after, aus, cur, hdr, gap, mmcos, mem_mgmt_5, spsVars,
                       prev_ref_frame_num, decoded, cvs>>
  BY DEF BumpTurn
<1>1. DpbOk(dpb') /\ Ids(dpb'.pic_list) \subseteq Ids(dpb.pic_list)
  BY BumpOk DEF IInv
<1>2. TypeOK'
  <2>1. low.id \in Frames /\ low.poc \in Int
    BY NeededAreFrames
  <2>2. /\ ret' \in {"ok", "error"} /\ last_output_poc' \in Int
        /\ pending' \subseteq Frames /\ held' \subseteq Frames
        /\ shown' \subseteq Frames /\ discarded' \subseteq Frames
    BY <2>1, OutputPictureTypes DEF IInv
  <2>3. trust' \in {"none", "non_ref", "reorder"}
    BY DEF SafeRule
  <2> QED
    BY <1>1, <2>2, <2>3 DEF IInv, TypeOK, DpbOk, spsVars
<1>3. CurrentPicture'
  BY DEF IInv, CurrentPicture, InPicture
<1>4. StoredEarlier'
  BY <1>1 DEF IInv, StoredEarlier, InPicture, InHeaders
<1> QED
  BY <1>1, <1>2, <1>3, <1>4 DEF IInv

(* The end of every call.                                                  *)
LEMMA ReturnTypes ==
  ASSUME Return
  PROVE  /\ phase' \in Phases /\ after' \in {"idle", "newseq", "slices", "bump"}
         /\ ret' \in {"ok", "error"}
         /\ cur' \in Picture /\ hdr' \in Slices \union {NoSlice}
         /\ gap' \in 0..(MaxFrameNum - 1)
         /\ mmcos' \in 0..MaxMmco /\ mem_mgmt_5' \in BOOLEAN
         /\ CurrentPicture'
<1>1. 0 \in 0..(MaxFrameNum - 1) /\ 0 \in 0..MaxMmco /\ FALSE \in BOOLEAN
  BY ConstantsAssumption
<1>2. /\ phase' = "idle" /\ after' = "idle" /\ ret' = "ok" /\ cur' = NoPicture
      /\ hdr' = NoSlice /\ gap' = 0 /\ mmcos' = 0 /\ mem_mgmt_5' = FALSE
  BY DEF Return
<1>3. CurrentPicture'
  BY <1>2, NoPictureType DEF CurrentPicture, InPicture
<1> QED
  BY <1>1, <1>2, <1>3, NoPictureType DEF Phases

LEMMA DrainInv ==
  ASSUME IInv, DrainTurn \/ DrainOver
  PROVE  IInv'
<1>1. CASE DrainTurn
  <2> PICK low \in NeededForOutput(dpb) :
          /\ OutputPicture(low, Leaves(low, TRUE))
          /\ dpb' = Bump(dpb, low, TRUE)
    BY <1>1 DEF DrainTurn
  <2>1. DpbOk(dpb') /\ Ids(dpb'.pic_list) \subseteq Ids(dpb.pic_list)
    BY BumpOk DEF IInv
  <2>2. TypeOK'
    <3>1. low.id \in Frames /\ low.poc \in Int
      BY NeededAreFrames
    <3>2. /\ ret' \in {"ok", "error"} /\ last_output_poc' \in Int
          /\ pending' \subseteq Frames /\ held' \subseteq Frames
          /\ shown' \subseteq Frames /\ discarded' \subseteq Frames
      BY <3>1, OutputPictureTypes DEF IInv
    <3> QED
      BY <1>1, <2>1, <3>2 DEF IInv, TypeOK, DpbOk, spsVars, DrainTurn
  <2>3. CurrentPicture'
    BY <1>1 DEF IInv, CurrentPicture, InPicture, DrainTurn
  <2>4. StoredEarlier'
    BY <1>1, <2>1 DEF IInv, StoredEarlier, InPicture, InHeaders, DrainTurn
  <2> QED
    BY <2>1, <2>2, <2>3, <2>4 DEF IInv
<1>2. CASE DrainOver
  <2>1. DpbOk(dpb') /\ Ids(dpb'.pic_list) = {}
    BY <1>2, DpbClearOk DEF IInv, TypeOK, DrainOver, Ids
  <2>2. CASE after = "idle"
    <3>1. TypeOK'
      BY <1>2, <2>1, <2>2, ReturnTypes, MinPocAssumption
         DEF IInv, TypeOK, DpbOk, DrainOver, spsVars
    <3> QED
      BY <1>2, <2>1, <2>2, <3>1, ReturnTypes
         DEF IInv, DrainOver, Return, StoredEarlier, InPicture, InHeaders
  <2>3. CASE after # "idle"
    <3>1. /\ phase' \in {"fail", "newseq", "slices", "bump"}
          /\ phase' # "fail" => phase' = after
          /\ after' = "idle" /\ UNCHANGED <<ret, cur, hdr, gap, mmcos, mem_mgmt_5, aus>>
      BY <1>2, <2>3 DEF IInv, TypeOK, DrainOver
    <3>2. TypeOK'
      BY <1>2, <2>1, <3>1, MinPocAssumption
         DEF IInv, TypeOK, DpbOk, DrainOver, spsVars, Phases
    <3>3. CurrentPicture'
      BY <1>2, <3>1 DEF IInv, CurrentPicture, InPicture, DrainOver
    <3>4. StoredEarlier'
      BY <1>2, <2>1, <2>3, <3>1
         DEF IInv, TypeOK, StoredEarlier, InPicture, InHeaders, DrainOver
    <3> QED
      BY <2>1, <3>2, <3>3, <3>4 DEF IInv
  <2> QED
    BY <2>2, <2>3
<1> QED
  BY <1>1, <1>2
-----------------------------------------------------------------------------
LEMMA SpsUpdatedInv ==
  ASSUME IInv, NEW s \in SpsSet \union {NoSps}, NEW d, DpbOk(d), d.pic_list = dpb.pic_list,
         SpsUpdated(s, d)
  PROVE  /\ phase' \in {"fail", "nals"}
         /\ DpbOk(dpb') /\ dpb'.pic_list = dpb.pic_list
         /\ sps' \in SpsSet \union {NoSps}
<1>1. d.max_num_frames \in Nat /\ d \in Dpb
  BY DEF DpbOk, Dpb
<1>2. ReorderFrames(s, d.max_num_frames) \in Nat
  BY <1>1, SpsTypes
<1>3. /\ DpbOk([d EXCEPT !.max_num_reorder_frames = ReorderFrames(s, d.max_num_frames)])
      /\ [d EXCEPT !.max_num_reorder_frames =
            ReorderFrames(s, d.max_num_frames)].pic_list = d.pic_list
  BY <1>1, <1>2, LimitsOk DEF Dpb
<1> QED
  BY <1>3 DEF SpsUpdated, IInv, TypeOK

LEMMA HeadersInv ==
  ASSUME IInv,
         \/ HandleFrame \/ NoSliceInFrame \/ BadNal \/ FailFrame
         \/ \E s \in SpsSet : ParseSps(s)
         \/ NewSequence
         \/ \E h \in Slices : NewPicture(h)
         \/ NewPictureFails
  PROVE  IInv'
<1>1. CASE HandleFrame
  <2>1. TypeOK'
    BY <1>1, ConstantsAssumption
       DEF IInv, TypeOK, HandleFrame, callVars, spsVars, clientVars, Phases, Frames
  <2>2. CurrentPicture'
    BY <1>1 DEF IInv, CurrentPicture, InPicture, HandleFrame, callVars
  <2>3. StoredEarlier'
    <3>1. aus \in Nat /\ Ids(dpb.pic_list) \subseteq Nat
      BY DEF IInv, TypeOK, Dpb, Picture, Ids
    <3> QED
      BY <1>1, <3>1 DEF IInv, StoredEarlier, HandleFrame
  <2> QED
    BY <1>1, <2>1, <2>2, <2>3 DEF IInv, HandleFrame
<1>2. CASE NoSliceInFrame
  <2>1. TypeOK'
    BY <1>2, ReturnTypes DEF IInv, TypeOK, NoSliceInFrame, spsVars, clientVars
  <2> QED
    BY <1>2, <2>1, ReturnTypes
       DEF IInv, NoSliceInFrame, Return, StoredEarlier, InPicture, InHeaders
<1>3. CASE BadNal
  BY <1>3 DEF IInv, TypeOK, CurrentPicture, StoredEarlier, InPicture, InHeaders,
              BadNal, callVars, spsVars, clientVars, Phases
<1>4. CASE FailFrame
  <2>1. TypeOK'
    BY <1>4, ReturnTypes DEF IInv, TypeOK, FailFrame, spsVars
  <2> QED
    BY <1>4, <2>1, ReturnTypes
       DEF IInv, FailFrame, Return, StoredEarlier, InPicture, InHeaders
<1>5. ASSUME NEW s \in SpsSet, ParseSps(s) PROVE IInv'
  <2>1. CASE seq.res # s.res \/ dpb.max_num_frames # s.size
    BY <1>5, <2>1 DEF IInv, TypeOK, CurrentPicture, StoredEarlier, InPicture, InHeaders,
                      ParseSps, clientVars, Phases
  <2>2. CASE ~(seq.res # s.res \/ dpb.max_num_frames # s.size)
    <3>1. SpsUpdated(s, dpb) /\ UNCHANGED <<new_sps, after>>
      BY <1>5, <2>2 DEF ParseSps
    <3>2. /\ phase' \in {"fail", "nals"}
          /\ DpbOk(dpb') /\ dpb'.pic_list = dpb.pic_list
          /\ sps' \in SpsSet \union {NoSps}
      BY <3>1, SpsUpdatedInv DEF IInv
    <3>3. TypeOK'
      BY <1>5, <3>1, <3>2 DEF IInv, TypeOK, DpbOk, ParseSps, clientVars, Phases
    <3>4. CurrentPicture' /\ StoredEarlier'
      BY <1>5, <3>1, <3>2
         DEF IInv, CurrentPicture, StoredEarlier, InPicture, InHeaders, ParseSps
    <3> QED
      BY <3>2, <3>3, <3>4 DEF IInv
  <2> QED
    BY <2>1, <2>2
<1>6. CASE NewSequence
  <2> DEFINE d == [dpb EXCEPT !.max_num_frames = new_sps.size]
  <2>1. new_sps \in SpsSet \union {NoSps} /\ new_sps.size \in Nat
    BY SpsTypes DEF IInv, TypeOK
  <2>2. DpbOk(d) /\ d.pic_list = dpb.pic_list
    BY <2>1, LimitsOk DEF IInv, TypeOK, Dpb
  <2>3. SpsUpdated(new_sps, d)
    BY <1>6 DEF NewSequence
  <2> HIDE DEF d
  <2>4. /\ phase' \in {"fail", "nals"}
        /\ DpbOk(dpb') /\ dpb'.pic_list = dpb.pic_list
        /\ sps' \in SpsSet \union {NoSps}
    BY <2>1, <2>2, <2>3, SpsUpdatedInv
  <2>5. TypeOK'
    BY <1>6, <2>1, <2>4
       DEF IInv, TypeOK, DpbOk, NewSequence, callVars, clientVars, Phases
  <2>6. CurrentPicture' /\ StoredEarlier'
    BY <1>6, <2>4 DEF IInv, CurrentPicture, StoredEarlier, InPicture, InHeaders,
                      NewSequence, callVars
  <2> QED
    BY <2>4, <2>5, <2>6 DEF IInv
<1>7. ASSUME NEW h \in Slices, NewPicture(h) PROVE IInv'
  <2>1. aus \in Nat /\ aus \in Frames
    BY <1>7 DEF IInv, TypeOK, StoredEarlier, InHeaders, NewPicture, Frames
  <2>2. prev_ref_frame_num' \in 0..(MaxFrameNum - 1) /\ gap' \in 0..(MaxFrameNum - 1)
    <3> DEFINE prev == IF h.idr THEN 0 ELSE prev_ref_frame_num
    <3>1. prev \in 0..(MaxFrameNum - 1)
      BY ConstantsAssumption DEF IInv, TypeOK
    <3>2. Following(prev) \in 0..(MaxFrameNum - 1) /\ h.frame_num \in 0..(MaxFrameNum - 1)
      BY <3>1, FollowingType, HdrTypes
    <3>3. /\ prev_ref_frame_num' = prev
          /\ gap' = IF GapBefore(prev, h) THEN Following(prev) ELSE h.frame_num
      BY <1>7 DEF NewPicture
    <3> QED
      BY <3>1, <3>2, <3>3
  <2>3. TypeOK'
    BY <1>7, <2>1, <2>2, BlankPictureType
       DEF IInv, TypeOK, NewPicture, spsVars, Phases
  <2>4. CurrentPicture'
    BY <1>7, <2>1, BlankPictureType DEF CurrentPicture, InPicture, NewPicture
  <2>5. StoredEarlier'
    BY <1>7 DEF IInv, StoredEarlier, InHeaders, NewPicture
  <2> QED
    BY <1>7, <2>3, <2>4, <2>5 DEF IInv, NewPicture
<1>8. CASE NewPictureFails
  BY <1>8 DEF IInv, TypeOK, CurrentPicture, StoredEarlier, InPicture, InHeaders,
              NewPictureFails, callVars, spsVars, clientVars, Phases
<1> QED
  BY <1>1, <1>2, <1>3, <1>4, <1>5, <1>6, <1>7, <1>8
-----------------------------------------------------------------------------
LEMMA GapInv ==
  ASSUME IInv, GapMark \/ GapStore \/ StartPicture \/ StartPictureClear
  PROVE  IInv'
<1>0. dpb \in Dpb /\ DpbOk(dpb) /\ hdr \in Slices \union {NoSlice} /\ aus \in Nat
  BY DEF IInv, TypeOK
<1>1. CASE GapMark
  <2> DEFINE d0 == UpdatePicNums(dpb)
             d == SlidingWindow(d0, MaxNumRefFrames, gap, MaxFrameNum)
  <2>1. Remarked(dpb, d0) /\ d0 \in Dpb
    BY <1>0, UpdatePicNumsRemarks, RemarkedOk DEF DpbOk
  <2>2. Remarked(d0, d)
    BY <2>1, SetReferenceRemarks DEF SlidingWindow, References
  <2>3. DpbOk(d) /\ Ids(d.pic_list) = Ids(dpb.pic_list)
    BY <1>0, <2>1, <2>2, RemarkedTransitive, RemarkedOk
  <2>4. /\ phase' \in {"fail", "gapbump"}
        /\ dpb' = d \/ dpb' = DeleteUnused(d)
        /\ held' \subseteq held
    BY <1>1 DEF GapMark
  <2> HIDE DEF d
  <2>5. DpbOk(dpb') /\ Ids(dpb'.pic_list) \subseteq Ids(dpb.pic_list)
    BY <2>3, <2>4, DeleteUnusedOk DEF Ids
  <2>6. TypeOK'
    BY <1>1, <2>4, <2>5 DEF IInv, TypeOK, DpbOk, GapMark, callVars, spsVars, Phases
  <2>7. CurrentPicture' /\ StoredEarlier'
    BY <1>1, <2>4, <2>5 DEF IInv, CurrentPicture, StoredEarlier, InPicture, GapMark, callVars
  <2> QED
    BY <2>5, <2>6, <2>7 DEF IInv
<1>2. CASE GapStore
  <2>1. CASE ret = "error"
    BY <1>2, <2>1 DEF IInv, TypeOK, CurrentPicture, StoredEarlier, InPicture, InHeaders,
                      GapStore, spsVars, clientVars, Phases
  <2>2. CASE ret # "error"
    <3> PICK poc \in GapPocs : dpb' = DpbAdd(dpb, GapPicture(gap, poc))
      BY <1>2, <2>2 DEF GapStore
    <3>1. /\ GapPicture(gap, poc) \in Picture
          /\ GapPicture(gap, poc).id = 0 /\ GapPicture(gap, poc).nonexisting
      BY GapPictureType, ConstantsAssumption DEF IInv, TypeOK
    <3>2. DpbOk(dpb') /\ Ids(dpb'.pic_list) = Ids(dpb.pic_list) \union {0}
      BY <1>0, <3>1, DpbAddOk
    <3>3. gap' \in 0..(MaxFrameNum - 1)
      BY <1>2, <2>2, FollowingType DEF IInv, TypeOK, GapStore
    <3>4. TypeOK'
      BY <1>2, <2>2, <3>2, <3>3
         DEF IInv, TypeOK, DpbOk, GapStore, spsVars, clientVars, Phases
    <3>5. CurrentPicture' /\ StoredEarlier'
      BY <1>0, <1>2, <2>2, <3>2
         DEF IInv, CurrentPicture, StoredEarlier, InPicture, GapStore
    <3> QED
      BY <3>2, <3>4, <3>5 DEF IInv
  <2> QED
    BY <2>1, <2>2
<1>3. CASE StartPicture
  <2>1. /\ PictureOf(hdr) \in Picture /\ PictureOf(hdr).id = aus
        /\ PictureOf(hdr).nonexisting = FALSE
        /\ PictureOf(hdr).frame_num \in 0..(MaxFrameNum - 1)
    BY <1>0, PictureOfType, HdrTypes
  <2>2. DpbOk(dpb') /\ Ids(dpb'.pic_list) = Ids(dpb.pic_list)
    BY <1>0, <1>3, UpdatePicNumsRemarks, RemarkedOk DEF StartPicture
  <2>3. /\ cur' = PictureOf(hdr)
        /\ \/ phase' = "drain" /\ after' = "slices"
           \/ phase' = "slices" /\ after' = after
    BY <1>3 DEF StartPicture
  <2>4. TypeOK'
    BY <1>3, <2>1, <2>2, <2>3
       DEF IInv, TypeOK, DpbOk, StartPicture, spsVars, clientVars, Phases
  <2>5. CurrentPicture'
    BY <1>3, <2>1, <2>3 DEF CurrentPicture, InPicture, StartPicture
  <2>6. StoredEarlier'
    BY <1>3, <2>2 DEF IInv, StoredEarlier, InPicture, StartPicture
  <2> QED
    BY <2>2, <2>4, <2>5, <2>6 DEF IInv
<1>4. CASE StartPictureClear
  <2>1. /\ PictureOf(hdr) \in Picture /\ PictureOf(hdr).id = aus
        /\ PictureOf(hdr).nonexisting = FALSE
        /\ PictureOf(hdr).frame_num \in 0..(MaxFrameNum - 1)
    BY <1>0, PictureOfType, HdrTypes
  <2>2. DpbOk(dpb') /\ Ids(dpb'.pic_list) = {}
    BY <1>0, <1>4, DpbClearOk DEF StartPictureClear, ClearDpb, Ids
  <2>3. /\ discarded' \subseteq Frames /\ pending' \subseteq Frames /\ held' \subseteq Frames
    BY <1>4, NeededAreFrames DEF IInv, TypeOK, StartPictureClear, ClearDpb, Ids
  <2>4. TypeOK'
    BY <1>4, <2>1, <2>2, <2>3, MinPocAssumption
       DEF IInv, TypeOK, DpbOk, StartPictureClear, ClearDpb, spsVars, Phases
  <2>5. CurrentPicture'
    BY <1>4, <2>1 DEF CurrentPicture, InPicture, StartPictureClear
  <2>6. StoredEarlier'
    BY <1>4, <2>2 DEF IInv, StoredEarlier, InPicture, StartPictureClear
  <2> QED
    BY <2>2, <2>4, <2>5, <2>6 DEF IInv
<1> QED
  BY <1>1, <1>2, <1>3, <1>4

-----------------------------------------------------------------------------
(* The end of the reference marking, whatever it marked.                   *)
LEMMA FinishInv ==
  ASSUME IInv, phase = "marking", NEW d, Remarked(dpb, d),
         NEW c \in Picture, c.id = cur.id, c.nonexisting = FALSE,
         c.frame_num \in 0..(MaxFrameNum - 1),
         Finish(d, c)
  PROVE  IInv'
<1>1. DpbOk(d) /\ Ids(d.pic_list) = Ids(dpb.pic_list)
  BY RemarkedOk DEF IInv
<1>2. DpbOk(dpb') /\ Ids(dpb'.pic_list) \subseteq Ids(dpb.pic_list)
  BY <1>1, DeleteUnusedOk DEF Finish, Ids
<1>3. TypeOK'
  BY <1>2 DEF IInv, TypeOK, DpbOk, Finish, spsVars, Phases
<1>4. CurrentPicture' /\ StoredEarlier'
  BY <1>2 DEF IInv, CurrentPicture, StoredEarlier, InPicture, Finish
<1> QED
  BY <1>2, <1>3, <1>4 DEF IInv

(* One memory management control operation.                                *)
LEMMA MmcoInv ==
  ASSUME IInv, NEW d, Remarked(dpb, d),
         NEW c \in Picture, c.id = cur.id, c.nonexisting = FALSE,
         c.frame_num \in 0..(MaxFrameNum - 1),
         Mmco(d, c), mem_mgmt_5' \in BOOLEAN
  PROVE  IInv'
<1>1. DpbOk(dpb') /\ Ids(dpb'.pic_list) = Ids(dpb.pic_list)
  BY RemarkedOk DEF IInv, Mmco
<1>2. mmcos' \in 0..MaxMmco
  BY ConstantsAssumption DEF IInv, TypeOK, Mmco
<1>3. TypeOK'
  BY <1>1, <1>2 DEF IInv, TypeOK, DpbOk, Mmco, spsVars, clientVars
<1>4. CurrentPicture' /\ StoredEarlier'
  BY <1>1 DEF IInv, CurrentPicture, StoredEarlier, InPicture, InHeaders, Mmco
<1> QED
  BY <1>1, <1>3, <1>4 DEF IInv

LEMMA MarkingInv ==
  ASSUME IInv, Marking
  PROVE  IInv'
<1>0. /\ dpb \in Dpb /\ cur \in Picture /\ cur.nonexisting = FALSE
      /\ cur.frame_num \in 0..(MaxFrameNum - 1)
      /\ mem_mgmt_5 \in BOOLEAN /\ LongIdxs \subseteq Nat
  BY ConstantsAssumption DEF IInv, TypeOK, CurrentPicture
<1>1. CASE MarkIdr
  BY <1>0, <1>1, 0 \in Nat, MarkingRemarks, MarkedType, FinishInv DEF MarkIdr, References
<1>2. CASE MarkSliding
  BY <1>0, <1>2, 0 \in Nat, MarkingRemarks, FinishInv DEF MarkSliding
<1>3. CASE MmcoEnd
  BY <1>0, <1>3, RemarkedSelf, FinishInv DEF MmcoEnd
<1>4. CASE UnmarkShort
  <2> PICK n \in PicNumXs : Mmco(Mmco1(dpb, n, hdr.frame_num, MaxFrameNum), cur)
    BY <1>4 DEF UnmarkShort
  <2>1. Remarked(dpb, Mmco1(dpb, n, hdr.frame_num, MaxFrameNum))
    BY <1>0, 0 \in Nat, MarkingRemarks
  <2> QED
    BY <1>0, <1>4, <2>1, MmcoInv DEF UnmarkShort
<1>5. CASE UnmarkLong
  <2> PICK n \in LongIdxs : Mmco(Mmco2(dpb, n), cur)
    BY <1>5 DEF UnmarkLong
  <2>1. Remarked(dpb, Mmco2(dpb, n))
    BY <1>0, 0 \in Nat, MarkingRemarks
  <2> QED
    BY <1>0, <1>5, <2>1, MmcoInv DEF UnmarkLong
<1>6. CASE ShortToLong
  <2> PICK n \in PicNumXs, idx \in LongIdxs :
             Mmco(Mmco3(dpb, n, idx, hdr.frame_num, MaxFrameNum), cur)
    BY <1>6 DEF ShortToLong
  <2>1. Remarked(dpb, Mmco3(dpb, n, idx, hdr.frame_num, MaxFrameNum))
    BY <1>0, MarkingRemarks
  <2> QED
    BY <1>0, <1>6, <2>1, MmcoInv DEF ShortToLong
<1>7. CASE LimitLong
  <2> PICK idx \in LongIdxs : Mmco(Mmco4(dpb, idx), cur)
    BY <1>7 DEF LimitLong
  <2>1. Remarked(dpb, Mmco4(dpb, idx))
    BY <1>0, MarkingRemarks
  <2> QED
    BY <1>0, <1>7, <2>1, MmcoInv DEF LimitLong
<1>8. CASE UnmarkAll
  <2> DEFINE c == [cur EXCEPT !.frame_num = 0, !.poc = 0]
  <2>1. Mmco(MarkAllNonRef(dpb), c) /\ mem_mgmt_5' \in BOOLEAN
    BY <1>8 DEF UnmarkAll
  <2>2. /\ c \in Picture /\ c.id = cur.id /\ c.nonexisting = cur.nonexisting
        /\ c.frame_num = 0
    BY <1>0, ResetType
  <2>3. 0 \in 0..(MaxFrameNum - 1)
    BY ConstantsAssumption
  <2>4. Remarked(dpb, MarkAllNonRef(dpb))
    BY <1>0, 0 \in Nat, MarkingRemarks
  <2> HIDE DEF c
  <2> QED
    BY <1>0, <2>1, <2>2, <2>3, <2>4, MmcoInv
<1>9. CASE CurrentToLong
  <2> PICK idx \in LongIdxs :
        Mmco(Mmco6(dpb, idx), [Marked(cur, "long") EXCEPT !.long_term_frame_idx = idx])
    BY <1>9 DEF CurrentToLong
  <2> DEFINE m == Marked(cur, "long")
             c == [m EXCEPT !.long_term_frame_idx = idx]
  <2>1. /\ m \in Picture /\ m.id = cur.id /\ m.nonexisting = cur.nonexisting
        /\ m.frame_num = cur.frame_num
    BY <1>0, MarkedType DEF References
  <2>2. Mmco(Mmco6(dpb, idx), c)
    OBVIOUS
  <2> HIDE DEF m
  <2>3. /\ c \in Picture /\ c.id = cur.id /\ c.nonexisting = cur.nonexisting
        /\ c.frame_num = cur.frame_num
    BY <1>0, <2>1 DEF Picture
  <2>4. Remarked(dpb, Mmco6(dpb, idx))
    BY <1>0, MarkingRemarks
  <2> HIDE DEF c
  <2> QED
    BY <1>0, <1>9, <2>2, <2>3, <2>4, MmcoInv DEF CurrentToLong
<1> QED
  BY <1>1, <1>2, <1>3, <1>4, <1>5, <1>6, <1>7, <1>8, <1>9 DEF Marking
-----------------------------------------------------------------------------
LEMMA EndInv ==
  ASSUME IInv, EndPicture \/ EndPictureFails \/ Store \/ OutputDirectly \/ FrameDone
  PROVE  IInv'
<1>0. /\ dpb \in Dpb /\ DpbOk(dpb) /\ cur \in Picture /\ cur.nonexisting = FALSE
      /\ cur.id \in Nat /\ cur.poc \in Int
  BY DEF IInv, TypeOK, CurrentPicture, Picture
<1>1. ASSUME InPicture
      PROVE  cur.id = aus /\ cur.id # 0 /\ cur.id \in Frames /\ cur.id \notin Ids(dpb.pic_list)
  BY <1>1, ConstantsAssumption DEF IInv, TypeOK, CurrentPicture, StoredEarlier, Frames
<1>2. CASE EndPicture
  <2>1. InPicture
    BY <1>2 DEF EndPicture, InPicture
  <2>2. DpbOk(dpb') /\ Ids(dpb'.pic_list) \subseteq Ids(dpb.pic_list) /\ held' \subseteq held
    BY <1>0, <1>2, DeleteUnusedOk DEF EndPicture, Ids
  <2>3. phase' \in {"marking", "bump"}
    BY <1>2 DEF EndPicture
  <2>4. TypeOK'
    BY <1>1, <1>2, <2>1, <2>2, <2>3
       DEF IInv, TypeOK, DpbOk, EndPicture, callVars, spsVars, Phases
  <2>5. CurrentPicture' /\ StoredEarlier'
    BY <1>2, <2>1, <2>2, <2>3
       DEF IInv, CurrentPicture, StoredEarlier, InPicture, EndPicture, callVars
  <2> QED
    BY <2>2, <2>4, <2>5 DEF IInv
<1>3. CASE EndPictureFails
  <2>1. TypeOK'
    BY <1>3, ReturnTypes DEF IInv, TypeOK, EndPictureFails, spsVars, clientVars
  <2> QED
    BY <1>3, <2>1, ReturnTypes
       DEF IInv, EndPictureFails, Return, StoredEarlier, InPicture, InHeaders
<1>4. CASE Store
  <2>1. InPicture
    BY <1>4 DEF Store, InPicture
  <2>2. DpbOk(dpb') /\ Ids(dpb'.pic_list) = Ids(dpb.pic_list) \union {cur.id}
    BY <1>0, <1>1, <1>4, <2>1, DpbAddOk DEF Store
  <2>3. TypeOK'
    BY <1>4, <2>2, NoPictureType
       DEF IInv, TypeOK, DpbOk, Store, spsVars, clientVars, Phases
  <2>4. CurrentPicture'
    BY <1>4, NoPictureType DEF CurrentPicture, InPicture, Store
  <2>5. StoredEarlier'
    BY <1>0, <1>1, <1>4, <2>1, <2>2 DEF IInv, StoredEarlier, InPicture, InHeaders, Store
  <2> QED
    BY <2>2, <2>3, <2>4, <2>5 DEF IInv
<1>5. CASE OutputDirectly
  <2>1. InPicture
    BY <1>5 DEF OutputDirectly, InPicture
  <2>2. DpbOk(dpb') /\ dpb'.pic_list = dpb.pic_list
    <3>1. /\ SetLastOutput(dpb, cur).pic_list = dpb.pic_list
          /\ SetLastOutput(dpb, cur).tail = dpb.tail
          /\ SetLastOutput(dpb, cur).num_output_needed = dpb.num_output_needed
      BY <1>0 DEF SetLastOutput, Dpb
    <3>2. SetLastOutput(dpb, cur) \in Dpb
      BY <1>0 DEF SetLastOutput, Dpb
    <3>3. DpbOk(SetLastOutput(dpb, cur))
      BY <1>0, <3>1, <3>2 DEF DpbOk, Placed, Named, Counted, NeededForOutput
    <3> QED
      BY <1>5, <3>1, <3>3 DEF OutputDirectly
  <2>3. /\ ret' \in {"ok", "error"} /\ last_output_poc' \in Int
        /\ pending' \subseteq Frames /\ held' \subseteq Frames
        /\ shown' \subseteq Frames /\ discarded' \subseteq Frames
    BY <1>0, <1>1, <1>5, <2>1, OutputPictureTypes DEF IInv, OutputDirectly
  <2>4. TypeOK'
    BY <1>5, <2>2, <2>3, NoPictureType
       DEF IInv, TypeOK, DpbOk, OutputDirectly, spsVars, Phases
  <2>5. CurrentPicture'
    BY <1>5, NoPictureType DEF CurrentPicture, InPicture, OutputDirectly
  <2>6. StoredEarlier'
    BY <1>5, <2>2 DEF IInv, StoredEarlier, InPicture, InHeaders, OutputDirectly
  <2> QED
    BY <2>2, <2>4, <2>5, <2>6 DEF IInv
<1>6. CASE FrameDone
  <2>1. TypeOK'
    BY <1>6, ReturnTypes DEF IInv, TypeOK, FrameDone, spsVars, clientVars
  <2> QED
    BY <1>6, <2>1, ReturnTypes
       DEF IInv, FrameDone, Return, StoredEarlier, InPicture, InHeaders
<1> QED
  BY <1>2, <1>3, <1>4, <1>5, <1>6

LEMMA CallsInv ==
  ASSUME IInv, Drain \/ Flush \/ Stop \/ Start
  PROVE  IInv'
<1>1. CASE Drain
  BY <1>1 DEF IInv, TypeOK, CurrentPicture, StoredEarlier, InPicture, InHeaders,
              Drain, spsVars, clientVars, Phases
<1>2. CASE Flush
  <2>1. DpbOk(dpb') /\ Ids(dpb'.pic_list) = {}
    BY <1>2, DpbClearOk DEF IInv, TypeOK, Flush, ClearDpb, Ids
  <2>2. discarded' \subseteq Frames /\ pending' \subseteq Frames /\ held' \subseteq Frames
    BY <1>2, NeededAreFrames DEF IInv, TypeOK, Flush, ClearDpb, Ids
  <2>3. TypeOK'
    BY <1>2, <2>1, <2>2, MinPocAssumption
       DEF IInv, TypeOK, DpbOk, Flush, ClearDpb, callVars, spsVars
  <2>4. CurrentPicture' /\ StoredEarlier'
    BY <1>2, <2>1 DEF IInv, CurrentPicture, StoredEarlier, InPicture, InHeaders, Flush, callVars
  <2> QED
    BY <2>1, <2>3, <2>4 DEF IInv
<1>3. CASE Stop
  <2>1. DpbOk(dpb') /\ Ids(dpb'.pic_list) = {}
    BY <1>3, NewDpbOk DEF Stop, NewDpb, Ids
  <2>2. discarded' \subseteq Frames /\ held' \subseteq Frames
    BY <1>3, NeededAreFrames DEF IInv, TypeOK, Stop, Ids
  <2>3. TypeOK'
    BY <1>3, <2>1, <2>2 DEF IInv, TypeOK, DpbOk, Stop, callVars, Phases
  <2>4. CurrentPicture' /\ StoredEarlier'
    BY <1>3, <2>1 DEF IInv, CurrentPicture, StoredEarlier, InPicture, InHeaders, Stop, callVars
  <2> QED
    BY <2>1, <2>3, <2>4 DEF IInv
<1>4. CASE Start
  BY <1>4 DEF IInv, TypeOK, CurrentPicture, StoredEarlier, InPicture, InHeaders,
              Start, callVars, spsVars, clientVars, Phases
<1> QED
  BY <1>1, <1>2, <1>3, <1>4

LEMMA NextInv == IInv /\ [Next]_vars => IInv'
<1> SUFFICES ASSUME IInv, [Next]_vars PROVE IInv'
  OBVIOUS
<1>1. CASE UNCHANGED vars
  BY <1>1 DEF IInv, TypeOK, CurrentPicture, StoredEarlier, InPicture, InHeaders,
              vars, callVars, spsVars, clientVars
<1>2. CASE Nals \/ BadNal \/ FailFrame \/ NewSequence \/ \E s \in SpsSet : ParseSps(s)
  BY <1>2, HeadersInv DEF Nals
<1>3. CASE GapMark \/ GapStore \/ StartPicture \/ StartPictureClear
  BY <1>3, GapInv
<1>4. CASE EndPicture \/ EndPictureFails \/ Store \/ OutputDirectly \/ FrameDone
  BY <1>4, EndInv
<1>5. CASE Marking
  BY <1>5, MarkingInv
<1>6. CASE Bumping
  BY <1>6, BumpTurnInv DEF Bumping, GapBump, BumpBefore, LiveBump
<1>7. CASE DrainTurn \/ DrainOver
  BY <1>7, DrainInv
<1>8. CASE Calls
  BY <1>8, HeadersInv, CallsInv DEF Calls
<1> QED
  BY <1>1, <1>2, <1>3, <1>4, <1>5, <1>6, <1>7, <1>8 DEF Next, Work

LEMMA Invariance == Spec => []IInv
BY InitInv, NextInv, PTL DEF Spec

(* In every reachable state, for any stream, client and limits, the state  *)
(* has the shape the C structures give it.                                 *)
THEOREM TypeCorrect == Spec => []TypeOK
<1>1. IInv => TypeOK
  BY DEF IInv
<1> QED
  BY <1>1, Invariance, PTL

(* num_output_needed is the number of pictures flagged needed_for_output   *)
(* on every path through the decoder, so that the assertions in needs_bump *)
(* and bump that it is not negative cannot fail.                           *)
THEOREM OutputCounterCorrect == Spec => [](OutputCounter /\ dpb.num_output_needed >= 0)
<1>1. IInv => OutputCounter /\ dpb.num_output_needed >= 0
  BY CounterNatural DEF IInv, OutputCounter, DpbOk, Counted
<1> QED
  BY <1>1, Invariance, PTL

-----------------------------------------------------------------------------
(* Conforming streams: long-term indices.                                  *)
LongTermInv ==
    /\ OneLong(dpb)
    /\ cur.ref = "long" => Apart(dpb, cur.long_term_frame_idx)

(* The current picture is kept, or another that is no long-term reference. *)
KeepsMark == cur' = cur \/ cur'.ref # "long"

LEMMA NoPictures ==
  ASSUME NEW d, d.pic_list = {}
  PROVE  /\ OneLong(d) /\ \A idx : Apart(d, idx)
         /\ NumFrames(d) = 0 /\ NumReferences(d) = 0 /\ NumLongTerm(d) = 0
         /\ NeededForOutput(d) = {} /\ Unused(d) = {}
<1>1. /\ ReferenceFrames(d) = {} /\ LongTermRefs(d) = {} /\ NeededForOutput(d) = {}
      /\ Unused(d) = {}
  BY DEF ReferenceFrames, LongTermRefs, NeededForOutput, Unused
<1> QED
  BY <1>1, FS_EmptySet DEF OneLong, Apart, NumFrames, NumReferences, NumLongTerm

LEMMA SamePictures ==
  ASSUME NEW d, NEW d2, d2.pic_list = d.pic_list
  PROVE  /\ OneLong(d2) <=> OneLong(d)
         /\ \A idx : Apart(d2, idx) <=> Apart(d, idx)
         /\ NumFrames(d2) = NumFrames(d) /\ NumReferences(d2) = NumReferences(d)
         /\ NumLongTerm(d2) = NumLongTerm(d)
         /\ NeededForOutput(d2) = NeededForOutput(d) /\ Unused(d2) = Unused(d)
<1>1. /\ ReferenceFrames(d2) = ReferenceFrames(d) /\ LongTermRefs(d2) = LongTermRefs(d)
      /\ NeededForOutput(d2) = NeededForOutput(d) /\ Unused(d2) = Unused(d)
  BY DEF ReferenceFrames, LongTermRefs, NeededForOutput, Unused
<1> QED
  BY <1>1 DEF OneLong, Apart, NumFrames, NumReferences, NumLongTerm

LEMMA LongTermSame ==
  ASSUME LongTermInv, KeepsMark, dpb'.pic_list = dpb.pic_list
  PROVE  LongTermInv'
<1>1. /\ OneLong(dpb') <=> OneLong(dpb)
      /\ \A idx : Apart(dpb', idx) <=> Apart(dpb, idx)
  BY SamePictures
<1> QED
  BY <1>1 DEF LongTermInv, KeepsMark

LEMMA LongTermUnmarked ==
  ASSUME IInv, LongTermInv, KeepsMark, Unmarks(dpb, dpb')
  PROVE  LongTermInv'
<1>1. /\ OneLong(dpb) => OneLong(dpb')
      /\ \A idx : Apart(dpb, idx) => Apart(dpb', idx)
  BY UnmarksBounds DEF IInv
<1> QED
  BY <1>1 DEF LongTermInv, KeepsMark

LEMMA LongTermEmptied ==
  ASSUME dpb'.pic_list = {}
  PROVE  LongTermInv'
<1>1. OneLong(dpb') /\ \A idx : Apart(dpb', idx)
  BY NoPictures
<1> QED
  BY <1>1 DEF LongTermInv

LEMMA NoPictureMark == NoPicture.ref = "none" /\ BlankPicture.ref = "none"
BY DEF NoPicture, BlankPicture

(* The sliding window of a gap, with the deletion of what it unmarked.     *)
LEMMA GapMarkUnmarks ==
  ASSUME IInv, NEW refs
  PROVE  LET d0 == UpdatePicNums(dpb)
             d == SlidingWindow(d0, refs, gap, MaxFrameNum)
         IN  /\ DpbOk(d0) /\ Unmarks(dpb, d0)
             /\ DpbOk(d) /\ Unmarks(d0, d)
             /\ DpbOk(DeleteUnused(d)) /\ Unmarks(d, DeleteUnused(d))
<1> DEFINE d0 == UpdatePicNums(dpb)
           d == SlidingWindow(d0, refs, gap, MaxFrameNum)
<1>1. dpb \in Dpb /\ DpbOk(dpb)
  BY DEF IInv, DpbOk
<1>2. DpbOk(d0) /\ d0 \in Dpb /\ Unmarks(dpb, d0)
  BY <1>1, UpdatePicNumsRemarks, RemarkedOk, UpdatePicNumsUnmarks DEF DpbOk
<1> HIDE DEF d0
<1>3. Remarked(d0, d) /\ Unmarks(d0, d)
  BY <1>2, SetReferenceRemarks, SetReferenceUnmarks DEF SlidingWindow, References
<1>4. DpbOk(d) /\ d \in Dpb
  BY <1>2, <1>3, RemarkedOk DEF DpbOk
<1> HIDE DEF d
<1> QED
  BY <1>2, <1>3, <1>4, DeleteUnusedOk, DeleteUnusedUnmarks DEF d, d0

LEMMA GapMarkLongTerm ==
  ASSUME IInv, LongTermInv, GapMark
  PROVE  LongTermInv'
<1> DEFINE d0 == UpdatePicNums(dpb)
           d == SlidingWindow(d0, MaxNumRefFrames, gap, MaxFrameNum)
           d1 == DeleteUnused(d)
<1>1. cur' = cur /\ (dpb' = d \/ dpb' = d1)
  BY DEF GapMark, callVars
<1>2. /\ DpbOk(d0) /\ Unmarks(dpb, d0) /\ DpbOk(d) /\ Unmarks(d0, d)
      /\ Unmarks(d, d1)
  BY GapMarkUnmarks
<1> HIDE DEF d0, d, d1
<1>3. DpbOk(dpb)
  BY DEF IInv
<1>4. /\ OneLong(dpb) => OneLong(d0)
      /\ \A idx : Apart(dpb, idx) => Apart(d0, idx)
  BY <1>2, <1>3, UnmarksBounds
<1>5. /\ OneLong(d0) => OneLong(d)
      /\ \A idx : Apart(d0, idx) => Apart(d, idx)
  BY <1>2, UnmarksBounds
<1>6. /\ OneLong(d) => OneLong(d1)
      /\ \A idx : Apart(d, idx) => Apart(d1, idx)
  BY <1>2, UnmarksBounds
<1> QED
  BY <1>1, <1>4, <1>5, <1>6 DEF LongTermInv

LEMMA FinishLongTerm ==
  ASSUME IInv, LongTermInv, NEW d, Remarked(dpb, d), NEW c, Finish(d, c),
         OneLong(d), c.ref = "long" => Apart(d, c.long_term_frame_idx)
  PROVE  LongTermInv'
<1>1. DpbOk(d) /\ d \in Dpb /\ dpb' = DeleteUnused(d) /\ cur' = c
  BY RemarkedOk DEF IInv, Finish, DpbOk
<1>2. /\ OneLong(d) => OneLong(dpb')
      /\ \A idx : Apart(d, idx) => Apart(dpb', idx)
  BY <1>1, DeleteUnusedUnmarks, UnmarksBounds
<1> QED
  BY <1>1, <1>2 DEF LongTermInv

LEMMA MarkingLongTerm ==
  ASSUME Conforming, IInv, LongTermInv, Marking
  PROVE  LongTermInv'
<1>0. /\ dpb \in Dpb /\ DpbOk(dpb) /\ cur \in Picture /\ LongIdxs \subseteq Nat
  BY ConstantsAssumption DEF IInv, TypeOK
<1>1. CASE MarkIdr
  <2> DEFINE d == MarkAllNonRef(dpb)
  <2>1. Remarked(dpb, d)
    BY <1>0, 0 \in Nat, MarkingRemarks
  <2>2. ReferenceFrames(d) = {}
    BY <1>0, MarkingUnmarks
  <2>3. OneLong(d) /\ \A idx : Apart(d, idx)
    BY <2>2 DEF ReferenceFrames, LongTermRefs, OneLong, Apart
  <2> HIDE DEF d
  <2>4. \E c : Finish(d, c)
    BY <1>1 DEF MarkIdr, d
  <2> QED
    BY <2>1, <2>3, <2>4, FinishLongTerm
<1>2. CASE MarkSliding
  <2> DEFINE d == SlidingWindow(dpb, MaxNumRefFrames, hdr.frame_num, MaxFrameNum)
  <2>1. Remarked(dpb, d) /\ Unmarks(dpb, d)
    BY <1>0, 0 \in Nat, MarkingRemarks, MarkingUnmarks
  <2>2. OneLong(d) /\ (cur.ref = "long" => Apart(d, cur.long_term_frame_idx))
    BY <1>0, <2>1, UnmarksBounds DEF LongTermInv
  <2> QED
    BY <1>2, <2>1, <2>2, FinishLongTerm DEF MarkSliding
<1>3. CASE MmcoEnd
  BY <1>0, <1>3, RemarkedSelf, FinishLongTerm DEF MmcoEnd, LongTermInv
<1>4. CASE UnmarkShort \/ UnmarkLong \/ LimitLong
  <2>1. KeepsMark /\ Unmarks(dpb, dpb')
    BY <1>0, <1>4, MarkingUnmarks DEF UnmarkShort, UnmarkLong, LimitLong, Mmco, KeepsMark
  <2> QED
    BY <2>1, LongTermUnmarked
<1>5. CASE ShortToLong
  <2> PICK n \in PicNumXs, idx \in LongIdxs :
        /\ ~(cur.ref = "long" /\ cur.long_term_frame_idx = idx)
        /\ dpb' = Mmco3(dpb, n, idx, hdr.frame_num, MaxFrameNum)
        /\ cur' = cur
    BY <1>5 DEF ShortToLong, Mmco
  <2>1. /\ OneLong(dpb) => OneLong(dpb')
        /\ \A i : i # idx /\ Apart(dpb, i) => Apart(dpb', i)
    BY <1>0, Mmco3Bounds
  <2> QED
    BY <2>1 DEF LongTermInv
<1>6. CASE UnmarkAll
  <2>1. dpb' = MarkAllNonRef(dpb)
    BY <1>6 DEF UnmarkAll, Mmco
  <2>2. ReferenceFrames(dpb') = {}
    BY <1>0, <2>1, MarkingUnmarks
  <2> QED
    BY <2>2 DEF ReferenceFrames, LongTermRefs, OneLong, Apart, LongTermInv
<1>7. CASE CurrentToLong
  <2> PICK idx \in LongIdxs :
        /\ dpb' = Mmco6(dpb, idx)
        /\ cur' = [Marked(cur, "long") EXCEPT !.long_term_frame_idx = idx]
    BY <1>7 DEF CurrentToLong, Mmco
  <2>1. cur'.long_term_frame_idx = idx
    BY <1>0 DEF Marked, Picture
  <2>2. Apart(dpb', idx) /\ OneLong(dpb')
    BY <1>0, IndexFreed DEF LongTermInv, Mmco6
  <2> QED
    BY <2>1, <2>2 DEF LongTermInv
<1> QED
  BY <1>1, <1>2, <1>3, <1>4, <1>5, <1>6, <1>7 DEF Marking

LEMMA LongTermNext ==
  ASSUME Conforming, IInv, LongTermInv, [Next]_vars
  PROVE  LongTermInv'
<1>0. dpb \in Dpb /\ DpbOk(dpb) /\ cur \in Picture
  BY DEF IInv, TypeOK
<1>1. ASSUME \/ HandleFrame \/ NoSliceInFrame \/ BadNal \/ FailFrame \/ NewPictureFails
             \/ EndPictureFails \/ FrameDone \/ Drain \/ Start \/ UNCHANGED vars
      PROVE  LongTermInv'
  <2>1. dpb' = dpb /\ (cur' = cur \/ cur' = NoPicture)
    BY <1>1 DEF HandleFrame, NoSliceInFrame, BadNal, FailFrame, NewPictureFails,
                EndPictureFails, FrameDone, Drain, Start, Return, vars, callVars
  <2> QED
    BY <2>1, NoPictureMark, LongTermSame DEF KeepsMark
<1>2. ASSUME NEW s \in SpsSet, ParseSps(s) PROVE LongTermInv'
  <2>1. dpb'.pic_list = dpb.pic_list /\ cur' = cur
    BY <1>0, <1>2 DEF ParseSps, SpsUpdated, Dpb
  <2> QED
    BY <2>1, LongTermSame DEF KeepsMark
<1>3. CASE NewSequence
  <2>1. dpb'.pic_list = dpb.pic_list /\ cur' = cur
    BY <1>0, <1>3 DEF NewSequence, SpsUpdated, Dpb, callVars
  <2> QED
    BY <2>1, LongTermSame DEF KeepsMark
<1>4. ASSUME NEW h \in Slices, NewPicture(h) PROVE LongTermInv'
  <2>1. dpb' = dpb /\ cur' = BlankPicture
    BY <1>4 DEF NewPicture
  <2> QED
    BY <2>1, NoPictureMark, LongTermSame DEF KeepsMark
<1>5. CASE GapMark
  BY <1>5, GapMarkLongTerm
<1>6. CASE GapStore
  <2>1. CASE ret = "error"
    BY <1>6, <2>1, LongTermSame DEF GapStore, KeepsMark
  <2>2. CASE ret # "error"
    <3> PICK poc \in GapPocs : dpb' = DpbAdd(dpb, GapPicture(gap, poc)) /\ cur' = cur
      BY <1>6, <2>2 DEF GapStore
    <3>1. GapPicture(gap, poc) \in Picture /\ GapPicture(gap, poc).ref = "short"
      BY GapPictureType, ConstantsAssumption DEF IInv, TypeOK, GapPicture, NoPicture
    <3>2. LongTermRefs(dpb') = LongTermRefs(dpb)
      BY <1>0, <3>1, DpbAddBounds
    <3> QED
      BY <3>2 DEF LongTermInv, OneLong, Apart
  <2> QED
    BY <2>1, <2>2
<1>7. CASE StartPicture
  <2>1. cur' = PictureOf(hdr) /\ (dpb' = dpb \/ dpb' = UpdatePicNums(dpb))
    BY <1>7 DEF StartPicture
  <2>2. PictureOf(hdr).ref # "long"
    BY DEF PictureOf, BlankPicture, NoPicture
  <2>3. Unmarks(dpb, dpb')
    BY <1>0, <2>1, UnmarksSelf, UpdatePicNumsUnmarks
  <2> QED
    BY <2>1, <2>2, <2>3, LongTermUnmarked DEF KeepsMark
<1>8. CASE StartPictureClear \/ Flush \/ DrainOver \/ Stop
  <2>1. dpb'.pic_list = {}
    BY <1>0, <1>8, DpbClearOk, NewDpbOk
       DEF StartPictureClear, ClearDpb, Flush, DrainOver, Stop, NewDpb
  <2> QED
    BY <2>1, LongTermEmptied
<1>9. CASE EndPicture
  <2>1. cur' = cur /\ (dpb' = dpb \/ dpb' = DeleteUnused(dpb))
    BY <1>9 DEF EndPicture, callVars
  <2>2. Unmarks(dpb, dpb')
    BY <1>0, <2>1, UnmarksSelf, DeleteUnusedUnmarks
  <2> QED
    BY <2>1, <2>2, LongTermUnmarked DEF KeepsMark
<1>10. CASE Marking
  BY <1>10, MarkingLongTerm
<1>11. CASE Bumping \/ DrainTurn
  <2>1. /\ cur' = cur
        /\ \E low \in NeededForOutput(dpb), drain \in BOOLEAN : dpb' = Bump(dpb, low, drain)
    BY <1>11 DEF Bumping, GapBump, BumpBefore, LiveBump, BumpTurn, DrainTurn
  <2>2. Unmarks(dpb, dpb')
    BY <1>0, <2>1, BumpUnmarks
  <2> QED
    BY <2>1, <2>2, LongTermUnmarked DEF KeepsMark
<1>12. CASE Store
  <2>1. dpb' = DpbAdd(dpb, cur) /\ cur' = NoPicture
    BY <1>12 DEF Store
  <2>2. OneLong(dpb')
    BY <1>0, <2>1, DpbAddBounds DEF LongTermInv
  <2> QED
    BY <2>1, <2>2, NoPictureMark DEF LongTermInv
<1>13. CASE OutputDirectly
  <2>1. dpb'.pic_list = dpb.pic_list /\ cur' = NoPicture
    BY <1>0, <1>13 DEF OutputDirectly, SetLastOutput, Dpb
  <2> QED
    BY <2>1, NoPictureMark, LongTermSame DEF KeepsMark
<1> QED
  BY <1>1, <1>2, <1>3, <1>4, <1>5, <1>6, <1>7, <1>8, <1>9, <1>10, <1>11, <1>12, <1>13
     DEF Next, Work, Calls, Nals

(* With a conforming stream, no two long-term references of the buffer and *)
(* the current picture have the same long_term_frame_idx, whatever mix of  *)
(* operations, gaps and bumping precedes: an operation on an index finds   *)
(* the picture the stream means.                                           *)
THEOREM LongTermUniqueCorrect ==
  ASSUME Conforming
  PROVE  Spec => []LongTermUnique
<1>1. Init => LongTermInv
  <2>1. Init => dpb.pic_list = {} /\ cur.ref = "none"
    BY NoPictureMark DEF Init, NewDpb
  <2> QED
    BY <2>1, NoPictures DEF LongTermInv
<1>2. IInv /\ LongTermInv /\ [Next]_vars => LongTermInv'
  BY LongTermNext
<1>3. LongTermInv => LongTermUnique
  BY DEF LongTermInv, LongTermUnique, OneLong, Apart
<1> QED
  BY <1>1, <1>2, <1>3, Invariance, PTL DEF Spec

-----------------------------------------------------------------------------
(* Conforming streams: the number of references and of pictures.           *)
MaxRefs(s) == IF s.refs > 1 THEN s.refs ELSE 1

(* What a stream's sequence parameter sets must respect: room for the      *)
(* references and for the reordering they announce (otherwise process_sps  *)
(* refuses one after the size of the buffer has changed).                  *)
SoundSps == \A s \in SpsSet : s.size >= 1 /\ s.refs <= s.size /\ s.reorder <= s.size

(* From a new sequence parameter set to the IDR picture that must follow,  *)
(* the references are those of the old one.                                *)
Renewing ==
    \/ cvs.needs_idr
    \/ hdr.idr /\ (phase = "gap" \/ (phase = "drain" /\ after = "slices"))

Sized ==
    /\ sps # NoSps => dpb.max_num_frames = sps.size
    /\ InPicture => sps # NoSps
    /\ phase = "newseq" => dpb.pic_list = {}

(* No gap precedes an IDR picture, and none but an IDR picture follows.    *)
Opens ==
    /\ phase = "gap" /\ hdr.idr => gap = hdr.frame_num
    /\ phase = "gapbump" => ~hdr.idr
    /\ phase = "drain" /\ after = "slices" => hdr.idr
    /\ cvs.needs_idr => ~InPicture

Clean == phase \in {"gapbump", "bump"} => Unused(dpb) = {}

(* The place for the picture to store is free among the references.        *)
Free ==
    phase = "gapbump" \/ (phase = "bump" /\ cur.ref # "none")
        => NumReferences(dpb) < MaxNumRefFrames

(* The sliding window, where one is to come, will not fail.                *)
Slides ==
    /\ \/ phase \in {"gap", "gapbump"} /\ hdr.ref
       \/ phase = "slices" /\ cur.ref # "none"
       \/ phase = "marking"
    /\ ~hdr.idr /\ ~hdr.adaptive
    => NumLongTerm(dpb) < MaxNumRefFrames

Marks == cur.ref # "none" => cur.ref_pic

Limits ==
    /\ Sized /\ Opens /\ Clean /\ Free /\ Slides /\ Marks
    /\ RefsWithinLimit \/ Renewing
    /\ DpbWithinSize

(* d has no more pictures and no more references than the buffer.          *)
Within(d) ==
    /\ d.max_num_frames = dpb.max_num_frames
    /\ NumFrames(d) <= NumFrames(dpb)
    /\ NumReferences(d) <= NumReferences(dpb)
    /\ NumLongTerm(d) <= NumLongTerm(dpb)

LEMMA MaxRefsType ==
  ASSUME IInv
  PROVE  /\ MaxNumRefFrames \in Nat /\ MaxNumRefFrames >= 1
         /\ SoundSps /\ Limits /\ sps # NoSps => MaxNumRefFrames <= dpb.max_num_frames
<1>1. sps \in SpsSet \union {NoSps} /\ sps.refs \in Nat
  BY ConstantsAssumption DEF IInv, TypeOK, NoSps
<1> QED
  BY <1>1, ConstantsAssumption DEF MaxNumRefFrames, SoundSps, Limits, Sized

LEMMA BufferCounts ==
  ASSUME NEW d, DpbOk(d)
  PROVE  NumFrames(d) \in Nat /\ NumReferences(d) \in Nat /\ NumLongTerm(d) \in Nat
BY Counts

LEMMA WithinUnmarked ==
  ASSUME IInv, NEW d, Unmarks(dpb, d)
  PROVE  Within(d)
BY UnmarksBounds DEF IInv, Within

LEMMA WithinSame ==
  ASSUME IInv, NEW d, d.pic_list = dpb.pic_list, d.max_num_frames = dpb.max_num_frames
  PROVE  Within(d)
BY SamePictures, BufferCounts DEF IInv, Within

LEMMA WithinEmptied ==
  ASSUME IInv, NEW d, d.pic_list = {}, d.max_num_frames = dpb.max_num_frames
  PROVE  Within(d)
BY NoPictures, BufferCounts DEF IInv, Within

(* What an operation that adds nothing preserves anywhere.                 *)
LEMMA WithinLimits ==
  ASSUME IInv, IInv', Limits, Within(dpb'), sps' = sps
  PROVE  /\ DpbWithinSize' /\ (RefsWithinLimit => RefsWithinLimit')
         /\ sps' # NoSps => dpb'.max_num_frames = sps'.size
         /\ MaxNumRefFrames' = MaxNumRefFrames
<1>1. MaxNumRefFrames' = MaxNumRefFrames /\ MaxNumRefFrames \in Nat
  BY MaxRefsType DEF MaxNumRefFrames
<1>2. /\ NumFrames(dpb) \in Nat /\ NumReferences(dpb) \in Nat
      /\ NumFrames(dpb') \in Nat /\ NumReferences(dpb') \in Nat
      /\ dpb.max_num_frames \in Nat
  BY BufferCounts DEF IInv, DpbOk, Dpb
<1>3. DpbWithinSize'
  BY <1>2 DEF Limits, Within, DpbWithinSize, NumFrames
<1>4. RefsWithinLimit => RefsWithinLimit'
  BY <1>1, <1>2 DEF Within, RefsWithinLimit, NumReferences
<1> QED
  BY <1>1, <1>3, <1>4 DEF Within, Limits, Sized

(* A step that leads out of the picture and adds nothing to the buffer.    *)
LEMMA OutOfPicture ==
  ASSUME IInv, IInv', Limits, Within(dpb'), sps' = sps, ~InPicture', phase' # "newseq",
         cur' = cur \/ cur' = NoPicture,
         cvs' = cvs \/ cvs'.needs_idr,
         RefsWithinLimit' \/ cvs.needs_idr \/ ~Renewing
  PROVE  Limits'
<1>1. /\ DpbWithinSize' /\ (RefsWithinLimit => RefsWithinLimit')
      /\ sps' # NoSps => dpb'.max_num_frames = sps'.size
  BY WithinLimits
<1>2. Marks'
  BY NoPictureMark DEF Limits, Marks
<1>3. RefsWithinLimit' \/ Renewing'
  BY <1>1 DEF Limits, Renewing
<1> QED
  BY <1>1, <1>2, <1>3 DEF Limits, Sized, Opens, Clean, Free, Slides, InPicture

(* Nothing is refused or renewed while a picture is in progress.           *)
LEMMA InPictureLimits ==
  ASSUME IInv, Limits, phase \in {"gapbump", "slices", "marking", "bump"}
  PROVE  /\ ~cvs.needs_idr /\ ~Renewing /\ RefsWithinLimit /\ sps # NoSps
BY DEF Limits, Opens, Sized, InPicture, Renewing

LEMMA SlidingWindowWorks ==
  ASSUME NEW d, DpbOk(d), NEW refs \in Nat
  PROVE  ~SlidingWindowFails(d, refs) <=> NumLongTerm(d) < refs
<1>1. /\ Cardinality(ShortTermRefs(d)) \in Nat /\ NumLongTerm(d) \in Nat
      /\ NumReferences(d) = Cardinality(ShortTermRefs(d)) + NumLongTerm(d)
  BY Counts
<1>2. Cardinality(ReferenceFrames(d)) = NumReferences(d)
  BY DEF NumReferences
<1> HIDE DEF NumReferences, NumLongTerm
<1> QED
  BY <1>1, <1>2 DEF SlidingWindowFails, Excess

-----------------------------------------------------------------------------
LEMMA HeadersLimits ==
  ASSUME Conforming, SoundSps, IInv, IInv', Limits,
         \/ HandleFrame \/ NoSliceInFrame \/ BadNal \/ FailFrame \/ NewPictureFails
         \/ \E s \in SpsSet : ParseSps(s)
         \/ NewSequence
         \/ \E h \in Slices : NewPicture(h)
  PROVE  Limits'
<1>0. dpb \in Dpb /\ DpbOk(dpb) /\ dpb.max_num_frames \in Nat
  BY DEF IInv, DpbOk, Dpb
<1>1. ASSUME HandleFrame \/ NoSliceInFrame \/ FailFrame \/ NewPictureFails
      PROVE  Limits'
  <2>1. /\ dpb' = dpb /\ sps' = sps /\ cvs' = cvs /\ (cur' = cur \/ cur' = NoPicture)
        /\ ~InPicture' /\ phase' # "newseq" /\ phase \in {"idle", "nals", "fail"}
    BY <1>1 DEF HandleFrame, NoSliceInFrame, FailFrame, NewPictureFails, Return, callVars,
                spsVars, InPicture
  <2>2. Within(dpb')
    BY <2>1, WithinSame
  <2> QED
    BY <2>1, <2>2, OutOfPicture DEF Renewing
<1>2. CASE BadNal
  BY <1>2 DEF BadNal
<1>3. ASSUME NEW s \in SpsSet, ParseSps(s) PROVE Limits'
  <2>1. phase = "nals" /\ cur' = cur /\ (~Renewing \/ cvs.needs_idr)
    BY <1>3 DEF ParseSps, Renewing
  <2>2. CASE seq.res # s.res \/ dpb.max_num_frames # s.size
    <3>1. /\ dpb' = dpb /\ sps' = sps /\ cvs' = cvs /\ cur' = cur
          /\ phase' = "drain" /\ after' = "newseq" /\ phase = "nals"
      BY <1>3, <2>2 DEF ParseSps
    <3>2. Within(dpb')
      BY <3>1, WithinSame
    <3> QED
      BY <3>1, <3>2, OutOfPicture DEF Renewing, InPicture
  <2>3. CASE ~(seq.res # s.res \/ dpb.max_num_frames # s.size)
    <3>1. SpsUpdated(s, dpb) /\ phase = "nals" /\ cur' = cur /\ dpb.max_num_frames = s.size
      BY <1>3, <2>3 DEF ParseSps
    <3>2. CASE sps' = sps /\ cvs' = cvs
      <4>1. /\ dpb'.pic_list = dpb.pic_list /\ dpb'.max_num_frames = dpb.max_num_frames
            /\ phase' \in {"fail", "nals"}
        BY <1>0, <3>1 DEF SpsUpdated, Dpb
      <4>2. Within(dpb')
        BY <4>1, WithinSame
      <4> QED
        BY <3>1, <3>2, <4>1, <4>2, OutOfPicture DEF Renewing, InPicture
    <3>3. CASE ~(sps' = sps /\ cvs' = cvs)
      <4>1. /\ dpb'.pic_list = dpb.pic_list /\ dpb'.max_num_frames = dpb.max_num_frames
            /\ phase' = "nals" /\ sps' = s /\ cvs'.needs_idr
        BY <1>0, <3>1, <3>3 DEF SpsUpdated, Dpb, Interrupted, NewCvs
      <4>2. DpbWithinSize'
        BY <4>1 DEF Limits, DpbWithinSize
      <4>3. Marks'
        BY <3>1 DEF Limits, Marks
      <4> QED
        BY <3>1, <4>1, <4>2, <4>3
           DEF Limits, Sized, Opens, Clean, Free, Slides, InPicture, Renewing
    <3> QED
      BY <3>2, <3>3
  <2> QED
    BY <2>2, <2>3
<1>4. CASE NewSequence
  <2> DEFINE d == [dpb EXCEPT !.max_num_frames = new_sps.size]
  <2>1. /\ new_sps.size \in Nat
        /\ ~(ReorderFrames(new_sps, new_sps.size) > new_sps.size)
    <3>1. new_sps \in SpsSet \union {NoSps}
      BY DEF IInv, TypeOK
    <3>2. new_sps.size \in Nat /\ new_sps.reorder \in Int /\ new_sps.reorder <= new_sps.size
      BY <3>1, ConstantsAssumption DEF NoSps, SoundSps
    <3> QED
      BY <3>2 DEF ReorderFrames
  <2>2. d.max_num_frames = new_sps.size /\ d.pic_list = {}
    BY <1>0, <1>4 DEF Dpb, NewSequence, Limits, Sized
  <2>3. SpsUpdated(new_sps, d) /\ cur' = cur
    BY <1>4 DEF NewSequence, callVars
  <2> HIDE DEF d
  <2>4. phase' = "nals" /\ sps' = new_sps
    BY <2>1, <2>2, <2>3 DEF SpsUpdated
  <2>5. dpb'.pic_list = {} /\ dpb'.max_num_frames = new_sps.size
    <3>1. dpb' = [d EXCEPT !.max_num_reorder_frames = ReorderFrames(new_sps, d.max_num_frames)]
      BY <2>1, <2>2, <2>3 DEF SpsUpdated
    <3>2. d \in [pic_list: SUBSET Picture, tail: Nat, max_num_frames: Nat,
                 max_num_reorder_frames: Nat, num_output_needed: Int,
                 last_output_poc: Int, last_output_non_ref: BOOLEAN]
      BY <1>0, <2>1 DEF Dpb, d
    <3> QED
      BY <2>2, <3>1, <3>2
  <2>6. RefsWithinLimit' /\ DpbWithinSize'
    <3>1. NumReferences(dpb') = 0 /\ NumFrames(dpb') = 0
      BY <2>5, NoPictures
    <3>2. MaxNumRefFrames' \in Nat
      BY MaxRefsType, ConstantsAssumption DEF IInv, TypeOK, MaxNumRefFrames, NoSps
    <3> QED
      BY <2>1, <2>5, <3>1, <3>2
         DEF RefsWithinLimit, DpbWithinSize, NumReferences, NumFrames
  <2>7. Marks'
    BY <2>3 DEF Limits, Marks
  <2> QED
    BY <2>4, <2>5, <2>6, <2>7 DEF Limits, Sized, Opens, Clean, Free, Slides, InPicture
<1>5. ASSUME NEW h \in Slices, NewPicture(h) PROVE Limits'
  <2>1. /\ phase = "nals" /\ phase' = "gap" /\ sps # NoSps /\ sps' = sps /\ dpb' = dpb
        /\ hdr' = h /\ cur' = BlankPicture /\ MayFollow(h) /\ cvs' = Extended(h)
        /\ gap' = IF GapBefore(IF h.idr THEN 0 ELSE prev_ref_frame_num, h)
                  THEN Following(IF h.idr THEN 0 ELSE prev_ref_frame_num) ELSE h.frame_num
    BY <1>5 DEF NewPicture, spsVars
  <2>2. h.idr => h.frame_num = 0
    BY DEF Slices, IdrSlices, OtherSlices
  <2>3. h.idr => gap' = h.frame_num
    BY <2>1, <2>2 DEF GapBefore
  <2>4. ~cvs'.needs_idr
    BY <2>1 DEF Extended
  <2>5. /\ DpbWithinSize' /\ (RefsWithinLimit => RefsWithinLimit')
        /\ sps' # NoSps => dpb'.max_num_frames = sps'.size
        /\ MaxNumRefFrames' = MaxNumRefFrames
    BY <2>1, WithinSame, WithinLimits
  <2>6. RefsWithinLimit' \/ Renewing'
    BY <2>1, <2>5 DEF Limits, Renewing, MayFollow
  <2>7. Slides'
    <3> SUFFICES ASSUME h.ref, ~h.idr, ~h.adaptive
                 PROVE  NumLongTerm(dpb) < MaxNumRefFrames
      BY <2>1, <2>5 DEF Slides
    <3>1. ~SlidingWindowFails(dpb, MaxNumRefFrames)
      BY <2>1 DEF MayFollow
    <3> QED
      BY <1>0, <3>1, MaxRefsType, SlidingWindowWorks
  <2>8. Marks'
    BY <2>1, NoPictureMark DEF Marks
  <2> QED
    BY <2>1, <2>3, <2>4, <2>5, <2>6, <2>7, <2>8
       DEF Limits, Sized, Opens, Clean, Free, InPicture
<1> QED
  BY <1>1, <1>2, <1>3, <1>4, <1>5

LEMMA GapLimits ==
  ASSUME Conforming, SoundSps, IInv, IInv', Limits,
         GapMark \/ StartPicture \/ StartPictureClear
  PROVE  Limits'
<1>0. dpb \in Dpb /\ DpbOk(dpb) /\ DpbOk(dpb') /\ MaxNumRefFrames \in Nat
  BY MaxRefsType DEF IInv, DpbOk
<1>1. CASE GapMark
  <2> DEFINE d0 == UpdatePicNums(dpb)
             d == SlidingWindow(d0, MaxNumRefFrames, gap, MaxFrameNum)
             d1 == DeleteUnused(d)
  <2>1. /\ phase = "gap" /\ gap # hdr.frame_num /\ cur' = cur /\ sps' = sps /\ cvs' = cvs
        /\ hdr' = hdr /\ gap' = gap
        /\ \/ phase' = "fail" /\ dpb' = d
           \/ phase' = "gapbump" /\ dpb' = d1 /\ ~SlidingWindowFails(dpb, MaxNumRefFrames)
    BY <1>1 DEF GapMark, callVars, spsVars
  <2>2. /\ DpbOk(d0) /\ Unmarks(dpb, d0) /\ DpbOk(d) /\ Unmarks(d0, d)
        /\ DpbOk(d1) /\ Unmarks(d, d1)
    BY GapMarkUnmarks
  <2>3. Unused(d1) = {} /\ ReferenceFrames(d1) = ReferenceFrames(d)
    <3>1. d \in Dpb
      BY <2>2 DEF DpbOk
    <3> HIDE DEF d
    <3> QED
      BY <3>1, DeleteUnusedUnmarks
  <2>4. ~SlidingWindowFails(dpb, MaxNumRefFrames) => NumReferences(d1) < MaxNumRefFrames
    <3> SUFFICES ASSUME ~SlidingWindowFails(dpb, MaxNumRefFrames)
                 PROVE  NumReferences(d1) < MaxNumRefFrames
      OBVIOUS
    <3>1. NumLongTerm(dpb) < MaxNumRefFrames
      BY <1>0, SlidingWindowWorks
    <3>2. NumLongTerm(d0) <= NumLongTerm(dpb)
      BY <1>0, <2>2, UnmarksBounds
    <3>3. NumLongTerm(d0) < MaxNumRefFrames
      BY <1>0, <2>2, <3>1, <3>2, BufferCounts
    <3>4. ~SlidingWindowFails(d0, MaxNumRefFrames)
      BY <1>0, <2>2, <3>3, SlidingWindowWorks
    <3>5. gap \in Int /\ MaxFrameNum \in Int /\ MaxNumRefFrames # 0
      BY ConstantsAssumption, MaxRefsType DEF IInv, TypeOK
    <3> HIDE DEF d0
    <3>6. NumReferences(d) < MaxNumRefFrames
      BY <1>0, <2>2, <3>4, <3>5, SlidingWindowRoom
    <3> QED
      BY <2>3, <3>6 DEF NumReferences
  <2> HIDE DEF d0, d, d1
  <2>5. Within(d) /\ Within(d1)
    <3>1. /\ d0.max_num_frames = dpb.max_num_frames
          /\ NumFrames(d0) <= NumFrames(dpb)
          /\ NumReferences(d0) <= NumReferences(dpb)
          /\ NumLongTerm(d0) <= NumLongTerm(dpb)
      BY <1>0, <2>2, UnmarksBounds
    <3>2. /\ d.max_num_frames = d0.max_num_frames
          /\ NumFrames(d) <= NumFrames(d0)
          /\ NumReferences(d) <= NumReferences(d0)
          /\ NumLongTerm(d) <= NumLongTerm(d0)
      BY <2>2, UnmarksBounds
    <3>3. /\ d1.max_num_frames = d.max_num_frames
          /\ NumFrames(d1) <= NumFrames(d)
          /\ NumReferences(d1) <= NumReferences(d)
          /\ NumLongTerm(d1) <= NumLongTerm(d)
      BY <2>2, UnmarksBounds
    <3>4. \A e \in {dpb, d0, d, d1} :
            NumFrames(e) \in Nat /\ NumReferences(e) \in Nat /\ NumLongTerm(e) \in Nat
      BY <1>0, <2>2, BufferCounts
    <3> QED
      BY <3>1, <3>2, <3>3, <3>4 DEF Within
  <2>6. Within(dpb')
    BY <2>1, <2>5
  <2>7. ~hdr.idr /\ ~cvs.needs_idr /\ RefsWithinLimit /\ sps # NoSps
    BY <2>1 DEF Limits, Opens, Renewing, InPicture, Sized
  <2>8. CASE phase' = "fail"
    BY <2>1, <2>6, <2>7, <2>8, OutOfPicture DEF Renewing, InPicture
  <2>9. CASE phase' = "gapbump"
    <3>1. /\ DpbWithinSize' /\ RefsWithinLimit' /\ dpb'.max_num_frames = sps'.size
          /\ MaxNumRefFrames' = MaxNumRefFrames
      BY <2>1, <2>6, <2>7, WithinLimits
    <3>2. Clean' /\ Free'
      BY <2>1, <2>3, <2>4, <2>9, <3>1 DEF Clean, Free
    <3>3. Slides'
      BY <1>0, <2>1, <2>6, <2>9, <3>1, BufferCounts DEF Limits, Slides, Within
    <3>4. Marks'
      BY <2>1 DEF Limits, Marks
    <3> QED
      BY <2>1, <2>7, <2>9, <3>1, <3>2, <3>3, <3>4 DEF Limits, Sized, Opens
  <2> QED
    BY <2>1, <2>8, <2>9
<1>2. CASE StartPicture
  <2>1. /\ phase = "gap" /\ cur' = PictureOf(hdr) /\ sps' = sps /\ cvs' = cvs /\ hdr' = hdr
        /\ IF hdr.idr
           THEN phase' = "drain" /\ after' = "slices" /\ dpb' = dpb
           ELSE phase' = "slices" /\ dpb' = UpdatePicNums(dpb)
    BY <1>2 DEF StartPicture, spsVars
  <2>2. Within(dpb')
    BY <1>0, <2>1, WithinSame, WithinUnmarked, UpdatePicNumsUnmarks
  <2>3. /\ DpbWithinSize' /\ (RefsWithinLimit => RefsWithinLimit')
        /\ sps' # NoSps => dpb'.max_num_frames = sps'.size
        /\ MaxNumRefFrames' = MaxNumRefFrames
    BY <2>1, <2>2, WithinLimits
  <2>4. cur'.ref # "none" => cur'.ref_pic /\ hdr.ref
    BY <2>1 DEF PictureOf, BlankPicture, NoPicture
  <2>5. ~cvs.needs_idr /\ sps # NoSps
    BY <2>1 DEF Limits, Opens, Sized, InPicture
  <2>6. CASE hdr.idr
    BY <2>1, <2>3, <2>4, <2>5, <2>6
       DEF Limits, Sized, Opens, Clean, Free, Slides, Marks, Renewing
  <2>7. CASE ~hdr.idr
    <3>1. Slides'
      BY <1>0, <2>1, <2>2, <2>3, <2>4, <2>7, BufferCounts DEF Limits, Slides, Within
    <3>2. RefsWithinLimit'
      BY <2>3, <2>5, <2>7 DEF Limits, Renewing
    <3> QED
      BY <2>1, <2>3, <2>4, <2>5, <2>7, <3>1, <3>2
         DEF Limits, Sized, Opens, Clean, Free, Marks
  <2> QED
    BY <2>6, <2>7
<1>3. CASE StartPictureClear
  <2>1. /\ phase = "gap" /\ phase' = "slices" /\ cur' = PictureOf(hdr) /\ sps' = sps
        /\ cvs' = cvs /\ hdr' = hdr /\ hdr.no_output_of_prior_pics
        /\ dpb' = DpbClear(dpb)
    BY <1>3 DEF StartPictureClear, ClearDpb, spsVars
  <2>2. hdr.idr
    <3>1. hdr \in IdrSlices \/ hdr \in OtherSlices \/ hdr = NoSlice
      BY DEF IInv, TypeOK, Slices
    <3>2. hdr \notin OtherSlices
      BY <2>1 DEF OtherSlices
    <3>3. hdr # NoSlice
      BY <2>1 DEF NoSlice
    <3>4. \A h \in IdrSlices : h.idr = TRUE
      BY DEF IdrSlices
    <3> QED
      BY <3>1, <3>2, <3>3, <3>4
  <2>3. dpb'.pic_list = {} /\ dpb'.max_num_frames = dpb.max_num_frames
    BY <1>0, <2>1 DEF DpbClear, Dpb
  <2>4. Within(dpb')
    BY <2>3, WithinEmptied
  <2>5. /\ DpbWithinSize' /\ MaxNumRefFrames' = MaxNumRefFrames
        /\ sps' # NoSps => dpb'.max_num_frames = sps'.size
    BY <2>1, <2>4, WithinLimits
  <2>6. RefsWithinLimit'
    BY <1>0, <2>3, <2>5, NoPictures DEF RefsWithinLimit, NumReferences
  <2>7. Marks'
    BY <2>1 DEF PictureOf, BlankPicture, NoPicture, Marks
  <2>8. ~cvs.needs_idr /\ sps # NoSps
    BY <2>1 DEF Limits, Opens, Sized, InPicture
  <2> QED
    BY <2>1, <2>2, <2>5, <2>6, <2>7, <2>8 DEF Limits, Sized, Opens, Clean, Free, Slides
<1> QED
  BY <1>1, <1>2, <1>3

(* The turns of the bumping loops and of a drain, and the end of a drain.  *)
LEMMA OutputLimits ==
  ASSUME Conforming, SoundSps, IInv, IInv', Limits,
         Bumping \/ DrainTurn \/ DrainOver
  PROVE  Limits'
<1>0. dpb \in Dpb /\ DpbOk(dpb) /\ DpbOk(dpb') /\ MaxNumRefFrames \in Nat
  BY MaxRefsType DEF IInv, DpbOk
<1>1. CASE Bumping \/ DrainTurn
  <2>1. /\ phase' = phase /\ after' = after /\ cur' = cur /\ hdr' = hdr /\ gap' = gap
        /\ sps' = sps /\ cvs' = cvs
        /\ \E low \in NeededForOutput(dpb), drain \in BOOLEAN :
              /\ dpb' = Bump(dpb, low, drain)
              /\ phase \in {"gapbump", "bump"} => ~drain
        /\ phase # "newseq"
    BY <1>1 DEF Bumping, GapBump, BumpBefore, LiveBump, BumpTurn, DrainTurn, spsVars
  <2>2. Unmarks(dpb, dpb') /\ Clean'
    BY <1>0, <2>1, BumpUnmarks DEF Limits, Clean
  <2>3. Within(dpb')
    BY <2>2, WithinUnmarked
  <2>4. /\ DpbWithinSize' /\ (RefsWithinLimit => RefsWithinLimit')
        /\ sps' # NoSps => dpb'.max_num_frames = sps'.size
        /\ MaxNumRefFrames' = MaxNumRefFrames
    BY <2>1, <2>3, WithinLimits
  <2>5. Free' /\ Slides'
    BY <1>0, <2>1, <2>3, <2>4, BufferCounts DEF Limits, Free, Slides, Within
  <2>6. InPicture' <=> InPicture
    BY <2>1 DEF InPicture
  <2> QED
    BY <2>1, <2>2, <2>4, <2>5, <2>6 DEF Limits, Sized, Opens, Marks, Renewing
<1>2. CASE DrainOver
  <2>1. /\ phase = "drain" /\ dpb' = DpbClear(dpb) /\ sps' = sps /\ cvs' = cvs
        /\ IF after = "idle" THEN Return
           ELSE /\ phase' = "fail" \/ phase' = after
                /\ after' = "idle" /\ cur' = cur /\ hdr' = hdr
    BY <1>2 DEF DrainOver, spsVars
  <2>2. dpb'.pic_list = {} /\ dpb'.max_num_frames = dpb.max_num_frames
    BY <1>0, <2>1 DEF DpbClear, Dpb
  <2>3. Within(dpb')
    BY <2>2, WithinEmptied
  <2>4. /\ DpbWithinSize' /\ MaxNumRefFrames' = MaxNumRefFrames
        /\ sps' # NoSps => dpb'.max_num_frames = sps'.size
    BY <2>1, <2>3, WithinLimits
  <2>5. NumReferences(dpb') = 0 /\ NumLongTerm(dpb') = 0 /\ Unused(dpb') = {}
    BY <2>2, NoPictures
  <2>6. RefsWithinLimit'
    BY <1>0, <2>4, <2>5 DEF RefsWithinLimit, NumReferences
  <2>7. CASE after = "idle" \/ phase' = "fail"
    <3>1. /\ ~InPicture' /\ phase' # "newseq" /\ (cur' = cur \/ cur' = NoPicture)
      BY <2>1, <2>7 DEF Return, InPicture
    <3> QED
      BY <2>1, <2>3, <2>6, <3>1, OutOfPicture
  <2>8. CASE after # "idle" /\ phase' # "fail"
    <3>1. /\ phase' = after /\ after \in {"newseq", "slices", "bump"}
          /\ cur' = cur /\ hdr' = hdr /\ after' = "idle"
      BY <2>1, <2>8 DEF IInv, TypeOK
    <3>2. InPicture' <=> InPicture
      BY <2>1, <3>1 DEF InPicture
    <3>3. Free' /\ Clean'
      BY <1>0, <2>4, <2>5, MaxRefsType DEF Free, Clean
    <3>4. Slides'
      BY <2>1, <3>1 DEF Limits, Opens, Slides
    <3> QED
      BY <2>1, <2>2, <2>4, <2>6, <3>1, <3>2, <3>3, <3>4
         DEF Limits, Sized, Opens, Marks
  <2> QED
    BY <2>7, <2>8
<1> QED
  BY <1>1, <1>2

LEMMA FinishLimits ==
  ASSUME Conforming, SoundSps, IInv, IInv', Limits, phase = "marking",
         NEW d, Remarked(dpb, d), Unmarks(dpb, d), NEW c, Finish(d, c),
         c.ref # "none" => c.ref_pic,
         NumReferences(d) < MaxNumRefFrames
  PROVE  Limits'
<1>1. /\ dpb' = DeleteUnused(d) /\ cur' = c /\ sps' = sps /\ cvs' = cvs /\ hdr' = hdr
      /\ phase' = "bump" \/ (phase' = "drain" /\ after' = "bump")
  BY DEF Finish, spsVars
<1>2. DpbOk(d) /\ d \in Dpb
  BY RemarkedOk DEF IInv, DpbOk
<1>3. /\ Unmarks(d, dpb') /\ Unused(dpb') = {}
      /\ ReferenceFrames(dpb') = ReferenceFrames(d)
  BY <1>1, <1>2, DeleteUnusedUnmarks
<1>4. Within(dpb')
  <2>1. /\ d.max_num_frames = dpb.max_num_frames
        /\ NumFrames(d) <= NumFrames(dpb)
        /\ NumReferences(d) <= NumReferences(dpb)
        /\ NumLongTerm(d) <= NumLongTerm(dpb)
    BY UnmarksBounds DEF IInv
  <2>2. /\ dpb'.max_num_frames = d.max_num_frames
        /\ NumFrames(dpb') <= NumFrames(d)
        /\ NumReferences(dpb') <= NumReferences(d)
        /\ NumLongTerm(dpb') <= NumLongTerm(d)
    BY <1>2, <1>3, UnmarksBounds
  <2>3. \A e \in {dpb, d, dpb'} :
          NumFrames(e) \in Nat /\ NumReferences(e) \in Nat /\ NumLongTerm(e) \in Nat
    BY <1>2, BufferCounts DEF IInv
  <2> QED
    BY <2>1, <2>2, <2>3 DEF Within
<1>5. /\ DpbWithinSize' /\ (RefsWithinLimit => RefsWithinLimit')
      /\ sps' # NoSps => dpb'.max_num_frames = sps'.size
      /\ MaxNumRefFrames' = MaxNumRefFrames
  BY <1>1, <1>4, WithinLimits
<1>6. ~cvs.needs_idr /\ RefsWithinLimit /\ sps # NoSps
  BY InPictureLimits
<1>7. Free'
  BY <1>3, <1>5 DEF Free, NumReferences
<1> QED
  BY <1>1, <1>3, <1>5, <1>6, <1>7
     DEF Limits, Sized, Opens, Clean, Slides, Marks

(* One memory management control operation, which reduces the marking of   *)
(* the pictures in the buffer, or converts it.                             *)
LEMMA MmcoLimits ==
  ASSUME Conforming, SoundSps, IInv, IInv', Limits,
         NEW d, d.max_num_frames = dpb.max_num_frames,
         NumFrames(d) <= NumFrames(dpb), NumReferences(d) <= NumReferences(dpb),
         NEW c, c.ref # "none" => c.ref_pic,
         Mmco(d, c),
         cvs' = cvs \/ ~cvs'.needs_idr
  PROVE  Limits'
<1>1. /\ phase = "marking" /\ phase' = "marking" /\ dpb' = d /\ cur' = c /\ sps' = sps
      /\ hdr' = hdr /\ hdr.adaptive
  BY DEF Mmco, spsVars
<1>2. ~cvs.needs_idr /\ RefsWithinLimit /\ sps # NoSps
  BY <1>1, InPictureLimits
<1>3. MaxNumRefFrames' = MaxNumRefFrames /\ MaxNumRefFrames \in Nat
  BY <1>1, MaxRefsType DEF MaxNumRefFrames
<1>4. /\ NumFrames(dpb) \in Nat /\ NumReferences(dpb) \in Nat
      /\ NumFrames(dpb') \in Nat /\ NumReferences(dpb') \in Nat
      /\ dpb.max_num_frames \in Nat
  BY BufferCounts DEF IInv, DpbOk, Dpb
<1>5. DpbWithinSize'
  BY <1>1, <1>4 DEF Limits, DpbWithinSize, NumFrames
<1>6. RefsWithinLimit'
  BY <1>1, <1>2, <1>3, <1>4 DEF RefsWithinLimit, NumReferences
<1> QED
  BY <1>1, <1>2, <1>5, <1>6 DEF Limits, Sized, Opens, Clean, Free, Slides, Marks

LEMMA MarkingLimits ==
  ASSUME Conforming, SoundSps, IInv, IInv', Limits, Marking
  PROVE  Limits'
<1>0. /\ dpb \in Dpb /\ DpbOk(dpb) /\ cur \in Picture /\ LongIdxs \subseteq Nat
      /\ MaxNumRefFrames \in Nat /\ MaxNumRefFrames >= 1 /\ phase = "marking"
      /\ cur.ref # "none" => cur.ref_pic
  BY ConstantsAssumption, MaxRefsType
     DEF IInv, TypeOK, Limits, Marks, Marking, MarkIdr, MarkSliding, MmcoEnd, UnmarkShort,
         UnmarkLong, ShortToLong, LimitLong, UnmarkAll, CurrentToLong, Mmco
<1>1. CASE MarkIdr
  <2> DEFINE d == MarkAllNonRef(dpb)
  <2>1. Remarked(dpb, d) /\ Unmarks(dpb, d) /\ ReferenceFrames(d) = {}
    BY <1>0, 0 \in Nat, MarkingRemarks, MarkingUnmarks
  <2>2. NumReferences(d) = 0
    BY <2>1, FS_EmptySet DEF NumReferences
  <2> HIDE DEF d
  <2>3. PICK r \in {"long", "short"} : Finish(d, Marked(cur, r))
    BY <1>1 DEF MarkIdr, d
  <2>4. Marked(cur, r).ref_pic
    BY <1>0 DEF Marked, Picture
  <2> QED
    BY <1>0, <2>1, <2>2, <2>3, <2>4, FinishLimits
<1>2. CASE MarkSliding
  <2> DEFINE d == SlidingWindow(dpb, MaxNumRefFrames, hdr.frame_num, MaxFrameNum)
  <2>1. Remarked(dpb, d) /\ Unmarks(dpb, d)
    BY <1>0, 0 \in Nat, MarkingRemarks, MarkingUnmarks
  <2>2. NumLongTerm(dpb) < MaxNumRefFrames
    BY <1>2 DEF MarkSliding, Limits, Slides
  <2>3. ~SlidingWindowFails(dpb, MaxNumRefFrames)
    BY <1>0, <2>2, SlidingWindowWorks
  <2>4. hdr.frame_num \in Int /\ MaxFrameNum \in Int /\ MaxNumRefFrames # 0
    BY <1>0, HdrTypes, ConstantsAssumption DEF IInv, TypeOK
  <2>5. NumReferences(d) < MaxNumRefFrames
    BY <1>0, <2>3, <2>4, SlidingWindowRoom
  <2> QED
    BY <1>0, <1>2, <2>1, <2>5, FinishLimits DEF MarkSliding
<1>3. CASE MmcoEnd
  <2>1. NumReferences(dpb) < MaxNumRefFrames
    BY <1>3 DEF MmcoEnd, Fits, NumReferences
  <2> QED
    BY <1>0, <1>3, <2>1, RemarkedSelf, UnmarksSelf, FinishLimits DEF MmcoEnd
<1>4. ASSUME NEW d, Unmarks(dpb, d), NEW c, Mmco(d, c), c.ref # "none" => c.ref_pic,
             cvs' = cvs \/ ~cvs'.needs_idr
      PROVE  Limits'
  <2>1. /\ d.max_num_frames = dpb.max_num_frames
        /\ NumFrames(d) <= NumFrames(dpb) /\ NumReferences(d) <= NumReferences(dpb)
    BY <1>0, <1>4, UnmarksBounds
  <2> QED
    BY <1>4, <2>1, MmcoLimits
<1>5. CASE UnmarkShort
  <2> PICK n \in PicNumXs : Mmco(Mmco1(dpb, n, hdr.frame_num, MaxFrameNum), cur)
    BY <1>5 DEF UnmarkShort
  <2>1. Unmarks(dpb, Mmco1(dpb, n, hdr.frame_num, MaxFrameNum))
    BY <1>0, MarkingUnmarks
  <2> QED
    BY <1>0, <1>4, <1>5, <2>1 DEF UnmarkShort
<1>6. CASE UnmarkLong
  <2> PICK n \in LongIdxs : Mmco(Mmco2(dpb, n), cur)
    BY <1>6 DEF UnmarkLong
  <2>1. Unmarks(dpb, Mmco2(dpb, n))
    BY <1>0, MarkingUnmarks
  <2> QED
    BY <1>0, <1>4, <1>6, <2>1 DEF UnmarkLong
<1>7. CASE LimitLong
  <2> PICK n \in LongIdxs : Mmco(Mmco4(dpb, n), cur)
    BY <1>7 DEF LimitLong
  <2>1. Unmarks(dpb, Mmco4(dpb, n))
    BY <1>0, MarkingUnmarks
  <2> QED
    BY <1>0, <1>4, <1>7, <2>1 DEF LimitLong
<1>8. CASE ShortToLong
  <2> PICK n \in PicNumXs, idx \in LongIdxs :
             Mmco(Mmco3(dpb, n, idx, hdr.frame_num, MaxFrameNum), cur)
    BY <1>8 DEF ShortToLong
  <2> DEFINE d == Mmco3(dpb, n, idx, hdr.frame_num, MaxFrameNum)
  <2>1. /\ d.max_num_frames = dpb.max_num_frames
        /\ NumFrames(d) <= NumFrames(dpb) /\ NumReferences(d) <= NumReferences(dpb)
    BY <1>0, Mmco3Bounds
  <2> QED
    BY <1>0, <1>8, <2>1, MmcoLimits DEF ShortToLong
<1>9. CASE UnmarkAll
  <2> DEFINE c == [cur EXCEPT !.frame_num = 0, !.poc = 0]
  <2>1. Mmco(MarkAllNonRef(dpb), c) /\ ~cvs'.needs_idr
    BY <1>9 DEF UnmarkAll, NewCvs
  <2>2. c.ref = cur.ref /\ c.ref_pic = cur.ref_pic
    BY <1>0 DEF Picture
  <2>3. Unmarks(dpb, MarkAllNonRef(dpb))
    BY <1>0, MarkingUnmarks
  <2> HIDE DEF c
  <2> QED
    BY <1>0, <1>4, <2>1, <2>2, <2>3
<1>10. CASE CurrentToLong
  <2> PICK idx \in LongIdxs :
        Mmco(Mmco6(dpb, idx), [Marked(cur, "long") EXCEPT !.long_term_frame_idx = idx])
    BY <1>10 DEF CurrentToLong
  <2> DEFINE c == [Marked(cur, "long") EXCEPT !.long_term_frame_idx = idx]
  <2>1. c.ref_pic
    BY <1>0 DEF Marked, Picture
  <2>2. Unmarks(dpb, Mmco6(dpb, idx))
    BY <1>0, MarkingUnmarks
  <2> QED
    BY <1>4, <1>10, <2>1, <2>2 DEF CurrentToLong
<1> QED
  BY <1>1, <1>2, <1>3, <1>5, <1>6, <1>7, <1>8, <1>9, <1>10 DEF Marking

(* When a loop of bumping is over, there is an empty frame buffer for the  *)
(* reference picture it makes room for.                                    *)
LEMMA RoomAfterBumping ==
  ASSUME SoundSps, IInv, Limits, phase \in {"gapbump", "bump"},
         NumReferences(dpb) < MaxNumRefFrames,
         NEW p, p.ref_pic, NEW mode, BumpOver({p}, mode)
  PROVE  HasEmptyFrameBuffer(dpb)
<1>0. DpbOk(dpb) /\ sps # NoSps
  BY DEF IInv, Limits, Sized, InPicture
<1>1. CASE NeededForOutput(dpb) = {}
  <2>1. NumFrames(dpb) <= NumReferences(dpb)
    BY <1>0, <1>1, OnlyReferences DEF Limits, Clean
  <2>2. MaxNumRefFrames <= dpb.max_num_frames /\ MaxNumRefFrames \in Nat
    BY <1>0, MaxRefsType
  <2>3. NumFrames(dpb) \in Nat /\ NumReferences(dpb) \in Nat /\ dpb.max_num_frames \in Nat
    BY <1>0, BufferCounts DEF DpbOk, Dpb
  <2>4. NumFrames(dpb) < dpb.max_num_frames
    BY <2>1, <2>2, <2>3
  <2> QED
    BY <2>4 DEF HasEmptyFrameBuffer, NumFrames
<1>2. CASE NeededForOutput(dpb) # {}
  <2>1. PICK low \in NeededForOutput(dpb) : IsLowestOutputNeeded(dpb, low)
    BY <1>0, <1>2, LowestExists
  <2>2. \E overflowed \in BOOLEAN : ~NeedsBump(dpb, low, {p}, mode, overflowed)
    BY <2>1 DEF BumpOver
  <2> QED
    BY <2>2 DEF NeedsBump, NormalBump
<1> QED
  BY <1>1, <1>2

LEMMA StoreLimits ==
  ASSUME Conforming, SoundSps, IInv, IInv', Limits, GapStore \/ Store
  PROVE  Limits'
<1>0. dpb \in Dpb /\ DpbOk(dpb) /\ MaxNumRefFrames \in Nat /\ dpb.max_num_frames \in Nat
      /\ NumFrames(dpb) \in Nat /\ NumReferences(dpb) \in Nat
      /\ NumFrames(dpb') \in Nat /\ NumReferences(dpb') \in Nat
  BY MaxRefsType, BufferCounts DEF IInv, DpbOk, Dpb
<1>1. ~cvs.needs_idr /\ ~Renewing /\ RefsWithinLimit /\ sps # NoSps
  BY InPictureLimits DEF GapStore, Store
<1>2. MaxNumRefFrames' = MaxNumRefFrames
  BY DEF GapStore, Store, spsVars, MaxNumRefFrames
<1>3. CASE GapStore /\ ret = "error"
  <2>1. /\ dpb' = dpb /\ sps' = sps /\ cvs' = cvs /\ cur' = cur /\ phase' = "fail"
    BY <1>3 DEF GapStore, spsVars
  <2>2. Within(dpb')
    BY <2>1, WithinSame
  <2> QED
    BY <1>1, <2>1, <2>2, OutOfPicture DEF InPicture
<1>4. CASE GapStore /\ ret # "error"
  <2> PICK poc \in GapPocs : dpb' = DpbAdd(dpb, GapPicture(gap, poc))
    BY <1>4 DEF GapStore
  <2> DEFINE p == GapPicture(gap, poc)
  <2>1. /\ p \in Picture /\ p.ref = "short" /\ GapPicture(gap, 0).ref_pic
    BY GapPictureType, ConstantsAssumption DEF IInv, TypeOK, GapPicture, NoPicture
  <2>2. /\ phase = "gapbump" /\ phase' = "gap" /\ sps' = sps /\ cvs' = cvs /\ cur' = cur
        /\ hdr' = hdr /\ BumpOver({GapPicture(gap, 0)}, "normal")
    BY <1>4 DEF GapStore, spsVars
  <2>3. NumReferences(dpb) < MaxNumRefFrames
    BY <2>2 DEF Limits, Free
  <2>4. HasEmptyFrameBuffer(dpb)
    BY <2>1, <2>2, <2>3, RoomAfterBumping
  <2> HIDE DEF p
  <2>5. /\ dpb'.max_num_frames = dpb.max_num_frames
        /\ NumFrames(dpb') <= NumFrames(dpb) + 1
        /\ NumReferences(dpb') <= NumReferences(dpb) + 1
        /\ LongTermRefs(dpb') = LongTermRefs(dpb)
    BY <1>0, <2>1, DpbAddBounds DEF p
  <2>6. NumFrames(dpb) < dpb.max_num_frames
    BY <2>4 DEF HasEmptyFrameBuffer, NumFrames
  <2>7. NumFrames(dpb') <= dpb'.max_num_frames /\ NumReferences(dpb') <= MaxNumRefFrames
    BY <1>0, <2>3, <2>5, <2>6
  <2>8. DpbWithinSize' /\ RefsWithinLimit'
    BY <1>2, <2>7 DEF DpbWithinSize, RefsWithinLimit, NumFrames, NumReferences
  <2>9. Slides'
    BY <1>2, <2>2, <2>5 DEF Limits, Slides, NumLongTerm
  <2>10. ~hdr.idr
    BY <2>2 DEF Limits, Opens
  <2> QED
    BY <1>1, <2>2, <2>5, <2>8, <2>9, <2>10
       DEF Limits, Sized, Opens, Clean, Free, Marks, InPicture
<1>5. CASE Store
  <2>1. /\ phase = "bump" /\ phase' = "livebump" /\ sps' = sps /\ cvs' = cvs
        /\ cur' = NoPicture /\ dpb' = DpbAdd(dpb, cur) /\ BumpOver({cur}, BumpLevel)
        /\ Stored
    BY <1>5 DEF Store, spsVars
  <2>2. cur.ref # "none" => NumReferences(dpb) < MaxNumRefFrames /\ cur.ref_pic
    BY <2>1 DEF Limits, Free, Marks
  <2>3. HasEmptyFrameBuffer(dpb)
    BY <2>1, <2>2, RoomAfterBumping DEF Stored
  <2>4. cur \in Picture
    BY DEF IInv, TypeOK
  <2>5. /\ dpb'.max_num_frames = dpb.max_num_frames
        /\ NumFrames(dpb') <= NumFrames(dpb) + 1
        /\ NumReferences(dpb') <=
             IF cur.ref = "none" THEN NumReferences(dpb) ELSE NumReferences(dpb) + 1
    BY <1>0, <2>1, <2>4, DpbAddBounds
  <2>6. NumFrames(dpb) < dpb.max_num_frames
    BY <2>3 DEF HasEmptyFrameBuffer, NumFrames
  <2>7. NumReferences(dpb) <= MaxNumRefFrames
    BY <1>1 DEF RefsWithinLimit, NumReferences
  <2>8. NumFrames(dpb') <= dpb'.max_num_frames /\ NumReferences(dpb') <= MaxNumRefFrames
    BY <1>0, <2>2, <2>5, <2>6, <2>7
  <2>9. DpbWithinSize' /\ RefsWithinLimit'
    BY <1>2, <2>8 DEF DpbWithinSize, RefsWithinLimit, NumFrames, NumReferences
  <2> QED
    BY <1>1, <2>1, <2>5, <2>9, NoPictureMark
       DEF Limits, Sized, Opens, Clean, Free, Slides, Marks, InPicture
<1> QED
  BY <1>3, <1>4, <1>5

LEMMA RestLimits ==
  ASSUME Conforming, SoundSps, IInv, IInv', Limits,
         \/ EndPicture \/ EndPictureFails \/ OutputDirectly \/ FrameDone
         \/ Drain \/ Flush \/ Stop \/ Start
  PROVE  Limits'
<1>0. dpb \in Dpb /\ DpbOk(dpb) /\ MaxNumRefFrames \in Nat
  BY MaxRefsType DEF IInv, DpbOk
<1>1. CASE EndPicture
  <2>1. /\ phase = "slices" /\ cur' = cur /\ sps' = sps /\ cvs' = cvs /\ hdr' = hdr
        /\ \/ cur.ref # "none" /\ phase' = "marking" /\ dpb' = dpb
           \/ cur.ref = "none" /\ phase' = "bump" /\ dpb' = DeleteUnused(dpb)
    BY <1>1 DEF EndPicture, callVars, spsVars
  <2>2. /\ Unmarks(dpb, dpb')
        /\ phase' = "bump" => Unused(dpb') = {}
    BY <1>0, <2>1, UnmarksSelf, DeleteUnusedUnmarks
  <2>3. Within(dpb')
    BY <2>2, WithinUnmarked
  <2>4. /\ DpbWithinSize' /\ (RefsWithinLimit => RefsWithinLimit')
        /\ sps' # NoSps => dpb'.max_num_frames = sps'.size
        /\ MaxNumRefFrames' = MaxNumRefFrames
    BY <2>1, <2>3, WithinLimits
  <2>5. ~cvs.needs_idr /\ RefsWithinLimit /\ sps # NoSps
    BY <2>1, InPictureLimits
  <2>6. Slides'
    BY <2>1, <2>4 DEF Limits, Slides
  <2> QED
    BY <2>1, <2>2, <2>4, <2>5, <2>6 DEF Limits, Sized, Opens, Clean, Free, Marks
<1>2. CASE EndPictureFails \/ OutputDirectly \/ FrameDone \/ Drain \/ Flush \/ Start
  <2>1. /\ sps' = sps /\ (cvs' = cvs \/ cvs'.needs_idr) /\ (cur' = cur \/ cur' = NoPicture)
        /\ ~InPicture' /\ phase' # "newseq"
        /\ phase \in {"slices", "bump", "livebump", "idle", "stopped"}
    <3>1. CASE EndPictureFails \/ OutputDirectly \/ FrameDone
      BY <3>1 DEF EndPictureFails, OutputDirectly, FrameDone, Return, spsVars, InPicture
    <3>2. CASE Drain \/ Flush \/ Start
      <4>1. sps' = sps /\ cur' = cur /\ ~InPicture' /\ phase' # "newseq"
        BY <3>2 DEF Drain, Flush, Start, callVars, spsVars, InPicture
      <4>2. cvs' = cvs \/ cvs'.needs_idr
        <5>1. Interrupted.needs_idr
          BY DEF Interrupted, NewCvs
        <5>2. cvs' = cvs \/ cvs' = Interrupted
          BY <3>2 DEF Drain, Flush, Start
        <5> QED
          BY <5>1, <5>2
      <4> QED
        BY <3>2, <4>1, <4>2 DEF Drain, Flush, Start
    <3> QED
      BY <1>2, <3>1, <3>2
  <2>2. /\ dpb'.max_num_frames = dpb.max_num_frames
        /\ dpb'.pic_list \in {dpb.pic_list, {}}
    BY <1>0, <1>2 DEF EndPictureFails, OutputDirectly, FrameDone, Drain, Flush, Start,
                      ClearDpb, DpbClear, SetLastOutput, Dpb
  <2>3. Within(dpb')
    BY <2>2, WithinSame, WithinEmptied
  <2> QED
    BY <2>1, <2>3, OutOfPicture DEF Renewing
<1>3. CASE Stop
  <2>1. /\ phase' = "stopped" /\ sps' = NoSps /\ dpb' = NewDpb /\ cur' = cur
    BY <1>3 DEF Stop, callVars
  <2>2. dpb'.pic_list = {} /\ dpb'.max_num_frames = 0
    BY <2>1 DEF NewDpb
  <2>3. NumReferences(dpb') = 0 /\ NumFrames(dpb') = 0
    BY <2>2, NoPictures
  <2>4. MaxNumRefFrames' = 1
    BY <2>1 DEF MaxNumRefFrames, NoSps
  <2>5. RefsWithinLimit' /\ DpbWithinSize'
    BY <2>2, <2>3, <2>4 DEF RefsWithinLimit, DpbWithinSize, NumReferences, NumFrames
  <2> QED
    BY <2>1, <2>5 DEF Limits, Sized, Opens, Clean, Free, Slides, Marks, InPicture
<1> QED
  BY <1>1, <1>2, <1>3

LEMMA LimitsInit == Init => Limits
<1> SUFFICES ASSUME Init PROVE Limits
  OBVIOUS
<1>1. /\ phase = "idle" /\ sps = NoSps /\ dpb.pic_list = {} /\ dpb.max_num_frames = 0
      /\ cur.ref = "none"
  BY NoPictureMark DEF Init, NewDpb
<1>2. NumReferences(dpb) = 0 /\ NumFrames(dpb) = 0
  BY <1>1, NoPictures
<1>3. MaxNumRefFrames = 1
  BY <1>1 DEF MaxNumRefFrames, NoSps
<1>4. RefsWithinLimit /\ DpbWithinSize
  BY <1>1, <1>2, <1>3 DEF RefsWithinLimit, DpbWithinSize, NumReferences, NumFrames
<1> QED
  BY <1>1, <1>4 DEF Limits, Sized, Opens, Clean, Free, Slides, Marks, InPicture

LEMMA LimitsNext ==
  ASSUME Conforming, SoundSps, IInv, Limits, [Next]_vars
  PROVE  Limits'
<1>0. IInv'
  BY NextInv
<1>1. CASE UNCHANGED vars
  BY <1>1 DEF vars, callVars, spsVars, Limits, Sized, Opens, Clean, Free, Slides, Marks,
              RefsWithinLimit, Renewing, DpbWithinSize, InPicture, MaxNumRefFrames
<1>2. CASE \/ HandleFrame \/ BadNal \/ FailFrame \/ NewSequence \/ Nals
           \/ \E s \in SpsSet : ParseSps(s)
  BY <1>0, <1>2, HeadersLimits DEF Nals
<1>3. CASE GapMark \/ StartPicture \/ StartPictureClear
  BY <1>0, <1>3, GapLimits
<1>4. CASE Bumping \/ DrainTurn \/ DrainOver
  BY <1>0, <1>4, OutputLimits
<1>5. CASE Marking
  BY <1>0, <1>5, MarkingLimits
<1>6. CASE GapStore \/ Store
  BY <1>0, <1>6, StoreLimits
<1>7. CASE \/ EndPicture \/ EndPictureFails \/ OutputDirectly \/ FrameDone
           \/ Drain \/ Flush \/ Stop \/ Start
  BY <1>0, <1>7, RestLimits
<1> QED
  BY <1>1, <1>2, <1>3, <1>4, <1>5, <1>6, <1>7 DEF Next, Work, Calls

LEMMA LimitsInvariance ==
  ASSUME Conforming, SoundSps
  PROVE  Spec => [](IInv /\ Limits)
<1>1. IInv /\ Limits /\ [Next]_vars => Limits'
  BY LimitsNext
<1> QED
  BY <1>1, LimitsInit, Invariance, PTL DEF Spec

(* A conforming stream never makes the buffer exceed max_num_frames: the   *)
(* case dpb_add reports as "exceed the max size" is unreachable, whatever  *)
(* the size, the compliance and the callbacks that fail.                   *)
THEOREM DpbWithinSizeCorrect ==
  ASSUME Conforming, SoundSps
  PROVE  Spec => []DpbWithinSize
<1>1. Limits => DpbWithinSize
  BY DEF Limits
<1> QED
  BY <1>1, LimitsInvariance, PTL

(* A conforming stream never has more than max_num_ref_frames references   *)
(* in the buffer, as the comment of the sliding window expects, but after  *)
(* a sequence parameter set that lowers it, until its IDR picture starts.  *)
THEOREM RefsWithinLimitCorrect ==
  ASSUME Conforming, SoundSps
  PROVE  Spec => [](RefsWithinLimit \/ Renewing)
<1>1. Limits => RefsWithinLimit \/ Renewing
  BY DEF Limits
<1> QED
  BY <1>1, LimitsInvariance, PTL
=============================================================================
