------------------------- MODULE H265DecoderProofs -------------------------
(***************************************************************************)
(* Theorems about H265Decoder for every value of its constants: the types  *)
(* and the output counter. The lemmas they rest on come first: what each   *)
(* operation of H265Dpb preserves, for every buffer.                       *)
(***************************************************************************)
EXTENDS H265Decoder, FiniteSetTheorems, WellFoundedInduction, SequenceTheorems, TLAPS

(* The pictures of a buffer are finitely many, at distinct places below    *)
(* the next one, and each of a frame of its own.                           *)
Placed(d) ==
    /\ IsFiniteSet(d.pic_list)
    /\ \A p \in d.pic_list : p.order < d.tail
    /\ \A p, q \in d.pic_list : p.order = q.order => p = q

Named(d) ==
    /\ \A p, q \in d.pic_list : p.id = q.id => p = q
    /\ \A p \in d.pic_list : p.id # 0

Counted(d) == d.num_output_needed = Cardinality(NeededForOutput(d))

DpbOk(d) == d \in Dpb /\ Placed(d) /\ Named(d) /\ Counted(d)

(* d2 is d with the pictures of S alone, those of N waiting for output,    *)
(* each perhaps marked anew and at another place.                          *)
Moves(d, S, N, f) ==
    /\ \A p \in S : /\ f[p].id = p.id
                    /\ f[p].order < d.tail
                    /\ f[p].needed_for_output <=> p \in N
    /\ \A p, q \in S : f[p].order = f[q].order => p = q

Updated(d, S, N, d2) ==
    \E f \in [S -> Picture] :
        /\ Moves(d, S, N, f)
        /\ d2 = [d EXCEPT !.pic_list = {f[p] : p \in S}, !.num_output_needed = Cardinality(N)]

-----------------------------------------------------------------------------
(* What an update of the buffer's own fields has to show.                  *)
LEMMA DpbUpdate ==
  ASSUME NEW d \in Dpb, NEW S \in SUBSET Picture, NEW t \in Nat, NEW n \in Int
  PROVE  [d EXCEPT !.pic_list = S, !.tail = t, !.num_output_needed = n] \in Dpb
BY DEF Dpb

LEMMA NewDpbOk == DpbOk(NewDpb) /\ NewDpb.pic_list = {} /\ NeededForOutput(NewDpb) = {}
<1>1. NewDpb \in Dpb
  BY DEF NewDpb, Dpb
<1>2. NewDpb.pic_list = {} /\ NeededForOutput(NewDpb) = {} /\ NewDpb.num_output_needed = 0
  BY DEF NewDpb, NeededForOutput
<1> QED
  BY <1>1, <1>2, FS_EmptySet DEF DpbOk, Placed, Named, Counted

LEMMA DpbClearOk ==
  ASSUME NEW d \in Dpb
  PROVE  /\ DpbOk(DpbClear(d))
         /\ DpbClear(d).pic_list = {}
         /\ NeededForOutput(DpbClear(d)) = {}
<1>1. DpbClear(d) \in Dpb
  <2>1. {} \in SUBSET Picture /\ 0 \in Nat /\ 0 \in Int
    OBVIOUS
  <2> QED
    BY <2>1, DpbUpdate, Zenon DEF DpbClear
<1>2. /\ DpbClear(d).pic_list = {} /\ NeededForOutput(DpbClear(d)) = {}
      /\ DpbClear(d).num_output_needed = 0
  BY DEF DpbClear, Dpb, NeededForOutput
<1> QED
  BY <1>1, <1>2, FS_EmptySet DEF DpbOk, Placed, Named, Counted

(* The size of the buffer may change under the pictures.                   *)
LEMMA SizeOk ==
  ASSUME NEW d, DpbOk(d), NEW size \in Nat
  PROVE  /\ DpbOk([d EXCEPT !.max_num_pics = size])
         /\ [d EXCEPT !.max_num_pics = size].pic_list = d.pic_list
BY DEF DpbOk, Dpb, Placed, Named, Counted, NeededForOutput

LEMMA NeededFinite ==
  ASSUME NEW d, DpbOk(d)
  PROVE  IsFiniteSet(NeededForOutput(d)) /\ Cardinality(NeededForOutput(d)) \in Nat
<1>1. NeededForOutput(d) \in SUBSET d.pic_list /\ IsFiniteSet(d.pic_list)
  BY DEF DpbOk, Placed, NeededForOutput
<1>2. IsFiniteSet(NeededForOutput(d))
  BY <1>1, FS_Subset
<1> QED
  BY <1>2, FS_CardinalityType

-----------------------------------------------------------------------------
LEMMA IdsOfImage ==
  ASSUME NEW S, NEW f, \A p \in S : f[p].id = p.id
  PROVE  Ids({f[p] : p \in S}) = Ids(S)
<1>1. ASSUME NEW i \in Ids({f[p] : p \in S})
      PROVE  i \in Ids(S)
  <2> PICK p \in S : i = f[p].id
    BY <1>1 DEF Ids
  <2> QED
    BY DEF Ids
<1>2. ASSUME NEW i \in Ids(S)
      PROVE  i \in Ids({f[p] : p \in S})
  <2> PICK p \in S : i = p.id
    BY <1>2 DEF Ids
  <2> f[p] \in {f[q] : q \in S} /\ i = f[p].id
    OBVIOUS
  <2> QED
    BY DEF Ids
<1> QED
  BY <1>1, <1>2

LEMMA UpdatedOk ==
  ASSUME NEW d, DpbOk(d), NEW S \in SUBSET d.pic_list, NEW N \in SUBSET S,
         NEW d2, Updated(d, S, N, d2)
  PROVE  /\ DpbOk(d2)
         /\ Ids(d2.pic_list) = Ids(S)
         /\ Ids(NeededForOutput(d2)) = Ids(N)
<1> PICK f \in [S -> Picture] :
        /\ Moves(d, S, N, f)
        /\ d2 = [d EXCEPT !.pic_list = {f[p] : p \in S}, !.num_output_needed = Cardinality(N)]
  BY DEF Updated
<1> DEFINE T == {f[p] : p \in S}
           g == [p \in N |-> f[p]]
<1>0. IsFiniteSet(S) /\ IsFiniteSet(N) /\ Cardinality(N) \in Int
  <2>1. IsFiniteSet(S)
    BY FS_Subset DEF DpbOk, Placed
  <2>2. IsFiniteSet(N)
    BY <2>1, FS_Subset
  <2>3. Cardinality(N) \in Nat
    BY <2>2, FS_CardinalityType
  <2> QED
    BY <2>1, <2>2, <2>3
<1>1. d2.pic_list = T /\ d2.tail = d.tail /\ d2.num_output_needed = Cardinality(N)
  BY DEF DpbOk, Dpb
<1>2. d2 \in Dpb
  BY <1>0 DEF DpbOk, Dpb
<1>3. \A p, q \in S : f[p] = f[q] => p = q
  BY DEF Moves
<1>4. IsFiniteSet(T)
  <2>1. f \in Surjection(S, T)
    BY DEF Surjection
  <2> QED
    BY <1>0, <2>1, FS_Surjection
<1>5. Placed(d2)
  BY <1>1, <1>4 DEF Moves, Placed
<1>6. NeededForOutput(d2) = {f[p] : p \in N}
  BY <1>1 DEF NeededForOutput, Moves
<1>7. Named(d2)
  BY <1>1 DEF DpbOk, Named, Moves
<1>8. Counted(d2)
  <2>1. g \in Bijection(N, NeededForOutput(d2))
    BY <1>3, <1>6 DEF Bijection, Injection, Surjection, IsInjective
  <2>2. ExistsBijection(N, NeededForOutput(d2))
    BY <2>1 DEF ExistsBijection
  <2>3. Cardinality(NeededForOutput(d2)) = Cardinality(N)
    BY <1>0, <2>2, FS_Bijection
  <2> QED
    BY <1>1, <2>3 DEF Counted
<1>9. Ids(d2.pic_list) = Ids(S) /\ Ids(NeededForOutput(d2)) = Ids(N)
  <2>1. \A p \in S : f[p].id = p.id
    BY DEF Moves
  <2>2. Ids(d2.pic_list) = Ids(S)
    BY <1>1, <2>1, IdsOfImage
  <2>3. \A p \in N : f[p].id = p.id
    BY <2>1
  <2>5. Ids({f[p] : p \in N}) = Ids(N)
    BY <2>3, IdsOfImage
  <2>4. Ids(NeededForOutput(d2)) = Ids(N)
    BY <1>6, <2>5
  <2> QED
    BY <2>2, <2>4
<1> QED
  BY <1>2, <1>5, <1>7, <1>8, <1>9 DEF DpbOk

(* Marks and ages change, nothing else.                                    *)
Marks(d, f, d2) ==
    /\ f \in [d.pic_list -> Picture]
    /\ \A p \in d.pic_list : /\ f[p].id = p.id /\ f[p].order = p.order
                             /\ f[p].needed_for_output = p.needed_for_output
    /\ d2 = [d EXCEPT !.pic_list = {f[p] : p \in d.pic_list}]

LEMMA MarkedOk ==
  ASSUME NEW d, DpbOk(d), NEW f, NEW d2, Marks(d, f, d2)
  PROVE  /\ DpbOk(d2)
         /\ d2.tail = d.tail /\ d2.num_output_needed = d.num_output_needed
         /\ Ids(d2.pic_list) = Ids(d.pic_list)
         /\ Ids(NeededForOutput(d2)) = Ids(NeededForOutput(d))
<1>1. NeededForOutput(d) \in SUBSET d.pic_list /\ d.pic_list \in SUBSET d.pic_list
  BY DEF NeededForOutput
<1>2. Moves(d, d.pic_list, NeededForOutput(d), f)
  BY DEF Marks, Moves, NeededForOutput, DpbOk, Placed, Dpb, Picture
<1>3. d2 = [d EXCEPT !.pic_list = {f[p] : p \in d.pic_list},
                     !.num_output_needed = Cardinality(NeededForOutput(d))]
  BY DEF Marks, DpbOk, Counted, Dpb
<1>4. Updated(d, d.pic_list, NeededForOutput(d), d2)
  BY <1>2, <1>3 DEF Updated, Marks
<1>5. d2.tail = d.tail /\ d2.num_output_needed = d.num_output_needed
  BY DEF Marks, DpbOk, Dpb
<1>6. /\ DpbOk(d2)
      /\ Ids(d2.pic_list) = Ids(d.pic_list)
      /\ Ids(NeededForOutput(d2)) = Ids(NeededForOutput(d))
  BY <1>1, <1>4, UpdatedOk
<1> QED
  BY <1>5, <1>6

LEMMA MarkAllNonRefOk ==
  ASSUME NEW d, DpbOk(d)
  PROVE  /\ DpbOk(MarkAllNonRef(d))
         /\ Ids(MarkAllNonRef(d).pic_list) = Ids(d.pic_list)
         /\ Ids(NeededForOutput(MarkAllNonRef(d))) = Ids(NeededForOutput(d))
<1> DEFINE f == [p \in d.pic_list |-> [p EXCEPT !.ref = FALSE]]
<1>1. f \in [d.pic_list -> Picture]
  BY DEF DpbOk, Dpb, Picture
<1>2. \A p \in d.pic_list : /\ f[p].id = p.id /\ f[p].order = p.order
                            /\ f[p].needed_for_output = p.needed_for_output
  BY DEF DpbOk, Dpb, Picture
<1>3. {f[p] : p \in d.pic_list} = {[p EXCEPT !.ref = FALSE] : p \in d.pic_list}
  OBVIOUS
<1>4. MarkAllNonRef(d) = [d EXCEPT !.pic_list = {f[p] : p \in d.pic_list}]
  BY <1>3 DEF MarkAllNonRef, DpbOk, Dpb
<1>5. Marks(d, f, MarkAllNonRef(d))
  BY <1>1, <1>2, <1>4 DEF Marks
<1> HIDE DEF f
<1> QED
  BY <1>5, MarkedOk

LEMMA MarkLongTermOk ==
  ASSUME NEW d, DpbOk(d), NEW S
  PROVE  /\ DpbOk(MarkLongTerm(d, S))
         /\ Ids(MarkLongTerm(d, S).pic_list) = Ids(d.pic_list)
         /\ Ids(NeededForOutput(MarkLongTerm(d, S))) = Ids(NeededForOutput(d))
<1> DEFINE f == [p \in d.pic_list |-> IF p \in S THEN [p EXCEPT !.long_term = TRUE] ELSE p]
<1>1. f \in [d.pic_list -> Picture]
  <2>1. \A p \in Picture : [p EXCEPT !.long_term = TRUE] \in Picture
    BY DEF Picture
  <2> QED
    BY <2>1 DEF DpbOk, Dpb
<1>2. \A p \in d.pic_list : /\ f[p].id = p.id /\ f[p].order = p.order
                            /\ f[p].needed_for_output = p.needed_for_output
  BY DEF DpbOk, Dpb, Picture
<1>3. {f[p] : p \in d.pic_list} =
        {IF p \in S THEN [p EXCEPT !.long_term = TRUE] ELSE p : p \in d.pic_list}
  OBVIOUS
<1>4. MarkLongTerm(d, S) = [d EXCEPT !.pic_list = {f[p] : p \in d.pic_list}]
  BY <1>3 DEF MarkLongTerm, DpbOk, Dpb
<1>5. Marks(d, f, MarkLongTerm(d, S))
  BY <1>1, <1>2, <1>4 DEF Marks
<1> HIDE DEF f
<1> QED
  BY <1>5, MarkedOk

LEMMA MarkRpsOk ==
  ASSUME NEW d, DpbOk(d), NEW rps, NEW poc
  PROVE  /\ DpbOk(MarkRps(d, rps, poc))
         /\ Ids(MarkRps(d, rps, poc).pic_list) = Ids(d.pic_list)
         /\ Ids(NeededForOutput(MarkRps(d, rps, poc))) = Ids(NeededForOutput(d))
<1> DEFINE inSet == Pocs({p \in d.pic_list : p.id \in Referred(RefPicSetsOf(d, rps, poc))})
           d1 == LongTermMarked(d, rps)
           unmarked(p) == [p EXCEPT !.ref = FALSE, !.long_term = FALSE]
           f == [p \in d1.pic_list |-> IF p.poc \in inSet THEN p ELSE unmarked(p)]
           d2 == MarkRps(d, rps, poc)
<1>1. /\ DpbOk(d1)
      /\ Ids(d1.pic_list) = Ids(d.pic_list)
      /\ Ids(NeededForOutput(d1)) = Ids(NeededForOutput(d))
  BY MarkLongTermOk DEF LongTermMarked
<1>2. \A S : [d EXCEPT !.pic_list = S] = [d1 EXCEPT !.pic_list = S]
  BY DEF LongTermMarked, MarkLongTerm, DpbOk, Dpb
<1>3. d2 = [d1 EXCEPT !.pic_list =
              {IF p.poc \in inSet THEN p ELSE unmarked(p) : p \in d1.pic_list}]
  <2>1. d2 = [d EXCEPT !.pic_list =
                {IF p.poc \in inSet THEN p ELSE unmarked(p) : p \in d1.pic_list}]
    BY Zenon DEF MarkRps
  <2> QED
    BY <1>2, <2>1, Zenon
<1> HIDE DEF inSet, d1, d2
<1>4. f \in [d1.pic_list -> Picture]
  BY <1>1 DEF DpbOk, Dpb, Picture
<1>5. \A p \in d1.pic_list : /\ f[p].id = p.id /\ f[p].order = p.order
                             /\ f[p].needed_for_output = p.needed_for_output
  BY <1>1 DEF DpbOk, Dpb, Picture
<1>6. {f[p] : p \in d1.pic_list} =
        {IF p.poc \in inSet THEN p ELSE unmarked(p) : p \in d1.pic_list}
  OBVIOUS
<1>7. Marks(d1, f, d2)
  BY <1>3, <1>4, <1>5, <1>6 DEF Marks
<1> HIDE DEF f
<1> QED
  BY <1>1, <1>7, MarkedOk DEF d2

LEMMA AgedOk ==
  ASSUME NEW d, DpbOk(d), NEW d2, d2 = [d EXCEPT !.pic_list = Aged(@)]
  PROVE  /\ DpbOk(d2)
         /\ d2.tail = d.tail /\ d2.num_output_needed = d.num_output_needed
         /\ Ids(d2.pic_list) = Ids(d.pic_list)
         /\ Ids(NeededForOutput(d2)) = Ids(NeededForOutput(d))
<1> DEFINE older(p) == [p EXCEPT !.latency = @ + 1]
           f == [p \in d.pic_list |-> IF p.needed_for_output THEN older(p) ELSE p]
<1>1. f \in [d.pic_list -> Picture]
  BY DEF DpbOk, Dpb, Picture
<1>2. \A p \in d.pic_list : /\ f[p].id = p.id /\ f[p].order = p.order
                            /\ f[p].needed_for_output = p.needed_for_output
  BY DEF DpbOk, Dpb, Picture
<1>3. {f[p] : p \in d.pic_list} = Aged(d.pic_list)
  BY DEF Aged
<1>4. d2 = [d EXCEPT !.pic_list = {f[p] : p \in d.pic_list}]
  BY <1>3 DEF DpbOk, Dpb
<1>5. Marks(d, f, d2)
  BY <1>1, <1>2, <1>4 DEF Marks
<1> HIDE DEF f
<1> QED
  BY <1>5, MarkedOk

-----------------------------------------------------------------------------
(* A new frame is stored.                                                  *)
LEMMA StoredOk ==
  ASSUME NEW d, DpbOk(d), NEW q \in Picture,
         q.id # 0, q.id \notin Ids(d.pic_list), q.order = d.tail,
         NEW d2 \in Dpb, d2.pic_list = d.pic_list \union {q}, d2.tail = d.tail + 1,
         d2.num_output_needed =
           IF q.needed_for_output THEN d.num_output_needed + 1 ELSE d.num_output_needed
  PROVE  /\ DpbOk(d2)
         /\ Ids(d2.pic_list) = Ids(d.pic_list) \union {q.id}
         /\ Ids(NeededForOutput(d2)) =
              Ids(NeededForOutput(d)) \union (IF q.needed_for_output THEN {q.id} ELSE {})
<1> DEFINE N == NeededForOutput(d)
<1>4. /\ q \notin d.pic_list
      /\ d.tail \in Nat
      /\ \A a \in d.pic_list : a.order \in Nat /\ a.order < d.tail /\ a.order # q.order
  <2>1. d.tail \in Nat /\ d.pic_list \subseteq Picture
    BY DEF DpbOk, Dpb
  <2>2. \A a \in d.pic_list : a.order \in Nat /\ a.order < d.tail
    BY <2>1 DEF DpbOk, Placed, Picture
  <2> QED
    BY <2>1, <2>2
<1>5. Placed(d2)
  <2>1. IsFiniteSet(d2.pic_list)
    BY FS_AddElement DEF DpbOk, Placed
  <2>2. \A a \in d2.pic_list : a.order < d2.tail
    BY <1>4
  <2>3. \A a, b \in d2.pic_list : a.order = b.order => a = b
    BY <1>4 DEF DpbOk, Placed
  <2> QED
    BY <2>1, <2>2, <2>3 DEF Placed
<1>6. NeededForOutput(d2) = N \union (IF q.needed_for_output THEN {q} ELSE {})
  BY DEF NeededForOutput
<1>7. Named(d2)
  BY DEF DpbOk, Named, Ids
<1>8. Counted(d2)
  <2>1. IsFiniteSet(N) /\ q \notin N
    BY <1>4, NeededFinite DEF NeededForOutput
  <2>2. Cardinality(N \union {q}) = Cardinality(N) + 1
    BY <2>1, FS_AddElement
  <2> QED
    BY <1>6, <2>2 DEF DpbOk, Counted
<1>9. /\ Ids(d2.pic_list) = Ids(d.pic_list) \union {q.id}
      /\ Ids(NeededForOutput(d2)) = Ids(N) \union (IF q.needed_for_output THEN {q.id} ELSE {})
  BY <1>6 DEF Ids
<1> QED
  BY <1>5, <1>7, <1>8, <1>9 DEF DpbOk

LEMMA DpbAddOk ==
  ASSUME NEW d, DpbOk(d), NEW p \in Picture, p.id # 0, p.id \notin Ids(d.pic_list)
  PROVE  /\ DpbOk(DpbAdd(d, p))
         /\ Ids(DpbAdd(d, p).pic_list) = Ids(d.pic_list) \union {p.id}
         /\ Ids(NeededForOutput(DpbAdd(d, p))) =
              Ids(NeededForOutput(d)) \union (IF p.output_flag THEN {p.id} ELSE {})
<1> DEFINE q == [p EXCEPT !.order = d.tail, !.needed_for_output = p.output_flag,
                          !.ref = TRUE, !.long_term = FALSE]
           aged == [d EXCEPT !.pic_list = Aged(@)]
           d1 == IF p.output_flag THEN aged ELSE d
           d2 == DpbAdd(d, p)
           n == IF p.output_flag THEN d.num_output_needed + 1 ELSE d.num_output_needed
<1>1. /\ q \in Picture /\ q.order = d.tail /\ q.id = p.id
      /\ q.needed_for_output = p.output_flag
  BY DEF DpbOk, Dpb, Picture
<1>2. /\ DpbOk(aged)
      /\ aged.tail = d.tail /\ aged.num_output_needed = d.num_output_needed
      /\ Ids(aged.pic_list) = Ids(d.pic_list)
      /\ Ids(NeededForOutput(aged)) = Ids(NeededForOutput(d))
  BY AgedOk
<1>3. aged.pic_list = Aged(d.pic_list)
  BY DEF DpbOk, Dpb
<1>4. d1.pic_list = IF p.output_flag THEN Aged(d.pic_list) ELSE d.pic_list
  BY <1>3
<1> HIDE DEF aged, q
<1>5. /\ DpbOk(d1)
      /\ d1.tail = d.tail /\ d1.num_output_needed = d.num_output_needed
      /\ Ids(d1.pic_list) = Ids(d.pic_list)
      /\ Ids(NeededForOutput(d1)) = Ids(NeededForOutput(d))
  BY <1>2
<1> HIDE DEF d1
<1>6. d2 = [d EXCEPT !.pic_list = d1.pic_list \union {q}, !.tail = d.tail + 1,
                     !.num_output_needed = n]
  BY <1>4 DEF DpbAdd, q, DpbOk, Dpb
<1>7. d2 \in Dpb /\ d2.pic_list = d1.pic_list \union {q} /\ d2.tail = d1.tail + 1
      /\ d2.num_output_needed = n
  <2>1. d \in Dpb /\ d.tail + 1 \in Nat /\ n \in Int
    BY DEF DpbOk, Dpb
  <2>2. d1.pic_list \union {q} \in SUBSET Picture
    BY <1>1, <1>5 DEF DpbOk, Dpb
  <2> HIDE DEF n, d2
  <2>3. d2 \in Dpb
    BY <1>6, <2>1, <2>2, DpbUpdate, Zenon
  <2> QED
    BY <1>5, <1>6, <2>1, <2>3 DEF Dpb
<1> HIDE DEF d2
<1>9. /\ q.id # 0 /\ q.id \notin Ids(d1.pic_list) /\ q.order = d1.tail
      /\ d2.num_output_needed =
           IF q.needed_for_output THEN d1.num_output_needed + 1 ELSE d1.num_output_needed
  BY <1>1, <1>5, <1>7
<1> HIDE DEF n
<1>8. /\ DpbOk(d2)
      /\ Ids(d2.pic_list) = Ids(d1.pic_list) \union {q.id}
      /\ Ids(NeededForOutput(d2)) =
           Ids(NeededForOutput(d1)) \union (IF q.needed_for_output THEN {q.id} ELSE {})
  BY <1>1, <1>5, <1>7, <1>9, StoredOk
<1> QED
  BY <1>1, <1>5, <1>8 DEF d2

LEMMA DeleteUnusedOk ==
  ASSUME NEW d, DpbOk(d)
  PROVE  /\ DpbOk(DeleteUnused(d))
         /\ NeededForOutput(DeleteUnused(d)) = NeededForOutput(d)
         /\ Ids(DeleteUnused(d).pic_list) = Ids(d.pic_list) \ Ids(Unused(d))
         /\ Ids(Unused(d)) \subseteq Ids(d.pic_list)
<1> DEFINE d2 == DeleteUnused(d)
<1>1. /\ d2.pic_list = d.pic_list \ Unused(d) /\ d2.tail = d.tail
      /\ d2.num_output_needed = d.num_output_needed
      /\ d2 \in Dpb
  BY DEF DeleteUnused, DpbOk, Dpb
<1>2. NeededForOutput(d2) = NeededForOutput(d)
  BY <1>1 DEF NeededForOutput, Unused
<1>3. IsFiniteSet(d2.pic_list)
  BY <1>1, FS_Subset DEF DpbOk, Placed
<1>4. Unused(d) \subseteq d.pic_list
  BY DEF Unused
<1>5. Ids(d2.pic_list) = Ids(d.pic_list) \ Ids(Unused(d))
  BY <1>1, <1>4 DEF Ids, DpbOk, Named
<1> HIDE DEF d2
<1>6. DpbOk(d2)
  BY <1>1, <1>2, <1>3 DEF DpbOk, Placed, Named, Counted
<1> QED
  BY <1>2, <1>4, <1>5, <1>6 DEF d2, Ids

(* Bumping outputs a picture and counts it off.                            *)
LEMMA BumpOk ==
  ASSUME NEW d, DpbOk(d), NEW p \in NeededForOutput(d), NEW drain \in BOOLEAN
  PROVE  /\ DpbOk(Bump(d, p, drain))
         /\ Ids(Bump(d, p, drain).pic_list) =
              IF Leaves(p, drain) THEN Ids(d.pic_list) \ {p.id} ELSE Ids(d.pic_list)
         /\ Ids(NeededForOutput(Bump(d, p, drain))) = Ids(NeededForOutput(d)) \ {p.id}
<1> DEFINE N == NeededForOutput(d) \ {p}
           d2 == Bump(d, p, drain)
           moved(q) == [q EXCEPT !.order = p.order]
           output(q) == [q EXCEPT !.needed_for_output = FALSE]
<1>1. /\ p \in d.pic_list /\ p \in Picture
      /\ d \in Dpb /\ d.pic_list \subseteq Picture /\ d.tail \in Nat
  BY DEF NeededForOutput, DpbOk, Dpb
<1>2. d.num_output_needed - 1 = Cardinality(N)
  BY NeededFinite, FS_RemoveElement DEF DpbOk, Counted
<1>3. Ids(N) = Ids(NeededForOutput(d)) \ {p.id}
  BY <1>1 DEF Ids, NeededForOutput, DpbOk, Named
<1>4. Ids(d.pic_list \ {p}) = Ids(d.pic_list) \ {p.id}
  BY <1>1 DEF Ids, NeededForOutput, DpbOk, Named
<1>5. N \subseteq d.pic_list \ {p} /\ N \subseteq d.pic_list
  BY DEF NeededForOutput
<1>6. CASE Leaves(p, drain)
  <2> DEFINE S == d.pic_list \ {p}
             Last(q) == \A r \in d.pic_list : r.order <= q.order
             f == [q \in S |-> IF Last(q) THEN moved(q) ELSE q]
  <2>1. \A q \in Picture : /\ moved(q) \in Picture /\ moved(q).id = q.id
                           /\ moved(q).order = p.order
                           /\ moved(q).needed_for_output = q.needed_for_output
    BY <1>1 DEF Picture
  <2>2. f \in [S -> Picture]
    <3> HIDE DEF moved, Last
    <3> QED
      BY <1>1, <2>1
  <2>3. Moves(d, S, N, f)
    <3> HIDE DEF moved
    <3>1. \A q \in S : /\ f[q].id = q.id
                       /\ f[q].order = (IF Last(q) THEN p.order ELSE q.order)
                       /\ f[q].needed_for_output = q.needed_for_output
      <4> HIDE DEF Last
      <4> QED
        BY <1>1, <2>1
    <3>2. \A q \in S : f[q].order < d.tail
      BY <1>1, <3>1 DEF DpbOk, Placed
    <3>3. \A q \in S : f[q].needed_for_output <=> q \in N
      <4>1. \A q \in S : q.needed_for_output <=> q \in N
        BY DEF NeededForOutput
      <4> QED
        BY <3>1, <4>1
    <3>4. \A q, r \in S : f[q].order = f[r].order => q = r
      <4>1. \A q, r \in d.pic_list : q.order \in Nat /\ (q.order = r.order => q = r)
        BY <1>1 DEF DpbOk, Placed, Picture
      <4>2. \A q, r \in S : Last(q) /\ Last(r) => q = r
        BY <4>1
      <4> HIDE DEF f, Last
      <4> QED
        BY <1>1, <3>1, <4>1, <4>2
    <3> HIDE DEF f
    <3> QED
      BY <3>1, <3>2, <3>3, <3>4 DEF Moves
  <2>4. RemoveFast(d.pic_list, p) = {f[q] : q \in S}
    BY DEF RemoveFast
  <2>5. d2 = [d EXCEPT !.pic_list = {f[q] : q \in S}, !.num_output_needed = Cardinality(N)]
    <3> HIDE DEF f, S, N
    <3> QED
      BY <1>1, <1>2, <1>6, <2>4 DEF Bump, Dpb
  <2> HIDE DEF f, d2
  <2>6. Updated(d, S, N, d2)
    BY <2>2, <2>3, <2>5 DEF Updated
  <2>7. S \in SUBSET d.pic_list /\ N \in SUBSET S
    BY <1>5
  <2> HIDE DEF S, N
  <2>8. DpbOk(d2) /\ Ids(d2.pic_list) = Ids(S) /\ Ids(NeededForOutput(d2)) = Ids(N)
    BY <2>6, <2>7, UpdatedOk
  <2> QED
    BY <1>3, <1>4, <1>6, <2>8 DEF S, d2
<1>7. CASE ~Leaves(p, drain)
  <2> DEFINE S == d.pic_list
             f == [q \in S |-> IF q = p THEN output(q) ELSE q]
  <2>1. \A q \in Picture : /\ output(q) \in Picture /\ output(q).id = q.id
                           /\ output(q).order = q.order
                           /\ output(q).needed_for_output = FALSE
    BY DEF Picture
  <2>2. f \in [S -> Picture]
    <3> HIDE DEF output
    <3> QED
      BY <1>1, <2>1
  <2>3. Moves(d, S, N, f)
    <3> HIDE DEF output
    <3>1. \A q \in S : /\ f[q].id = q.id /\ f[q].order = q.order
                       /\ f[q].needed_for_output = (q.needed_for_output /\ q # p)
      <4>1. \A q \in S : q.needed_for_output \in BOOLEAN
        BY <1>1 DEF Picture
      <4> QED
        BY <1>1, <2>1, <4>1
    <3>2. \A q \in S : (q.needed_for_output /\ q # p) <=> q \in N
      BY DEF NeededForOutput
    <3> HIDE DEF f, N
    <3>3. \A q \in S : q.order < d.tail
      BY DEF DpbOk, Placed
    <3>4. \A q, r \in S : q.order = r.order => q = r
      BY DEF DpbOk, Placed
    <3>5. \A q \in S : f[q].needed_for_output <=> q \in N
      BY <3>1, <3>2
    <3> HIDE DEF S
    <3> QED
      BY <3>1, <3>3, <3>4, <3>5 DEF Moves
  <2>4. {f[q] : q \in S} = (S \ {p}) \union {output(p)}
    <3> HIDE DEF output
    <3> QED
      BY <1>1
  <2>5. d2 = [d EXCEPT !.pic_list = {f[q] : q \in S}, !.num_output_needed = Cardinality(N)]
    <3> HIDE DEF f, N
    <3> QED
      BY <1>1, <1>2, <1>7, <2>4 DEF Bump, Dpb
  <2> HIDE DEF f, d2
  <2>6. Updated(d, S, N, d2)
    BY <2>2, <2>3, <2>5 DEF Updated
  <2>7. S \in SUBSET d.pic_list /\ N \in SUBSET S
    BY <1>5
  <2> HIDE DEF S, N
  <2>8. DpbOk(d2) /\ Ids(d2.pic_list) = Ids(S) /\ Ids(NeededForOutput(d2)) = Ids(N)
    BY <2>6, <2>7, UpdatedOk
  <2> QED
    BY <1>3, <1>7, <2>8 DEF S, d2
<1> QED
  BY <1>6, <1>7

-----------------------------------------------------------------------------
(* A reference picture set refers to pictures of the buffer.               *)
LEMMA RefPicSetsOk ==
  ASSUME NEW d, DpbOk(d), NEW rps, NEW poc
  PROVE  /\ RefPicSetsOf(d, rps, poc) \in RefPicSets
         /\ Referred(RefPicSetsOf(d, rps, poc)) \subseteq Ids(d.pic_list)
<1> DEFINE I == Ids(d.pic_list)
           d1 == LongTermMarked(d, rps)
           Short(deltas) == Ids(UNION {ShortTerm(d1, poc + delta) : delta \in deltas})
<1>1. Ids(d1.pic_list) = I
  BY MarkLongTermOk DEF LongTermMarked
<1>2. I \subseteq Nat
  BY DEF Ids, DpbOk, Dpb, Picture
<1>3. \A entries : Ids(Found(d, entries)) \subseteq I
  BY DEF Ids, Found, LongTerm, First, References
<1>4. \A deltas : Short(deltas) \subseteq I
  <2>1. \A x : ShortTerm(d1, x) \subseteq d1.pic_list
    BY DEF ShortTerm, First, References
  <2> HIDE DEF d1
  <2>2. \A deltas : UNION {ShortTerm(d1, poc + delta) : delta \in deltas} \subseteq d1.pic_list
    BY <2>1
  <2>3. \A S : S \subseteq d1.pic_list => Ids(S) \subseteq Ids(d1.pic_list)
    BY DEF Ids
  <2> QED
    BY <1>1, <2>2, <2>3
<1> DEFINE before == Short({delta \in rps.st_curr : delta < 0})
           behind == Short({delta \in rps.st_curr : delta >= 0})
           foll == Short(rps.st_foll)
           ltCurr == Ids(Found(d, rps.lt_curr))
           ltFoll == Ids(Found(d, rps.lt_foll))
<1>5. /\ before \subseteq I /\ behind \subseteq I /\ foll \subseteq I
      /\ ltCurr \subseteq I /\ ltFoll \subseteq I
  <2> HIDE DEF Short, I
  <2> QED
    BY <1>3, <1>4
<1>6. RefPicSetsOf(d, rps, poc) =
        [StCurrBefore |-> before, StCurrAfter |-> behind, StFoll |-> foll,
         LtCurr |-> ltCurr, LtFoll |-> ltFoll]
  BY DEF RefPicSetsOf
<1> HIDE DEF I, before, behind, foll, ltCurr, ltFoll
<1> QED
  BY <1>2, <1>5, <1>6 DEF RefPicSets, Referred, I

-----------------------------------------------------------------------------
(* The access unit in progress has no picture in the buffer yet.           *)
InUnit ==
    \/ phase \in {"nals", "decode", "newseq", "begin", "clear", "room", "start", "fail"}
    \/ phase = "drain" /\ after = "newseq"
InSlice == phase \in {"begin", "clear", "room", "start"}
InSps == phase = "newseq" \/ (phase = "drain" /\ after = "newseq")

Current ==
    /\ cur.id \in {0, aus}
    /\ InSlice => cur.id = aus
    /\ ~InUnit => cur.id = 0

(* What the buffer and the RefPicSets hold came with this access unit or   *)
(* an earlier one.                                                         *)
Stored == Ids(dpb.pic_list) \union Referred(sets)
Earlier ==
    /\ \A n \in Stored : n <= aus
    /\ InUnit => aus # 0 /\ aus \notin Stored

(* The unit being decoded is the first one of the array.                   *)
Front ==
    /\ InSps => nalu # <<>> /\ Head(nalu) \in SpsUnits
    /\ InSlice => nalu # <<>> /\ Head(nalu) \in SliceUnits

StreamPictures ==
    [type: NalTypes, poc: Int, tid0: BOOLEAN, starts: BOOLEAN, cvs: Nat, skip: BOOLEAN,
     keep: SUBSET Nat, curr: SUBSET Nat, long: SUBSET Nat, msb: BOOLEAN, out: BOOLEAN]
StreamOk ==
    /\ stream \in Seq(StreamPictures)
    /\ \A n \in 1..Len(stream) : stream[n].keep \subseteq 1..Len(stream)

IInv == TypeOK /\ DpbOk(dpb) /\ Current /\ Earlier /\ Front /\ StreamOk

Units == SpsUnits \union SliceUnits
-----------------------------------------------------------------------------
(* A conforming stream has the headers and the pictures it should.         *)

LEMMA LastExists ==
  ASSUME NEW n \in Nat, NEW S, S \subseteq 1..n, S # {}
  PROVE  \E m \in S : \A k \in S : k <= m
<1> DEFINE T == {n - k : k \in S}
           R == OpToRel(<, Nat)
<1>1. T \subseteq Nat /\ T # {}
  OBVIOUS
<1>2. IsWellFoundedOn(R, Nat)
  BY NatLessThanWellFounded
<1> HIDE DEF T, R
<1>3. \E x \in T : \A y \in T : ~(<<y, x>> \in R)
  BY <1>1, <1>2, WFMin
<1> PICK x \in T : \A y \in T : ~(<<y, x>> \in R)
  BY <1>3
<1>4. \A y \in T : ~(y < x)
  <2> SUFFICES ASSUME NEW y \in T, y < x PROVE FALSE
    OBVIOUS
  <2>1. <<y, x>> \in Nat \X Nat
    BY <1>1
  <2>2. <<y, x>> \in R
    BY <2>1 DEF R, OpToRel
  <2> QED
    BY <2>2
<1> PICK m \in S : x = n - m
  BY DEF T
<1>5. \A k \in S : n - k \in T
  BY DEF T
<1>6. \A k \in S : k <= m
  BY <1>4, <1>5
<1> QED
  BY <1>6

LEMMA AvailableOk ==
  ASSUME StreamOk, NEW x
  PROVE  Available(stream, x) \subseteq 1..Len(stream)
<1> DEFINE D == Decodable(stream, x)
           last == CHOOSE n \in D : \A m \in D : m <= n
<1>1. Len(stream) \in Nat /\ D \subseteq 1..Len(stream)
  BY DEF StreamOk, Decodable, InSequence
<1>2. CASE D = {}
  BY <1>2 DEF Available
<1>3. CASE D # {}
  <2>1. \E n \in D : \A m \in D : m <= n
    BY <1>1, <1>3, LastExists
  <2>2. last \in D
    BY <2>1
  <2>3. stream[last].keep \subseteq 1..Len(stream)
    BY <1>1, <2>2 DEF StreamOk
  <2>4. Available(stream, x) = stream[last].keep \union {last}
    BY <1>3 DEF Available
  <2> QED
    BY <1>1, <2>2, <2>3, <2>4
<1> QED
  BY <1>2, <1>3

LEMMA BegunOk ==
  ASSUME StreamOk, NEW type \in NalTypes, NEW poc \in Int, NEW tid0 \in BOOLEAN, NEW start
  PROVE  Begun(stream, type, poc, tid0, start) \in StreamPictures
<1> DEFINE x == Begun(stream, type, poc, tid0, start)
           starts == Starts([type |-> type], start)
           cvs == IF starts THEN Sequence(stream) + 1 ELSE Sequence(stream)
           skip == type = "RASL" /\ stream # <<>> /\ stream[Irap(stream)].starts
<1>1. Sequence(stream) \in Nat
  <2>1. CASE stream = <<>>
    BY <2>1 DEF Sequence
  <2>2. CASE stream # <<>>
    <3>1. Len(stream) \in 1..Len(stream)
      BY <2>2 DEF StreamOk
    <3>2. stream[Len(stream)] \in StreamPictures
      BY <3>1 DEF StreamOk
    <3> QED
      BY <2>2, <3>2 DEF Sequence, StreamPictures
  <2> QED
    BY <2>1, <2>2
<1>2. starts \in BOOLEAN /\ skip \in BOOLEAN /\ cvs \in Nat
  BY <1>1 DEF Starts
<1>3. x = [type |-> type, poc |-> poc, tid0 |-> tid0, starts |-> starts, cvs |-> cvs,
           skip |-> skip, keep |-> {}, curr |-> {}, long |-> {}, msb |-> TRUE, out |-> FALSE]
  BY DEF Begun
<1> HIDE DEF starts, cvs, skip, x
<1>4. x \in StreamPictures
  BY <1>2, <1>3 DEF StreamPictures
<1> QED
  BY <1>4 DEF x

LEMMA ContinuationsOk ==
  ASSUME StreamOk, NEW x \in StreamPictures, NEW y \in Continuations(stream, x)
  PROVE  /\ y \in StreamPictures
         /\ y.keep \subseteq 1..Len(stream) /\ y.curr \subseteq y.keep
         /\ y.long \subseteq y.keep /\ y.keep \subseteq Available(stream, x)
         /\ x.starts \/ x.skip => y.keep = {}
         /\ Lasting(stream, x) \intersect y.keep \subseteq y.long
         /\ y.type = x.type /\ y.poc = x.poc /\ y.tid0 = x.tid0
         /\ y.starts = x.starts /\ y.cvs = x.cvs /\ y.skip = x.skip
<1> DEFINE Choice(keep, curr, long, msb, out) ==
        /\ keep \subseteq Available(stream, x) /\ (x.starts \/ x.skip => keep = {})
        /\ curr \subseteq keep /\ long \subseteq keep
        /\ Lasting(stream, x) \intersect keep \subseteq long
        /\ msb \in BOOLEAN /\ out \in BOOLEAN
        /\ y = [x EXCEPT !.keep = keep, !.curr = curr, !.long = long, !.msb = msb, !.out = out]
<1>1. \E keep, curr, long, msb, out : Choice(keep, curr, long, msb, out)
  <2> DEFINE Kept == IF x.starts \/ x.skip THEN {{}} ELSE SUBSET Available(stream, x)
             Used(keep) == {keep} \union {keep \ {k} : k \in keep}
             Long(keep) == LET old == Lasting(stream, x) \intersect keep
                           IN  {old} \union {old \union {k} : k \in {n \in keep : LongTerms}}
             Choices(keep) == [curr: Used(keep), long: Long(keep), msb: BOOLEAN, out: BOOLEAN]
             Made(keep, c) == [x EXCEPT !.keep = keep, !.curr = c.curr, !.long = c.long,
                                        !.msb = c.msb, !.out = c.out]
  <2>1. y \in UNION {{Made(keep, c) : c \in Choices(keep)} : keep \in Kept}
    BY DEF Continuations
  <2>2. \A keep \in Kept : /\ keep \subseteq Available(stream, x)
                           /\ x.starts \/ x.skip => keep = {}
    OBVIOUS
  <2>3. \A keep : /\ \A curr \in Used(keep) : curr \subseteq keep
                  /\ \A long \in Long(keep) :
                        long \subseteq keep /\ Lasting(stream, x) \intersect keep \subseteq long
    OBVIOUS
  <2>7. PICK keep \in Kept : y \in {Made(keep, c) : c \in Choices(keep)}
    <3> HIDE DEF Kept, Choices, Made
    <3> QED
      BY <2>1
  <2>4. PICK c \in Choices(keep) : y = Made(keep, c)
    <3> HIDE DEF Kept, Choices, Made
    <3> QED
      BY <2>7
  <2>5. /\ c.curr \in Used(keep) /\ c.long \in Long(keep)
        /\ c.msb \in BOOLEAN /\ c.out \in BOOLEAN
    <3> HIDE DEF Used, Long
    <3> QED
      OBVIOUS
  <2>6. /\ keep \subseteq Available(stream, x) /\ (x.starts \/ x.skip => keep = {})
        /\ c.curr \subseteq keep /\ c.long \subseteq keep
        /\ Lasting(stream, x) \intersect keep \subseteq c.long
    <3> HIDE DEF Kept, Used, Long, Choices
    <3> QED
      BY <2>2, <2>3, <2>5
  <2> QED
    BY <2>4, <2>5, <2>6, Zenon
<1> PICK keep, curr, long, msb, out : Choice(keep, curr, long, msb, out)
  BY <1>1
<1>2. keep \subseteq 1..Len(stream)
  BY AvailableOk
<1>3. /\ keep \in SUBSET Nat /\ curr \in SUBSET Nat /\ long \in SUBSET Nat
  BY <1>2 DEF StreamOk
<1>4. y.keep = keep /\ y.curr = curr /\ y.long = long
  BY DEF StreamPictures
<1>5. /\ y.type = x.type /\ y.poc = x.poc /\ y.tid0 = x.tid0
      /\ y.starts = x.starts /\ y.cvs = x.cvs /\ y.skip = x.skip
  BY DEF StreamPictures
<1>6. y \in StreamPictures
  BY <1>3 DEF StreamPictures
<1> QED
  BY <1>2, <1>4, <1>5, <1>6

LEMMA SliceOfOk ==
  ASSUME StreamOk, NEW y \in StreamPictures, y.keep \subseteq 1..Len(stream),
         y.curr \subseteq y.keep, NEW noOutput \in BOOLEAN
  PROVE  SliceOf(stream, y, noOutput) \in SliceHeaders
<1> DEFINE Deltas(S) == {stream[k].poc - y.poc : k \in S}
           Longs(S) == {[poc |-> IF y.msb THEN stream[k].poc ELSE stream[k].poc % MaxLsb,
                         msb |-> y.msb] : k \in S}
           foll == y.keep \ y.curr
           h == SliceOf(stream, y, noOutput)
<1>1. /\ y.type \in NalTypes /\ y.poc \in Int /\ y.tid0 \in BOOLEAN /\ y.msb \in BOOLEAN
      /\ (y.out \/ y.skip) \in BOOLEAN
  BY DEF StreamPictures
<1>2. MaxLsb \in Nat \ {0}
  BY StreamAssumption
<1>3. y.poc % MaxLsb \in 0..(MaxLsb - 1)
  BY <1>1, <1>2
<1>4. \A k \in y.keep : stream[k].poc \in Int
  <2>1. \A k \in 1..Len(stream) : stream[k] \in StreamPictures
    BY DEF StreamOk
  <2> QED
    BY <2>1 DEF StreamPictures
<1>5. \A k \in y.keep : stream[k].poc % MaxLsb \in Int
  BY <1>2, <1>4
<1>6. \A S : S \subseteq y.keep => Deltas(S) \subseteq Int
  BY <1>1, <1>4
<1>7. \A S : S \subseteq y.keep => Longs(S) \subseteq LongEntries
  <2> SUFFICES ASSUME NEW k \in y.keep
               PROVE  [poc |-> IF y.msb THEN stream[k].poc ELSE stream[k].poc % MaxLsb,
                       msb |-> y.msb] \in LongEntries
    BY Zenon
  <2> QED
    BY <1>1, <1>4, <1>5 DEF LongEntries
<1>8. EntriesOf(stream, y) =
        [st_curr |-> Deltas(y.curr \ y.long), st_foll |-> Deltas(foll \ y.long),
         lt_curr |-> Longs(y.curr \intersect y.long),
         lt_foll |-> Longs(foll \intersect y.long)]
  BY DEF EntriesOf
<1>9. EntriesOf(stream, y) \in RpsEntries
  <2>1. /\ y.curr \ y.long \subseteq y.keep /\ foll \ y.long \subseteq y.keep
        /\ y.curr \intersect y.long \subseteq y.keep /\ foll \intersect y.long \subseteq y.keep
    OBVIOUS
  <2> DEFINE a == Deltas(y.curr \ y.long)
             b == Deltas(foll \ y.long)
             c == Longs(y.curr \intersect y.long)
             e == Longs(foll \intersect y.long)
  <2>2. /\ a \in SUBSET Int /\ b \in SUBSET Int
        /\ c \in SUBSET LongEntries /\ e \in SUBSET LongEntries
    <3> HIDE DEF Deltas, Longs, foll
    <3> QED
      BY <1>6, <1>7, <2>1
  <2>3. EntriesOf(stream, y) = [st_curr |-> a, st_foll |-> b, lt_curr |-> c, lt_foll |-> e]
    BY <1>8
  <2> HIDE DEF a, b, c, e
  <2> QED
    BY <2>2, <2>3 DEF RpsEntries
<1>10. h = [type |-> y.type, lsb |-> y.poc % MaxLsb, tid0 |-> y.tid0,
            no_output_of_prior_pics |-> noOutput, pic_output_flag |-> y.out \/ y.skip,
            rps |-> EntriesOf(stream, y)]
  BY DEF SliceOf
<1> HIDE DEF h
<1>11. h \in SliceHeaders
  BY <1>1, <1>3, <1>9, <1>10 DEF SliceHeaders
<1> QED
  BY <1>11 DEF h

LEMMA StreamGrows ==
  ASSUME StreamOk, NEW y \in StreamPictures, y.keep \subseteq 1..Len(stream),
         stream' = Append(stream, y)
  PROVE  StreamOk'
<1>1. /\ stream' \in Seq(StreamPictures) /\ Len(stream') = Len(stream) + 1
      /\ Len(stream) \in Nat
      /\ \A n \in 1..Len(stream) : stream'[n] = stream[n]
      /\ stream'[Len(stream) + 1] = y
  BY DEF StreamOk
<1>2. \A n \in 1..Len(stream') : stream'[n].keep \subseteq 1..Len(stream')
  <2> SUFFICES ASSUME NEW n \in 1..Len(stream')
               PROVE  stream'[n].keep \subseteq 1..Len(stream')
    OBVIOUS
  <2>1. 1..Len(stream) \subseteq 1..Len(stream')
    BY <1>1
  <2>2. CASE n \in 1..Len(stream)
    BY <1>1, <2>1, <2>2 DEF StreamOk
  <2>3. CASE n = Len(stream) + 1
    BY <1>1, <2>1, <2>3
  <2> QED
    BY <1>1, <2>2, <2>3
<1> QED
  BY <1>1, <1>2 DEF StreamOk

LEMMA StreamSame ==
  ASSUME StreamOk, stream' = stream
  PROVE  StreamOk'
BY DEF StreamOk

-----------------------------------------------------------------------------
(* Types of the parts of the state.                                        *)

LEMMA NoPictureType == NoPicture \in Picture /\ NoPicture.id = 0
BY DEF NoPicture, Picture

LEMMA NoReferences == NoRefPicSets \in RefPicSets /\ Referred(NoRefPicSets) = {}
BY DEF NoRefPicSets, RefPicSets, Referred

DataTypes == [RefPics: SUBSET Nat, StCurrBefore: SUBSET Nat, StCurrAfter: SUBSET Nat,
              LtCurr: SUBSET Nat, Long: SUBSET Nat]

LEMMA NoDataType == NoData \in DataTypes
BY DEF NoData, DataTypes

LEMMA SpsTypes ==
  ASSUME NEW s \in SpsSet \union {NoSps}, max_latency \in Nat
  PROVE  s.res \in Nat /\ s.size \in Nat /\ Latency(s) \in Nat
BY ConstantsAssumption DEF NoSps, Latency

LEMMA HeadType ==
  ASSUME nalu \in Seq(Units), nalu # <<>>, Len(nalu) <= MaxNalu
  PROVE  /\ Head(nalu) \in Units
         /\ Tail(nalu) \in Seq(Units) /\ Len(Tail(nalu)) <= MaxNalu
         /\ Head(nalu).kind = "sps" => Head(nalu) \in SpsUnits
         /\ Head(nalu).kind = "slice" => Head(nalu) \in SliceUnits
<1>1. Head(nalu) \in Units /\ Tail(nalu) \in Seq(Units) /\ Len(Tail(nalu)) = Len(nalu) - 1
  BY HeadTailProperties
<1>2. Len(nalu) \in Nat /\ MaxNalu \in Nat
  BY ConstantsAssumption
<1> QED
  BY <1>1, <1>2 DEF Units, SpsUnits, SliceUnits

LEMMA AppendType ==
  ASSUME nalu \in Seq(Units), NEW u \in Units, Len(nalu) < MaxNalu
  PROVE  Append(nalu, u) \in Seq(Units) /\ Len(Append(nalu, u)) <= MaxNalu
<1>1. Len(nalu) \in Nat /\ MaxNalu \in Nat
  BY ConstantsAssumption
<1>2. Append(nalu, u) \in Seq(Units) /\ Len(Append(nalu, u)) = Len(nalu) + 1
  BY AppendProperties
<1> QED
  BY <1>1, <1>2

(* Pictures waiting for their output come from access units.               *)
LEMMA NeededAreFrames ==
  ASSUME IInv
  PROVE  Ids(NeededForOutput(dpb)) \subseteq Frames
<1> SUFFICES ASSUME NEW p \in NeededForOutput(dpb) PROVE p.id \in Frames
  BY DEF Ids
<1>1. p \in dpb.pic_list /\ p \in Picture /\ p.id # 0
  BY DEF NeededForOutput, IInv, DpbOk, Dpb, Named
<1>2. p.id \in Nat
  BY <1>1 DEF Picture
<1>3. p.id <= aus /\ aus \in 0..MaxAus
  BY <1>1 DEF IInv, Earlier, Stored, Ids, TypeOK
<1> QED
  BY <1>1, <1>2, <1>3, ConstantsAssumption DEF Frames

(* What the buffer and the sets keep is no more than before.               *)
LEMMA EarlierKept ==
  ASSUME Earlier, Stored' \subseteq Stored, aus' = aus, InUnit' => InUnit
  PROVE  Earlier'
BY DEF Earlier

-----------------------------------------------------------------------------
LEMMA InitInv == Init => IInv
<1> SUFFICES ASSUME Init PROVE IInv
  OBVIOUS
<1>1. DpbOk(dpb)
  BY NewDpbOk DEF Init
<1>2. TypeOK
  <2>1. 0 \in 0..MaxAus /\ 0 <= MaxNalu
    BY ConstantsAssumption
  <2>2. <<>> \in Seq(Units) /\ Len(<<>>) = 0
    OBVIOUS
  <2>3. nalu \in Seq(Units) /\ Len(nalu) <= MaxNalu
    BY <2>1, <2>2 DEF Init
  <2>4. prev_tid0 \in [lsb: Nat, msb: Int]
    BY DEF Init
  <2>5. {no_output, new_bitstream, prev_nal_is_eos, irap_no_rasl} \subseteq BOOLEAN
    BY DEF Init
  <2> QED
    BY <1>1, <2>1, <2>3, <2>4, <2>5, NoPictureType, NoReferences, NoDataType
       DEF Init, TypeOK, DpbOk, Units, DataTypes, Phases
<1>3. Current
  BY NoPictureType DEF Init, Current, InUnit, InSlice
<1>4. Earlier
  <2>1. Stored = {}
    BY NewDpbOk, NoReferences DEF Init, Stored, Ids
  <2> QED
    BY <2>1 DEF Init, Earlier, InUnit
<1>5. Front /\ StreamOk
  <2>1. stream \in Seq(StreamPictures) /\ Len(stream) = 0
    BY DEF Init
  <2> QED
    BY <2>1 DEF Init, Front, InSps, InSlice, StreamOk
<1> QED
  BY <1>1, <1>2, <1>3, <1>4, <1>5 DEF IInv

-----------------------------------------------------------------------------
(* What the parsing of a unit has to show.                                 *)
LEMMA ParsedInv ==
  ASSUME IInv, phase = "nals", phase' \in {"nals", "decode"},
         UNCHANGED <<after, ret, cur, data, aus, dpb, picVars, res, max_latency, pending,
                     clientVars>>,
         sps' \in SpsSet \union {NoSps}, nalu' \in Seq(Units), Len(nalu') <= MaxNalu,
         no_output' \in BOOLEAN, new_bitstream' \in BOOLEAN, prev_nal_is_eos' \in BOOLEAN,
         begin' \in {"any", "irap", "idr"}, StreamOk'
  PROVE  IInv'
<1>1. TypeOK'
  BY DEF IInv, TypeOK, Units, picVars, clientVars, Phases
<1>2. DpbOk(dpb')
  BY DEF IInv
<1>3. Current' /\ Front'
  BY DEF IInv, Current, Front, InUnit, InSlice, InSps
<1>4. Earlier'
  <2>1. Stored' = Stored
    BY DEF Stored, picVars
  <2> QED
    BY <2>1, EarlierKept DEF IInv, InUnit
<1> QED
  BY <1>1, <1>2, <1>3, <1>4 DEF IInv

LEMMA ParseSliceInv ==
  ASSUME IInv, NEW h \in SliceHeaders, NEW first \in BOOLEAN, ParseSlice(h, first),
         begin' \in {"any", "irap", "idr"}, StreamOk'
  PROVE  IInv'
<1> DEFINE noRasl == NoRaslOutput(h.type)
           clear == h.type \in IrapTypes /\ noRasl /\ ~new_bitstream
           noOutput == clear /\ (h.type = "CRA" \/ h.no_output_of_prior_pics)
           u == SliceUnit(h, first, noRasl, clear, noOutput)
<1>1. noRasl \in BOOLEAN /\ clear \in BOOLEAN /\ noOutput \in BOOLEAN
  BY DEF NoRaslOutput
<1>2. /\ nalu' = Append(nalu, u) /\ no_output' = (no_output \/ noOutput)
      /\ phase = "nals" /\ phase' = phase /\ Len(nalu) < MaxNalu
      /\ new_bitstream' = FALSE /\ prev_nal_is_eos' = FALSE
      /\ UNCHANGED <<after, ret, cur, data, aus, dpb, picVars, spsVars, pending, clientVars>>
  BY DEF ParseSlice
<1> HIDE DEF noRasl, clear, noOutput
<1>3. u \in Units
  BY <1>1 DEF SliceUnit, SliceUnits, Units
<1>4. nalu \in Seq(Units)
  BY DEF IInv, TypeOK, Units
<1> HIDE DEF u
<1>5. nalu' \in Seq(Units) /\ Len(nalu') <= MaxNalu
  BY <1>2, <1>3, <1>4, AppendType
<1>6. sps' \in SpsSet \union {NoSps} /\ UNCHANGED <<res, max_latency>>
  BY <1>2 DEF spsVars, IInv, TypeOK
<1>7. no_output' \in BOOLEAN /\ new_bitstream' \in BOOLEAN /\ prev_nal_is_eos' \in BOOLEAN
  BY <1>2
<1> QED
  BY <1>2, <1>5, <1>6, <1>7, ParsedInv

LEMMA ParsingInv ==
  ASSUME IInv, Parsing
  PROVE  IInv'
<1>0. /\ sps \in SpsSet \union {NoSps}
      /\ nalu \in Seq(Units) /\ Len(nalu) <= MaxNalu
      /\ no_output \in BOOLEAN /\ new_bitstream \in BOOLEAN /\ prev_nal_is_eos \in BOOLEAN
      /\ begin \in {"any", "irap", "idr"} /\ StreamOk
  BY DEF IInv, TypeOK, Units
<1>1. ASSUME NEW s \in SpsSet, ParseSps(s) PROVE IInv'
  <2>1. [kind |-> "sps", sps |-> s] \in Units
    BY DEF Units, SpsUnits
  <2>2. /\ nalu' = Append(nalu, [kind |-> "sps", sps |-> s]) /\ Len(nalu) < MaxNalu
        /\ sps' = s /\ phase = "nals" /\ phase' = phase
        /\ UNCHANGED <<after, ret, cur, data, no_output, aus, dpb, picVars, res, max_latency,
                       pending, clientVars>>
        /\ UNCHANGED <<new_bitstream, prev_nal_is_eos, begin, stream>>
    BY <1>1 DEF ParseSps, endVars, streamVars
  <2>3. nalu' \in Seq(Units) /\ Len(nalu') <= MaxNalu
    BY <1>0, <2>1, <2>2, AppendType
  <2>4. StreamOk'
    BY <1>0, <2>2, StreamSame
  <2> QED
    BY <1>0, <2>2, <2>3, <2>4, ParsedInv
<1>2. CASE ParseAnySlice
  <2> PICK h \in AnySlices, first \in BOOLEAN : ParseSlice(h, first)
    BY <1>2 DEF ParseAnySlice
  <2>1. h \in SliceHeaders
    BY ConstantsAssumption
  <2>2. UNCHANGED <<stream, begin>>
    BY <1>2 DEF ParseAnySlice, streamVars
  <2>3. StreamOk' /\ begin' \in {"any", "irap", "idr"}
    BY <1>0, <2>2, StreamSame
  <2> QED
    BY <2>1, <2>3, ParseSliceInv
<1>3. CASE ParseNextPicture
  <2> PICK type \in Types, poc \in StreamPocs, tid0 \in Tid0s :
        \E y \in Continuations(stream, Begun(stream, type, poc, tid0, begin)) : ParsePicture(y)
    BY <1>3 DEF ParseNextPicture
  <2> PICK y \in Continuations(stream, Begun(stream, type, poc, tid0, begin)) : ParsePicture(y)
    OBVIOUS
  <2>1. type \in NalTypes /\ poc \in Int /\ tid0 \in BOOLEAN
    BY ConstantsAssumption
  <2>2. Begun(stream, type, poc, tid0, begin) \in StreamPictures
    BY <1>0, <2>1, BegunOk
  <2>3. y \in StreamPictures /\ y.keep \subseteq 1..Len(stream) /\ y.curr \subseteq y.keep
    BY <1>0, <2>2, ContinuationsOk
  <2> PICK noOutput \in IF y.starts THEN BOOLEAN ELSE {FALSE} :
        ParseSlice(SliceOf(stream, y, noOutput), TRUE)
    BY DEF ParsePicture
  <2>4. noOutput \in BOOLEAN
    OBVIOUS
  <2>5. SliceOf(stream, y, noOutput) \in SliceHeaders
    BY <1>0, <2>3, <2>4, SliceOfOk
  <2>6. stream' = Append(stream, y) /\ begin' \in {"any", "irap", "idr"}
    BY DEF ParsePicture
  <2>7. StreamOk'
    BY <1>0, <2>3, <2>6, StreamGrows
  <2> QED
    BY <2>5, <2>6, <2>7, ParseSliceInv
<1>4. ASSUME NEW end \in Ends, ParseEnd(end) PROVE IInv'
  <2>1. /\ phase = "nals" /\ phase' = phase
        /\ UNCHANGED <<after, ret, nalu, cur, data, no_output, aus, dpb, picVars, sps, res,
                       max_latency, pending, clientVars, stream>>
        /\ new_bitstream' \in BOOLEAN /\ prev_nal_is_eos' \in BOOLEAN
        /\ begin' \in {"any", "irap", "idr"}
    BY <1>0, <1>4 DEF ParseEnd, callVars, spsVars
  <2>2. StreamOk'
    BY <1>0, <2>1, StreamSame
  <2> QED
    BY <1>0, <2>1, <2>2, ParsedInv
<1>5. CASE ParseOver \/ BadSlice
  <2>1. /\ phase = "nals" /\ phase' = "decode"
        /\ UNCHANGED <<after, ret, nalu, cur, data, no_output, aus, dpb, picVars, sps, res,
                       max_latency, pending, clientVars, stream, begin>>
        /\ new_bitstream' \in BOOLEAN /\ prev_nal_is_eos' \in BOOLEAN
    BY <1>0, <1>5 DEF ParseOver, BadSlice, callVars, spsVars, endVars, streamVars
  <2>2. StreamOk'
    BY <1>0, <2>1, StreamSame
  <2> QED
    BY <1>0, <2>1, <2>2, ParsedInv
<1> QED
  BY <1>1, <1>2, <1>3, <1>4, <1>5 DEF Parsing

-----------------------------------------------------------------------------
LEMMA OutputPictureTypes ==
  ASSUME TypeOK, NEW p, p.id \in Frames, NEW leaves, OutputPicture(p, leaves)
  PROVE  /\ ret' \in {"ok", "error"}
         /\ pending' \subseteq Frames /\ held' \subseteq Frames
         /\ shown' \subseteq Frames /\ discarded' \subseteq Frames
         /\ refused' \subseteq Frames
BY DEF OutputPicture, TypeOK

LEMMA BumpTurnInv ==
  ASSUME IInv, NEW drain \in BOOLEAN, BumpTurn(drain)
  PROVE  IInv'
<1> PICK low \in NeededForOutput(dpb) :
        /\ OutputPicture(low, Leaves(low, drain))
        /\ dpb' = Bump(dpb, low, drain)
        /\ UNCHANGED <<phase, after, nalu, cur, data, no_output, aus, picVars, spsVars,
                       endVars, submitted, streamVars>>
  BY DEF BumpTurn
<1>1. DpbOk(dpb') /\ Ids(dpb'.pic_list) \subseteq Ids(dpb.pic_list)
  <2>1. DpbOk(dpb)
    BY DEF IInv
  <2>2. /\ DpbOk(Bump(dpb, low, drain))
        /\ Ids(Bump(dpb, low, drain).pic_list) =
             IF Leaves(low, drain) THEN Ids(dpb.pic_list) \ {low.id} ELSE Ids(dpb.pic_list)
    BY <2>1, BumpOk
  <2> QED
    BY <2>2
<1>2. TypeOK'
  <2>1. low.id \in Frames
    BY NeededAreFrames DEF Ids
  <2>2. /\ ret' \in {"ok", "error"}
        /\ pending' \subseteq Frames /\ held' \subseteq Frames
        /\ shown' \subseteq Frames /\ discarded' \subseteq Frames
        /\ refused' \subseteq Frames
    BY <2>1, OutputPictureTypes DEF IInv
  <2> QED
    BY <1>1, <2>2 DEF IInv, TypeOK, DpbOk, picVars, spsVars, endVars, streamVars
<1>3. Current' /\ Front'
  BY DEF IInv, Current, Front, InUnit, InSlice, InSps
<1>4. Earlier'
  <2>1. Stored' \subseteq Stored
    BY <1>1 DEF Stored, picVars
  <2> QED
    BY <2>1, EarlierKept DEF IInv, InUnit
<1>5. StreamOk'
  BY StreamSame DEF IInv, streamVars
<1> QED
  BY <1>1, <1>2, <1>3, <1>4, <1>5 DEF IInv

(* The end of every call.                                                  *)
LEMMA ReturnInv ==
  ASSUME IInv, Return, DpbOk(dpb'), Ids(dpb'.pic_list) \subseteq Ids(dpb.pic_list),
         UNCHANGED <<aus, picVars, spsVars, endVars, submitted, shown, discarded, refused,
                       streamVars>>,
         pending' \subseteq pending, held' \subseteq held
  PROVE  IInv'
<1>1. TypeOK'
  <2>1. <<>> \in Seq(Units) /\ Len(<<>>) <= MaxNalu
    BY ConstantsAssumption
  <2> QED
    BY <2>1, NoPictureType, NoDataType
       DEF IInv, TypeOK, DpbOk, Return, Units, DataTypes, picVars, spsVars, endVars,
           streamVars, Phases
<1>2. Current' /\ Front'
  BY NoPictureType DEF Return, Current, Front, InUnit, InSlice, InSps
<1>3. Earlier'
  <2>1. Stored' \subseteq Stored
    BY DEF Stored, picVars
  <2> QED
    BY <2>1, EarlierKept DEF IInv, InUnit, Return
<1>4. StreamOk'
  BY StreamSame DEF IInv, streamVars
<1> QED
  BY <1>1, <1>2, <1>3, <1>4 DEF IInv

LEMMA ReturningInv ==
  ASSUME IInv, FailFrame \/ NoPictureInFrame \/ FrameDone
  PROVE  IInv'
<1>1. /\ Return /\ UNCHANGED <<aus, dpb, picVars, spsVars, endVars, submitted, shown,
                               discarded, refused, streamVars>>
      /\ pending' \subseteq pending /\ held' \subseteq held
  BY DEF FailFrame, NoPictureInFrame, FrameDone, clientVars
<1>2. DpbOk(dpb') /\ Ids(dpb'.pic_list) \subseteq Ids(dpb.pic_list)
  BY <1>1 DEF IInv
<1> QED
  BY <1>1, <1>2, ReturnInv

LEMMA DrainOverInv ==
  ASSUME IInv, DrainOver
  PROVE  IInv'
<1>1. DpbOk(dpb') /\ Ids(dpb'.pic_list) = {} /\ held' \subseteq held
  BY DpbClearOk DEF IInv, TypeOK, DrainOver, Ids
<1>2. CASE after = "idle"
  BY <1>1, <1>2, ReturnInv DEF DrainOver
<1>3. CASE after # "idle"
  <2>1. /\ phase = "drain" /\ after = "newseq"
        /\ phase' \in {"fail", "newseq"} /\ after' = "idle"
        /\ UNCHANGED <<ret, nalu, cur, data, no_output, aus, picVars, spsVars, endVars,
                       pending, submitted, shown, discarded, refused,
                       streamVars>>
    BY <1>3 DEF DrainOver, IInv, TypeOK
  <2>2. TypeOK'
    BY <1>1, <2>1
       DEF IInv, TypeOK, DpbOk, picVars, spsVars, endVars, streamVars, Phases
  <2>3. Current' /\ Front'
    BY <2>1 DEF IInv, Current, Front, InUnit, InSlice, InSps
  <2>4. Earlier'
    <3>1. Stored' \subseteq Stored
      BY <1>1, <2>1 DEF Stored, picVars
    <3> QED
      BY <2>1, <3>1, EarlierKept DEF IInv, InUnit
  <2>5. StreamOk'
    BY <2>1, StreamSame DEF IInv, streamVars
  <2> QED
    BY <1>1, <2>2, <2>3, <2>4, <2>5 DEF IInv
<1> QED
  BY <1>2, <1>3

LEMMA ClearDpbOk ==
  ASSUME IInv, NEW flush \in BOOLEAN, ClearDpb(flush)
  PROVE  /\ DpbOk(dpb') /\ Ids(dpb'.pic_list) = {}
         /\ pending' \subseteq Frames /\ discarded' \subseteq Frames /\ held' \subseteq Frames
<1>1. DpbOk(dpb') /\ Ids(dpb'.pic_list) = {}
  BY DpbClearOk DEF IInv, TypeOK, ClearDpb, Ids
<1> QED
  BY <1>1, NeededAreFrames DEF IInv, TypeOK, ClearDpb

LEMMA SpsInv ==
  ASSUME IInv, KeepSps \/ ChangeSps \/ NewSequence
  PROVE  IInv'
<1>0. /\ nalu \in Seq(Units) /\ Len(nalu) <= MaxNalu /\ max_latency \in Nat
      /\ DpbOk(dpb) /\ StreamOk /\ Earlier
  BY DEF IInv, TypeOK, Units
<1>1. CASE KeepSps
  <2>1. /\ nalu # <<>> /\ Head(nalu).kind = "sps"
        /\ nalu' = Tail(nalu) /\ max_latency' = Latency(Head(nalu).sps)
        /\ phase = "decode"
        /\ UNCHANGED <<phase, after, ret, cur, data, no_output, aus, dpb, picVars, sps, res,
                       endVars, pending, clientVars, streamVars>>
    BY <1>1 DEF KeepSps, NextIs
  <2>2. Head(nalu) \in SpsUnits /\ nalu' \in Seq(Units) /\ Len(nalu') <= MaxNalu
    BY <1>0, <2>1, HeadType
  <2>3. max_latency' \in Nat
    BY <1>0, <2>1, <2>2, SpsTypes DEF SpsUnits
  <2>4. TypeOK'
    BY <2>1, <2>2, <2>3
       DEF IInv, TypeOK, Units, picVars, endVars, clientVars, streamVars
  <2>5. Current' /\ Front'
    BY <2>1 DEF IInv, Current, Front, InUnit, InSlice, InSps
  <2>6. Earlier' /\ StreamOk' /\ DpbOk(dpb')
    <3>1. Stored' = Stored
      BY <2>1 DEF Stored, picVars
    <3> QED
      BY <1>0, <2>1, <3>1, EarlierKept, StreamSame DEF InUnit, streamVars
  <2> QED
    BY <2>4, <2>5, <2>6 DEF IInv
<1>2. CASE ChangeSps
  <2>1. /\ nalu # <<>> /\ Head(nalu).kind = "sps" /\ phase = "decode"
        /\ UNCHANGED <<ret, nalu, cur, data, no_output, aus, picVars, spsVars, endVars,
                       submitted, shown, refused, streamVars>>
        /\ \/ phase' = "newseq" /\ after' = after /\ ClearDpb(FALSE)
           \/ /\ phase' = "drain" /\ after' = "newseq"
              /\ UNCHANGED <<dpb, pending, held, discarded>>
    BY <1>2 DEF ChangeSps, NextIs
  <2>2. Head(nalu) \in SpsUnits
    BY <1>0, <2>1, HeadType
  <2>3. /\ DpbOk(dpb') /\ Ids(dpb'.pic_list) \subseteq Ids(dpb.pic_list)
        /\ pending' \subseteq Frames /\ discarded' \subseteq Frames /\ held' \subseteq Frames
    <3>1. CASE ClearDpb(FALSE)
      BY <3>1, ClearDpbOk
    <3>2. CASE UNCHANGED <<dpb, pending, held, discarded>>
      BY <1>0, <3>2 DEF IInv, TypeOK
    <3> QED
      BY <2>1, <3>1, <3>2
  <2>4. TypeOK'
    BY <2>1, <2>3
       DEF IInv, TypeOK, DpbOk, picVars, spsVars, endVars, streamVars, Phases
  <2>5. Current' /\ Front'
    BY <2>1, <2>2 DEF IInv, Current, Front, InUnit, InSlice, InSps
  <2>6. Earlier' /\ StreamOk'
    <3>1. Stored' \subseteq Stored
      BY <2>1, <2>3 DEF Stored, picVars
    <3> QED
      BY <1>0, <2>1, <3>1, EarlierKept, StreamSame DEF InUnit, streamVars
  <2> QED
    BY <2>3, <2>4, <2>5, <2>6 DEF IInv
<1>3. CASE NewSequence
  <2> DEFINE s == Head(nalu).sps
  <2>1. /\ phase = "newseq" /\ phase' = "decode" /\ nalu' = Tail(nalu)
        /\ res' = s.res /\ dpb' = [dpb EXCEPT !.max_num_pics = s.size]
        /\ max_latency' = Latency(s)
        /\ UNCHANGED <<after, ret, cur, data, no_output, aus, picVars, sps, endVars,
                       pending, clientVars, streamVars>>
    BY <1>3 DEF NewSequence
  <2>2. nalu # <<>> /\ Head(nalu) \in SpsUnits
    BY <2>1 DEF IInv, Front, InSps
  <2>3. s \in SpsSet
    BY <2>2 DEF SpsUnits
  <2>4. nalu' \in Seq(Units) /\ Len(nalu') <= MaxNalu
    BY <1>0, <2>1, <2>2, HeadType
  <2>5. s.size \in Nat /\ res' \in Nat /\ max_latency' \in Nat
    BY <1>0, <2>1, <2>3, SpsTypes
  <2>6. DpbOk(dpb') /\ dpb'.pic_list = dpb.pic_list
    BY <1>0, <2>1, <2>5, SizeOk
  <2>7. TypeOK'
    BY <2>1, <2>4, <2>5, <2>6
       DEF IInv, TypeOK, DpbOk, Units, picVars, endVars, clientVars, streamVars, Phases
  <2>8. Current' /\ Front'
    BY <2>1 DEF IInv, Current, Front, InUnit, InSlice, InSps
  <2>9. Earlier' /\ StreamOk'
    <3>1. Stored' = Stored
      BY <2>1, <2>6 DEF Stored, picVars
    <3> QED
      BY <1>0, <2>1, <3>1, EarlierKept, StreamSame DEF InUnit, streamVars
  <2> QED
    BY <2>6, <2>7, <2>8, <2>9 DEF IInv
<1> QED
  BY <1>1, <1>2, <1>3

-----------------------------------------------------------------------------
LEMMA PictureOfType ==
  ASSUME TypeOK, NEW unit \in SliceUnits
  PROVE  /\ PictureOf(unit) \in Picture /\ PictureOf(unit).id = aus
         /\ PictureOf(unit).lsb \in Nat
         /\ PictureOf(unit).poc - PictureOf(unit).lsb \in Int
         /\ IrapNoRasl(unit) \in BOOLEAN
<1> DEFINE h == unit.header
           msb == IF h.type \in IrapTypes /\ unit.no_rasl THEN 0 ELSE PocMsb(h.lsb)
           out == h.pic_output_flag /\ ~(h.type = "RASL" /\ IrapNoRasl(unit))
           p == PictureOf(unit)
<1>1. h.lsb \in Nat /\ unit.no_rasl \in BOOLEAN
  <2>1. h \in SliceHeaders /\ unit.no_rasl \in BOOLEAN
    BY DEF SliceUnits
  <2>2. h.lsb \in 0..(MaxLsb - 1)
    BY <2>1 DEF SliceHeaders
  <2> QED
    BY <2>1, <2>2, StreamAssumption
<1>2. msb \in Int
  <2>1. prev_tid0.msb \in Int /\ MaxLsb \in Int
    BY StreamAssumption DEF TypeOK
  <2>2. /\ prev_tid0.msb + MaxLsb \in Int /\ prev_tid0.msb - MaxLsb \in Int
    BY <2>1
  <2> QED
    BY <2>1, <2>2 DEF PocMsb
<1>3. out \in BOOLEAN /\ IrapNoRasl(unit) \in BOOLEAN
  BY <1>1 DEF IrapNoRasl, TypeOK
<1>4. p = [NoPicture EXCEPT !.id = aus, !.poc = msb + h.lsb, !.lsb = h.lsb, !.output_flag = out]
  BY DEF PictureOf
<1>5. aus \in Nat
  BY DEF TypeOK
<1> HIDE DEF out, msb, h, p
<1>8. p = [id |-> aus, order |-> 0, poc |-> msb + h.lsb, lsb |-> h.lsb, ref |-> FALSE,
           long_term |-> FALSE, output_flag |-> out, needed_for_output |-> FALSE,
           latency |-> 0]
  BY <1>4 DEF NoPicture
<1>6. p \in Picture /\ p.id = aus /\ p.lsb = h.lsb /\ p.poc = msb + h.lsb
  BY <1>1, <1>2, <1>3, <1>5, <1>8 DEF Picture
<1>7. p.lsb \in Nat /\ p.poc - p.lsb \in Int
  BY <1>1, <1>2, <1>6
<1> QED
  BY <1>3, <1>6, <1>7 DEF p

LEMMA SliceInv ==
  ASSUME IInv, MoreSlice \/ NewPictureFails \/ NewPicture \/ DropPicture
  PROVE  IInv'
<1>0. /\ nalu \in Seq(Units) /\ Len(nalu) <= MaxNalu
      /\ DpbOk(dpb) /\ StreamOk /\ Earlier /\ aus \in 0..MaxAus
  BY DEF IInv, TypeOK, Units
<1>1. CASE MoreSlice \/ NewPictureFails
  <2>1. /\ phase = "decode" /\ nalu # <<>> /\ phase' \in {"fail", "decode"}
        /\ nalu' = nalu \/ nalu' = Tail(nalu)
        /\ UNCHANGED <<after, ret, cur, data, no_output, aus, dpb, picVars, spsVars,
                       endVars, pending, clientVars, streamVars>>
    BY <1>1 DEF MoreSlice, NewPictureFails, NextIs, callVars
  <2>2. nalu' \in Seq(Units) /\ Len(nalu') <= MaxNalu
    BY <1>0, <2>1, HeadType
  <2>3. TypeOK'
    BY <2>1, <2>2
       DEF IInv, TypeOK, Units, picVars, spsVars, endVars, clientVars, streamVars, Phases
  <2>4. Current' /\ Front'
    BY <2>1 DEF IInv, Current, Front, InUnit, InSlice, InSps
  <2>5. Earlier' /\ StreamOk' /\ DpbOk(dpb')
    <3>1. Stored' = Stored
      BY <2>1 DEF Stored, picVars
    <3> QED
      BY <1>0, <2>1, <3>1, EarlierKept, StreamSame DEF InUnit, streamVars
  <2> QED
    BY <2>3, <2>4, <2>5 DEF IInv
<1>2. CASE NewPicture
  <2> DEFINE unit == Head(nalu)
  <2>1. /\ phase = "decode" /\ phase' = "begin" /\ nalu # <<>> /\ unit.kind = "slice"
        /\ cur' = PictureOf(unit) /\ irap_no_rasl' = IrapNoRasl(unit)
        /\ prev_tid0' = IF CountsForNext(unit.header)
                        THEN [lsb |-> PictureOf(unit).lsb,
                              msb |-> PictureOf(unit).poc - PictureOf(unit).lsb]
                        ELSE prev_tid0
        /\ held' = held \union {aus}
        /\ UNCHANGED <<after, ret, nalu, data, no_output, aus, dpb, sets, spsVars, endVars,
                       pending, submitted, shown, discarded, refused,
                       streamVars>>
    BY <1>2 DEF NewPicture, NextIs
  <2>2. unit \in SliceUnits
    BY <1>0, <2>1, HeadType
  <2> HIDE DEF unit
  <2>3. /\ cur' \in Picture /\ cur'.id = aus /\ irap_no_rasl' \in BOOLEAN
        /\ prev_tid0' \in [lsb: Nat, msb: Int]
    BY <2>1, <2>2, PictureOfType DEF IInv, TypeOK
  <2>4. aus \in Frames
    BY <1>0, <2>1, ConstantsAssumption DEF Earlier, InUnit, Frames
  <2>5. TypeOK'
    BY <2>1, <2>3, <2>4 DEF IInv, TypeOK, spsVars, endVars, streamVars, Phases
  <2>6. Current' /\ Front'
    BY <2>1, <2>2, <2>3 DEF Current, Front, InUnit, InSlice, InSps, unit
  <2>7. Earlier' /\ StreamOk' /\ DpbOk(dpb')
    <3>1. Stored' = Stored
      BY <2>1 DEF Stored
    <3> QED
      BY <1>0, <2>1, <3>1, EarlierKept, StreamSame DEF InUnit, streamVars
  <2> QED
    BY <2>5, <2>6, <2>7 DEF IInv
<1>3. CASE DropPicture
  <2>1. /\ phase = "begin" /\ phase' = "decode"
        /\ cur' = NoPicture /\ nalu' = Tail(nalu) /\ held' \subseteq held
        /\ UNCHANGED <<after, ret, data, no_output, aus, dpb, picVars, spsVars, endVars,
                       pending, submitted, shown, discarded, refused,
                       streamVars>>
    BY <1>3 DEF DropPicture
  <2>2. nalu' \in Seq(Units) /\ Len(nalu') <= MaxNalu
    BY <1>0, <2>1, HeadType DEF IInv, Front, InSlice
  <2>3. TypeOK'
    BY <2>1, <2>2, NoPictureType
       DEF IInv, TypeOK, Units, picVars, spsVars, endVars, streamVars, Phases
  <2>4. Current' /\ Front'
    BY <2>1, NoPictureType DEF Current, Front, InUnit, InSlice, InSps
  <2>5. Earlier' /\ StreamOk' /\ DpbOk(dpb')
    <3>1. Stored' = Stored
      BY <2>1 DEF Stored, picVars
    <3> QED
      BY <1>0, <2>1, <3>1, EarlierKept, StreamSame DEF InUnit, streamVars
  <2> QED
    BY <2>3, <2>4, <2>5 DEF IInv
<1> QED
  BY <1>1, <1>2, <1>3

(* The buffer with the references of the picture marked.                   *)
LEMMA PreparedOk ==
  ASSUME DpbOk(dpb), NEW unit, NEW d, d = MarkRps(RefsReset(unit), Entries(unit), cur.poc),
         NEW refSets, refSets = RefPicSetsOf(RefsReset(unit), Entries(unit), cur.poc)
  PROVE  /\ DpbOk(d) /\ Ids(d.pic_list) = Ids(dpb.pic_list)
         /\ Ids(NeededForOutput(d)) = Ids(NeededForOutput(dpb))
         /\ refSets \in RefPicSets /\ Referred(refSets) \subseteq Ids(dpb.pic_list)
<1> DEFINE d0 == RefsReset(unit)
<1>1. /\ DpbOk(d0) /\ Ids(d0.pic_list) = Ids(dpb.pic_list)
      /\ Ids(NeededForOutput(d0)) = Ids(NeededForOutput(dpb))
  BY MarkAllNonRefOk DEF RefsReset
<1> HIDE DEF d0
<1>2. /\ d = MarkRps(d0, Entries(unit), cur.poc)
      /\ refSets = RefPicSetsOf(d0, Entries(unit), cur.poc)
  BY DEF d0
<1>3. /\ DpbOk(d) /\ Ids(d.pic_list) = Ids(d0.pic_list)
      /\ Ids(NeededForOutput(d)) = Ids(NeededForOutput(d0))
  BY <1>1, <1>2, MarkRpsOk
<1>4. refSets \in RefPicSets /\ Referred(refSets) \subseteq Ids(d0.pic_list)
  BY <1>1, <1>2, RefPicSetsOk
<1> QED
  BY <1>1, <1>3, <1>4

LEMMA PrepareInv ==
  ASSUME IInv, PreparePicture
  PROVE  IInv'
<1> DEFINE unit == Head(nalu)
           d == MarkRps(RefsReset(unit), Entries(unit), cur.poc)
<1>0. DpbOk(dpb) /\ StreamOk /\ Earlier
  BY DEF IInv
<1>1. /\ phase = "begin" /\ phase' \in {"start", "clear", "room"}
      /\ sets' = RefPicSetsOf(RefsReset(unit), Entries(unit), cur.poc)
      /\ dpb' = DpbClear(d) \/ dpb' = DeleteUnused(d)
      /\ held' \subseteq held /\ pending' \subseteq pending
      /\ discarded' = discarded \/ discarded' = discarded \union Ids(NeededForOutput(d))
      /\ UNCHANGED <<after, ret, nalu, cur, data, no_output, aus, irap_no_rasl, prev_tid0,
                     spsVars, endVars, submitted, shown, refused, streamVars>>
  BY DEF PreparePicture
<1>2. /\ DpbOk(d) /\ Ids(d.pic_list) = Ids(dpb.pic_list)
      /\ Ids(NeededForOutput(d)) = Ids(NeededForOutput(dpb))
      /\ sets' \in RefPicSets /\ Referred(sets') \subseteq Ids(dpb.pic_list)
  BY <1>0, <1>1, PreparedOk
<1> HIDE DEF d, unit
<1>3. DpbOk(dpb') /\ Ids(dpb'.pic_list) \subseteq Ids(dpb.pic_list)
  <2>1. CASE dpb' = DpbClear(d)
    BY <1>2, <2>1, DpbClearOk DEF DpbOk, Ids
  <2>2. CASE dpb' = DeleteUnused(d)
    BY <1>2, <2>2, DeleteUnusedOk
  <2> QED
    BY <1>1, <2>1, <2>2
<1>4. discarded' \subseteq Frames
  BY <1>1, <1>2, NeededAreFrames DEF IInv, TypeOK
<1>5. TypeOK'
  BY <1>1, <1>2, <1>3, <1>4
     DEF IInv, TypeOK, DpbOk, spsVars, endVars, streamVars, Phases
<1>6. Current' /\ Front'
  BY <1>1 DEF IInv, Current, Front, InUnit, InSlice, InSps
<1>7. Earlier' /\ StreamOk'
  <2>1. Stored' \subseteq Stored
    BY <1>2, <1>3 DEF Stored
  <2> QED
    BY <1>0, <1>1, <2>1, EarlierKept, StreamSame DEF InUnit, streamVars
<1> QED
  BY <1>3, <1>5, <1>6, <1>7 DEF IInv

LEMMA StartInv ==
  ASSUME IInv, InitOver \/ StartPicture
  PROVE  IInv'
<1>0. /\ nalu \in Seq(Units) /\ Len(nalu) <= MaxNalu /\ DpbOk(dpb) /\ StreamOk /\ Earlier
      /\ data \in DataTypes
  BY DEF IInv, TypeOK, Units, DataTypes
<1>1. /\ InSlice /\ phase' \in {"fail", "start", "decode"}
      /\ nalu' = nalu \/ (nalu' = Tail(nalu) /\ phase' = "decode")
      /\ phase' = "decode" => nalu' = Tail(nalu)
      /\ UNCHANGED <<after, ret, cur, no_output, aus, dpb, picVars, spsVars, endVars,
                     pending, clientVars, streamVars>>
  BY DEF InitOver, StartPicture, InSlice, callVars
<1>2. nalu' \in Seq(Units) /\ Len(nalu') <= MaxNalu
  BY <1>0, <1>1, HeadType DEF IInv, Front
<1>3. data' \in DataTypes
  <2>1. \A S : S \subseteq dpb.pic_list => Ids(S) \subseteq Nat
    BY <1>0 DEF DpbOk, Dpb, Picture, Ids
  <2>2. \A p : RefPic(p) \subseteq Nat
    BY <2>1 DEF RefPic, First, References
  <2>3. \A S : RefPicsOf(S) \in SUBSET Nat
    BY <2>2 DEF RefPicsOf
  <2>4. /\ Ids(References(dpb)) \in SUBSET Nat
        /\ Ids({p \in References(dpb) : p.long_term}) \in SUBSET Nat
    BY <2>1 DEF References
  <2>5. CASE data' = data
    BY <1>0, <2>5
  <2>6. CASE data' = [RefPics |-> Ids(References(dpb)),
                      StCurrBefore |-> RefPicsOf(sets.StCurrBefore),
                      StCurrAfter |-> RefPicsOf(sets.StCurrAfter),
                      LtCurr |-> RefPicsOf(sets.LtCurr),
                      Long |-> Ids({p \in References(dpb) : p.long_term})]
    BY <2>3, <2>4, <2>6 DEF DataTypes
  <2> QED
    BY <2>5, <2>6 DEF InitOver, StartPicture, callVars
<1>4. TypeOK'
  BY <1>1, <1>2, <1>3
     DEF IInv, TypeOK, Units, DataTypes, picVars, spsVars, endVars, clientVars,
         streamVars, Phases
<1>5. Current' /\ Front'
  BY <1>1 DEF IInv, Current, Front, InUnit, InSlice, InSps
<1>6. Earlier' /\ StreamOk' /\ DpbOk(dpb')
  <2>1. Stored' = Stored
    BY <1>1 DEF Stored, picVars
  <2> QED
    BY <1>0, <1>1, <2>1, EarlierKept, StreamSame DEF InUnit, InSlice, streamVars
<1> QED
  BY <1>4, <1>5, <1>6 DEF IInv

LEMMA FinishInv ==
  ASSUME IInv, FinishPicture
  PROVE  IInv'
<1> DEFINE d == DeleteUnused(dpb)
<1>0. /\ DpbOk(dpb) /\ StreamOk /\ Earlier /\ Current /\ cur \in Picture /\ aus \in 0..MaxAus
  BY DEF IInv, TypeOK
<1>1. /\ phase = "decode" /\ cur.id # 0 /\ phase' = "bump" /\ cur' = NoPicture
      /\ submitted' = submitted \union {cur.id}
      /\ ret' \in {ret, "ok", "error"}
      /\ dpb' = DpbAdd(d, cur) /\ held' \subseteq held /\ pending' \subseteq pending
      /\ discarded' = discarded \/ discarded' = discarded \union {cur.id}
      /\ UNCHANGED <<after, nalu, data, no_output, aus, picVars, spsVars, endVars,
                     shown, refused, streamVars>>
  BY DEF FinishPicture
<1>2. cur.id = aus /\ cur.id \in Frames /\ cur.id \notin Ids(dpb.pic_list)
  BY <1>0, <1>1, ConstantsAssumption DEF Current, Earlier, InUnit, Stored, Frames
<1>3. DpbOk(d) /\ Ids(d.pic_list) \subseteq Ids(dpb.pic_list)
  BY <1>0, DeleteUnusedOk
<1> HIDE DEF d
<1>4. DpbOk(dpb') /\ Ids(dpb'.pic_list) = Ids(d.pic_list) \union {cur.id}
  BY <1>0, <1>1, <1>2, <1>3, DpbAddOk
<1>5. TypeOK'
  BY <1>1, <1>2, <1>4, NoPictureType
     DEF IInv, TypeOK, DpbOk, picVars, spsVars, endVars, streamVars, Phases
<1>6. Current' /\ Front'
  BY <1>1, NoPictureType DEF Current, Front, InUnit, InSlice, InSps
<1>7. Earlier' /\ StreamOk'
  <2>1. Stored' \subseteq Stored \union {cur.id}
    BY <1>1, <1>3, <1>4 DEF Stored, picVars
  <2> QED
    BY <1>0, <1>1, <1>2, <2>1, StreamSame DEF Earlier, InUnit, streamVars
<1> QED
  BY <1>4, <1>5, <1>6, <1>7 DEF IInv

-----------------------------------------------------------------------------
LEMMA CallsInv ==
  ASSUME IInv, Calls
  PROVE  IInv'
<1>0. /\ DpbOk(dpb) /\ StreamOk /\ Earlier /\ Current /\ dpb \in Dpb /\ sets \in RefPicSets
      /\ aus \in 0..MaxAus /\ begin \in {"any", "irap", "idr"}
  BY DEF IInv, TypeOK
<1>1. CASE HandleFrame
  <2>1. /\ phase = "idle" /\ aus < MaxAus /\ aus' = aus + 1
        /\ pending' = pending \union {aus + 1} /\ phase' = "nals"
        /\ UNCHANGED <<after, ret, nalu, cur, data, no_output, dpb, picVars, spsVars, endVars,
                       clientVars, streamVars>>
    BY <1>1 DEF HandleFrame, callVars
  <2>2. TypeOK'
    BY <2>1, ConstantsAssumption
       DEF IInv, TypeOK, picVars, spsVars, endVars, clientVars, streamVars, Phases, Frames
  <2>3. Current' /\ Front'
    BY <1>0, <2>1 DEF Current, Front, InUnit, InSlice, InSps
  <2>4. Earlier'
    <3>1. Stored' = Stored /\ Stored \subseteq Nat
      BY <1>0, <2>1 DEF Stored, picVars, Ids, Dpb, Picture, RefPicSets, Referred
    <3> QED
      BY <1>0, <2>1, <3>1 DEF Earlier
  <2>5. StreamOk' /\ DpbOk(dpb')
    BY <1>0, <2>1, StreamSame DEF streamVars
  <2> QED
    BY <2>2, <2>3, <2>4, <2>5 DEF IInv
<1>2. CASE Drain \/ Flush \/ Stop
  <2>1. /\ phase = "idle" /\ begin' \in {"any", "irap", "idr"} /\ stream' = stream
        /\ UNCHANGED <<ret, nalu, cur, data, no_output, aus, irap_no_rasl, prev_tid0, res,
                       max_latency, endVars, submitted, shown, refused>>
    BY <1>0, <1>2 DEF Drain, Flush, Stop, Interrupted, callVars, picVars, spsVars, clientVars
  <2>2. /\ \/ phase' = "drain" /\ after' = "idle"
           \/ phase' \in {"idle", "stopped"} /\ after' = after
        /\ DpbOk(dpb') /\ Ids(dpb'.pic_list) \subseteq Ids(dpb.pic_list)
        /\ sets' \in RefPicSets /\ Referred(sets') \subseteq Referred(sets)
        /\ sps' \in SpsSet \union {NoSps}
        /\ pending' \subseteq Frames /\ held' \subseteq Frames /\ discarded' \subseteq Frames
    <3>1. CASE Drain
      BY <1>0, <3>1 DEF Drain, IInv, TypeOK, picVars, spsVars, clientVars
    <3>2. CASE Flush
      BY <1>0, <2>1, <3>2, ClearDpbOk
         DEF Flush, IInv, TypeOK, callVars, picVars, spsVars
    <3>3. CASE Stop
      <4>1. Ids(NewDpb.pic_list) = {} /\ DpbOk(NewDpb)
        BY NewDpbOk DEF Ids
      <4> QED
        BY <1>0, <2>1, <3>3, <4>1, NoReferences, NeededAreFrames
           DEF Stop, IInv, TypeOK, callVars
    <3> QED
      BY <1>2, <3>1, <3>2, <3>3
  <2>3. TypeOK'
    BY <2>1, <2>2 DEF IInv, TypeOK, DpbOk, endVars, Phases
  <2>4. Current' /\ Front'
    BY <1>0, <2>1, <2>2 DEF Current, Front, InUnit, InSlice, InSps
  <2>5. Earlier' /\ StreamOk'
    <3>1. Stored' \subseteq Stored
      BY <2>2 DEF Stored
    <3> QED
      BY <1>0, <2>1, <2>2, <3>1, StreamSame, EarlierKept DEF InUnit
  <2> QED
    BY <2>2, <2>3, <2>4, <2>5 DEF IInv
<1>3. CASE Start
  <2>1. /\ phase = "stopped" /\ phase' = "idle"
        /\ new_bitstream' = TRUE /\ prev_nal_is_eos' = FALSE
        /\ UNCHANGED <<after, ret, nalu, cur, data, no_output, aus, dpb, picVars, spsVars,
                       pending, clientVars, streamVars>>
    BY <1>3 DEF Start, callVars
  <2>2. TypeOK'
    BY <2>1 DEF IInv, TypeOK, picVars, spsVars, clientVars, streamVars, Phases
  <2>3. Current' /\ Front'
    BY <1>0, <2>1 DEF Current, Front, InUnit, InSlice, InSps
  <2>4. Earlier' /\ StreamOk' /\ DpbOk(dpb')
    <3>1. Stored' = Stored
      BY <2>1 DEF Stored, picVars
    <3> QED
      BY <1>0, <2>1, <3>1, StreamSame, EarlierKept DEF InUnit, streamVars
  <2> QED
    BY <2>2, <2>3, <2>4 DEF IInv
<1> QED
  BY <1>1, <1>2, <1>3 DEF Calls

LEMMA NextInv == IInv /\ [Next]_vars => IInv'
<1> SUFFICES ASSUME IInv, [Next]_vars PROVE IInv'
  OBVIOUS
<1>1. CASE UNCHANGED vars
  <2>1. UNCHANGED <<phase, after, ret, nalu, cur, data, no_output, aus, dpb, picVars, spsVars,
                    endVars, pending, clientVars, streamVars>>
    BY <1>1 DEF vars, callVars
  <2>2. TypeOK'
    BY <2>1 DEF IInv, TypeOK, picVars, spsVars, endVars, clientVars, streamVars
  <2>3. Current' /\ Front'
    BY <2>1 DEF IInv, Current, Front, InUnit, InSlice, InSps
  <2>4. Earlier' /\ StreamOk' /\ DpbOk(dpb')
    <3>1. Stored' = Stored
      BY <2>1 DEF Stored, picVars
    <3> QED
      BY <2>1, <3>1, StreamSame, EarlierKept DEF IInv, InUnit, streamVars
  <2> QED
    BY <2>2, <2>3, <2>4 DEF IInv
<1>2. CASE Parsing
  BY <1>2, ParsingInv
<1>3. CASE KeepSps \/ ChangeSps \/ NewSequence
  BY <1>3, SpsInv
<1>4. CASE MoreSlice \/ NewPictureFails \/ NewPicture \/ DropPicture
  BY <1>4, SliceInv
<1>5. CASE PreparePicture
  BY <1>5, PrepareInv
<1>6. CASE InitOver \/ StartPicture
  BY <1>6, StartInv
<1>7. CASE FailFrame \/ NoPictureInFrame \/ FrameDone
  BY <1>7, ReturningInv
<1>8. CASE FinishPicture
  BY <1>8, FinishInv
<1>9. CASE ClearTurn \/ RoomTurn \/ FinishTurn \/ DrainTurn
  BY <1>9, BumpTurnInv DEF ClearTurn, RoomTurn, FinishTurn, DrainTurn
<1>10. CASE DrainOver
  BY <1>10, DrainOverInv
<1>11. CASE Calls
  BY <1>11, CallsInv
<1> QED
  BY <1>1, <1>2, <1>3, <1>4, <1>5, <1>6, <1>7, <1>8, <1>9, <1>10, <1>11
     DEF Next, Work, Decoding, Bumping

LEMMA Invariance == Spec => []IInv
BY InitInv, NextInv, PTL DEF Spec

(* In every reachable state, for any stream, client and limits, the state  *)
(* has the shape the C structures give it.                                 *)
THEOREM TypeCorrect == Spec => []TypeOK
<1>1. IInv => TypeOK
  BY DEF IInv
<1> QED
  BY <1>1, Invariance, PTL

(* num_output_needed is the number of pictures flagged needed_for_output   *)
(* on every path through the decoder: the assertions of needs_bump and     *)
(* bump that it is not negative cannot fail.                               *)
THEOREM OutputCounterCorrect == Spec => [](OutputCounter /\ dpb.num_output_needed >= 0)
<1>1. IInv => OutputCounter /\ dpb.num_output_needed >= 0
  BY NeededFinite DEF IInv, OutputCounter, DpbOk, Counted
<1> QED
  BY <1>1, Invariance, PTL
=============================================================================
