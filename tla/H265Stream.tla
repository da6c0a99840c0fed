----------------------------- MODULE H265Stream -----------------------------
(***************************************************************************)
(* What a conforming H.265 stream is, for the H265Decoder that reads it: a *)
(* sequence of pictures in decoding order, each with the picture order     *)
(* count and the references its encoder meant, and the slice header that   *)
(* encodes them. Nothing here is code of the repository: a property of the *)
(* decoder on conforming streams compares what it did with what was meant. *)
(***************************************************************************)
EXTENDS Integers, FiniteSets, Sequences

CONSTANTS
    MaxLsb,       (* MaxPicOrderCntLsb, a power of two                     *)
    StartPocs,    (* the picture order counts a sequence may begin with    *)
    LongTerms,    (* a stream may have long-term references                *)
    MaxHidden     (* bound: pictures of a stream that are not output       *)

ASSUME StreamAssumption ==
    /\ MaxLsb \in Nat \ {0} /\ MaxLsb % 2 = 0
    /\ StartPocs \subseteq 0..(MaxLsb - 1)
    /\ LongTerms \in BOOLEAN /\ MaxHidden \in Nat

IrapTypes == {"IDR", "BLA", "CRA"}
LeadingTypes == {"RADL", "RASL"}
(* TRAIL_N stands for the sub-layer non-reference types, TRAIL for the     *)
(* other trailing ones.                                                    *)
NalTypes == IrapTypes \union LeadingTypes \union {"TRAIL", "TRAIL_N"}

(* A long-term entry holds a whole order count, or its lowest bits.        *)
LongEntries == [poc: Int, msb: BOOLEAN]
RpsEntries ==
    [st_curr: SUBSET Int, st_foll: SUBSET Int,
     lt_curr: SUBSET LongEntries, lt_foll: SUBSET LongEntries]

SliceHeaders ==
    [type: NalTypes, lsb: 0..(MaxLsb - 1), tid0: BOOLEAN, no_output_of_prior_pics: BOOLEAN,
     pic_output_flag: BOOLEAN, rps: RpsEntries]

NoEntries == [st_curr |-> {}, st_foll |-> {}, lt_curr |-> {}, lt_foll |-> {}]

-----------------------------------------------------------------------------
(* A picture of the stream: its coded video sequence, the pictures its     *)
(* reference picture set keeps, those it is predicted from, those that are *)
(* long-term references, whether it is to be output, whether it begins a   *)
(* sequence, and whether it can not be decoded (a RASL picture whose IRAP  *)
(* picture begins the sequence).                                           *)
Sequence(s) == IF s = <<>> THEN 0 ELSE s[Len(s)].cvs
Irap(s) == CHOOSE n \in 1..Len(s) :
    /\ s[n].type \in IrapTypes
    /\ \A m \in (n + 1)..Len(s) : s[m].type \notin IrapTypes
InSequence(s, x) == {n \in 1..Len(s) : s[n].cvs = x.cvs}
OutputAfter(s, x) == {n \in InSequence(s, x) : s[n].out /\ s[n].poc > x.poc}

(* The last picture that counts for the order count of the next (8.3.1).   *)
Anchors(s) == {n \in 1..Len(s) : s[n].tid0 /\ s[n].type \in IrapTypes \union {"TRAIL"}}
Anchor(s) == s[CHOOSE n \in Anchors(s) : \A m \in Anchors(s) : m <= n].poc

(* The references there are when the next picture arrives.                 *)
Decodable(s, x) == {n \in InSequence(s, x) : ~s[n].skip}
Available(s, x) ==
    LET last == CHOOSE n \in Decodable(s, x) : \A m \in Decodable(s, x) : m <= n
    IN  IF Decodable(s, x) = {} THEN {} ELSE s[last].keep \union {last}
Lasting(s, x) ==
    LET last == CHOOSE n \in Decodable(s, x) : \A m \in Decodable(s, x) : m <= n
    IN  IF Decodable(s, x) = {} THEN {} ELSE s[last].long

Starts(x, begin) == x.type \in {"IDR", "BLA"} \/ (x.type = "CRA" /\ begin = "irap")

-----------------------------------------------------------------------------
OrderConforms(s, x) ==
    IF x.starts
    THEN x.poc \in IF x.type = "IDR" THEN {0} ELSE StartPocs
    ELSE LET irap == s[Irap(s)]
         IN  /\ 2 * (x.poc - Anchor(s)) \in (1 - MaxLsb)..(MaxLsb - 1)
             /\ \A n \in InSequence(s, x) : s[n].poc # x.poc
             /\ x.type \in IrapTypes => \A n \in InSequence(s, x) : s[n].poc < x.poc
             /\ x.type \in LeadingTypes =>
                    /\ x.poc < irap.poc
                    /\ \A n \in (Irap(s) + 1)..Len(s) : s[n].type \in LeadingTypes
                    /\ \A n \in InSequence(s, x) : n < Irap(s) => s[n].poc < x.poc
             /\ x.type \in {"TRAIL", "TRAIL_N"} => x.poc > irap.poc

TypeConforms(s, x, begin) ==
    /\ begin = "irap" => x.type \in IrapTypes
    /\ begin = "idr" => x.type \in {"IDR", "BLA"}
    /\ x.type \in IrapTypes => x.tid0
    /\ x.type = "RASL" => s[Irap(s)].type \in {"CRA", "BLA"}

ReferencesConform(s, x, sps) ==
    /\ x.long = {} => x.msb
    /\ x.msb \/ \A k \in x.long : \A n \in Available(s, x) :
                    s[k].poc % MaxLsb = s[n].poc % MaxLsb => n = k
    /\ x.type \in IrapTypes => x.curr = {}
    /\ \A k \in x.keep : s[k].type # "TRAIL_N"
    /\ x.tid0 => \A k \in x.curr : s[k].tid0
    /\ x.type \in {"TRAIL", "TRAIL_N"} =>
           \A k \in x.keep : k >= Irap(s) /\ s[k].type \notin LeadingTypes
    /\ x.type = "RADL" => \A k \in x.curr : k = Irap(s) \/ s[k].type = "RADL"
    /\ Cardinality(x.keep) < sps.buffering

(* The three limits of the sequence parameter set on a picture that comes  *)
(* after others it precedes in output order. The last one: every picture   *)
(* decoded since found room beside the references and those others.        *)
Hidden(s) == {n \in 1..Len(s) : ~s[n].out /\ ~s[n].skip}

OutputConforms(s, x, sps) ==
    IF ~x.out THEN x.skip \/ Cardinality(Hidden(s)) < MaxHidden
    ELSE ~x.skip /\
        LET t == Append(s, x)
        IN  /\ Cardinality(OutputAfter(s, x)) <= sps.reorder
            /\ sps.latency > 0 =>
                 \A q \in OutputAfter(s, x) :
                    Cardinality({n \in InSequence(t, x) :
                        n > q /\ t[n].out /\ t[n].poc < t[q].poc})
                    < sps.reorder + sps.latency
            /\ \A n \in Decodable(t, x) :
                 Cardinality(t[n].keep \union {q \in OutputAfter(s, x) : q < n})
                    < sps.buffering

(* A picture, before anything is said of its references and its output.    *)
Begun(s, type, poc, tid0, begin) ==
    LET starts == Starts([type |-> type], begin)
    IN  [type |-> type, poc |-> poc, tid0 |-> tid0, starts |-> starts,
         cvs |-> IF starts THEN Sequence(s) + 1 ELSE Sequence(s),
         skip |-> type = "RASL" /\ s # <<>> /\ s[Irap(s)].starts,
         keep |-> {}, curr |-> {}, long |-> {}, msb |-> TRUE, out |-> FALSE]

(* The pictures it may be: at most one of those it keeps is not a          *)
(* reference of its own, at most one becomes a long-term reference.        *)
Continuations(s, x) ==
    LET Kept == IF x.starts \/ x.skip THEN {{}} ELSE SUBSET Available(s, x)
        Used(keep) == {keep} \union {keep \ {k} : k \in keep}
        Long(keep) == LET old == Lasting(s, x) \intersect keep
                      IN  {old} \union {old \union {k} : k \in {n \in keep : LongTerms}}
        Choices(keep) == [curr: Used(keep), long: Long(keep), msb: BOOLEAN, out: BOOLEAN]
    IN  UNION {{[x EXCEPT !.keep = keep, !.curr = c.curr, !.long = c.long, !.msb = c.msb,
                          !.out = c.out] : c \in Choices(keep)} : keep \in Kept}

(* The entries of the reference picture set in the slice header.           *)
EntriesOf(s, x) ==
    LET Deltas(S) == {s[k].poc - x.poc : k \in S}
        Longs(S) == {[poc |-> IF x.msb THEN s[k].poc ELSE s[k].poc % MaxLsb,
                      msb |-> x.msb] : k \in S}
        foll == x.keep \ x.curr
    IN  [st_curr |-> Deltas(x.curr \ x.long), st_foll |-> Deltas(foll \ x.long),
         lt_curr |-> Longs(x.curr \intersect x.long),
         lt_foll |-> Longs(foll \intersect x.long)]

SliceOf(s, x, noOutput) ==
    [type |-> x.type, lsb |-> x.poc % MaxLsb, tid0 |-> x.tid0,
     no_output_of_prior_pics |-> noOutput, pic_output_flag |-> x.out \/ x.skip,
     rps |-> EntriesOf(s, x)]
=============================================================================
