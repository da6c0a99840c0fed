-------------------------- MODULE H265StreamProofs --------------------------
(***************************************************************************)
(* Theorems about H265Decoder on a conforming stream whose pictures the    *)
(* client takes: order counts, references, decoded pictures, the limits of *)
(* the buffer, and the order of output.                                    *)
(***************************************************************************)
EXTENDS H265ClientProofs

Accepting == CanFail = {}

-----------------------------------------------------------------------------
(* What is known of the pictures of a conforming stream, each compared     *)
(* with those before it.                                                   *)
LastOf(S) == {m \in S : \A k \in S : k <= m}

IrapsBefore(s, n) == {k \in 1..(n - 1) : s[k].type \in IrapTypes}
AnchorsBefore(s, n) ==
    {k \in 1..(n - 1) : s[k].tid0 /\ s[k].type \in IrapTypes \union {"TRAIL"}}
SameBefore(s, n) == {k \in 1..(n - 1) : s[k].cvs = s[n].cvs}
DecodedBefore(s, n) == {k \in SameBefore(s, n) : ~s[k].skip}

Numbered(s, n) ==
    /\ n = 1 => s[n].starts
    /\ s[n].cvs = (IF n = 1 THEN 0 ELSE s[n - 1].cvs) + (IF s[n].starts THEN 1 ELSE 0)
    /\ \A k \in 1..(n - 1) : s[k].cvs <= s[n].cvs /\ (s[n].starts => s[k].cvs # s[n].cvs)
    /\ s[n].type = "IDR" => s[n].starts
    /\ s[n].starts => s[n].type \in IrapTypes /\ ~s[n].skip /\ s[n].poc \in 0..(MaxLsb - 1)
    /\ s[n].type \in IrapTypes => s[n].tid0
    /\ \A i \in LastOf(IrapsBefore(s, n)) :
           s[n].skip <=> s[n].type = "RASL" /\ s[i].starts
    /\ s[n].out => ~s[n].skip
    /\ ~s[n].starts => DecodedBefore(s, n) # {}

Ordered(s, n) ==
    ~s[n].starts =>
        /\ \A a \in LastOf(AnchorsBefore(s, n)) :
               2 * (s[n].poc - s[a].poc) \in (1 - MaxLsb)..(MaxLsb - 1)
        /\ \A k \in SameBefore(s, n) : s[k].poc # s[n].poc

Refers(s, n) ==
    /\ s[n].curr \subseteq s[n].keep /\ s[n].long \subseteq s[n].keep
    /\ s[n].keep \subseteq DecodedBefore(s, n)
    /\ s[n].starts \/ s[n].skip => s[n].keep = {}
    /\ \A d \in LastOf(DecodedBefore(s, n)) :
           /\ s[n].keep \subseteq s[d].keep \union {d}
           /\ s[n].keep \intersect s[d].long \subseteq s[n].long
           /\ s[n].msb \/ \A k \in s[n].long : \A m \in s[d].keep \union {d} :
                             s[k].poc % MaxLsb = s[m].poc % MaxLsb => m = k

Conforms(s, n) == Numbered(s, n) /\ Ordered(s, n) /\ Refers(s, n)
StreamConforms == \A n \in 1..Len(stream) : Conforms(stream, n)

(* Only the pictures up to this one are spoken of.                         *)
LEMMA BeforeSame ==
  ASSUME NEW n \in Nat \ {0}, NEW s, NEW t, \A k \in 1..n : s[k] = t[k]
  PROVE  /\ IrapsBefore(s, n) = IrapsBefore(t, n)
         /\ AnchorsBefore(s, n) = AnchorsBefore(t, n)
         /\ SameBefore(s, n) = SameBefore(t, n)
         /\ DecodedBefore(s, n) = DecodedBefore(t, n)
<1>1. /\ IrapsBefore(s, n) = IrapsBefore(t, n)
      /\ AnchorsBefore(s, n) = AnchorsBefore(t, n)
      /\ SameBefore(s, n) = SameBefore(t, n)
  BY DEF IrapsBefore, AnchorsBefore, SameBefore
<1>2. \A k \in SameBefore(s, n) : s[k] = t[k]
  BY DEF SameBefore
<1> QED
  BY <1>1, <1>2 DEF DecodedBefore

LEMMA ConformsSame ==
  ASSUME NEW s, NEW t, Len(s) \in Nat, NEW n \in 1..Len(s), Conforms(s, n),
         \A k \in 1..Len(s) : s[k] = t[k] /\ s[k].keep \subseteq 1..Len(s)
  PROVE  Conforms(t, n)
<1>1. /\ IrapsBefore(s, n) = IrapsBefore(t, n)
      /\ AnchorsBefore(s, n) = AnchorsBefore(t, n)
      /\ SameBefore(s, n) = SameBefore(t, n)
      /\ DecodedBefore(s, n) = DecodedBefore(t, n)
  BY BeforeSame
<1>2. /\ \A k \in IrapsBefore(s, n) : s[k] = t[k]
      /\ \A k \in AnchorsBefore(s, n) : s[k] = t[k]
      /\ \A k \in SameBefore(s, n) : s[k] = t[k]
      /\ DecodedBefore(s, n) \subseteq SameBefore(s, n)
      /\ s[n] = t[n] /\ (n # 1 => s[n - 1] = t[n - 1])
      /\ \A k \in 1..(n - 1) : s[k] = t[k]
  BY DEF IrapsBefore, AnchorsBefore, SameBefore, DecodedBefore
<1>3. Numbered(t, n)
  BY <1>1, <1>2 DEF Conforms, Numbered, LastOf
<1>4. Ordered(t, n)
  BY <1>1, <1>2 DEF Conforms, Ordered, LastOf
<1>5. Refers(t, n)
  <2>1. /\ t[n].curr \subseteq t[n].keep /\ t[n].long \subseteq t[n].keep
        /\ t[n].keep \subseteq DecodedBefore(t, n)
        /\ t[n].starts \/ t[n].skip => t[n].keep = {}
    BY <1>1, <1>2 DEF Conforms, Refers
  <2>2. ASSUME NEW d \in LastOf(DecodedBefore(t, n))
        PROVE  /\ t[n].keep \subseteq t[d].keep \union {d}
               /\ t[n].keep \intersect t[d].long \subseteq t[n].long
    BY <1>1, <1>2 DEF Conforms, Refers, LastOf
  <2>3. ASSUME NEW d \in LastOf(DecodedBefore(t, n)), ~t[n].msb,
               NEW k \in t[n].long, NEW m \in t[d].keep \union {d},
               t[k].poc % MaxLsb = t[m].poc % MaxLsb
        PROVE  m = k
    <3>1. d \in LastOf(DecodedBefore(s, n)) /\ s[d] = t[d] /\ d \in 1..Len(s)
      BY <1>1, <1>2 DEF LastOf, DecodedBefore, SameBefore
    <3>2. k \in s[n].long /\ k \in SameBefore(s, n) /\ s[k] = t[k] /\ ~s[n].msb
      BY <1>2, <2>3 DEF Conforms, Refers
    <3>3. m \in s[d].keep \union {d} /\ s[m] = t[m]
      BY <3>1
    <3> QED
      BY <2>3, <3>1, <3>2, <3>3 DEF Conforms, Refers
  <2> QED
    BY <2>1, <2>2, <2>3 DEF Refers
<1> QED
  BY <1>3, <1>4, <1>5 DEF Conforms

-----------------------------------------------------------------------------
(* The next picture of the stream continues it as they say.                *)
LEMMA LastOfExists ==
  ASSUME NEW n \in Nat, NEW S, S \subseteq 1..n, S # {}
  PROVE  \E m \in S : LastOf(S) = {m}
<1> PICK m \in S : \A k \in S : k <= m
  BY LastExists
<1>1. ASSUME NEW k \in LastOf(S) PROVE k = m
  <2>1. k \in S /\ m <= k /\ k <= m /\ k \in Nat /\ m \in Nat
    BY DEF LastOf
  <2> QED
    BY <2>1
<1>2. m \in LastOf(S)
  BY DEF LastOf
<1> QED
  BY <1>1, <1>2

(* A continued stream continues when a picture did before it.              *)
Beginning ==
    /\ begin = "irap" <=> new_bitstream \/ prev_nal_is_eos \/ phase = "stopped"
    /\ begin # "irap" => stream # <<>>

LEMMA LsbTypes ==
  MaxLsb \in Nat \ {0} /\ StartPocs \subseteq 0..(MaxLsb - 1)
<1>1. MaxLsb \in Nat \ {0} /\ StartPocs \subseteq 0..(MaxLsb - 1)
  BY StreamAssumption, Zenon
<1> QED
  BY <1>1

LEMMA LsbEven == \E h \in Nat \ {0} : MaxLsb = 2 * h
<1>1. MaxLsb = 2 * (MaxLsb \div 2) /\ MaxLsb \div 2 \in Nat \ {0}
  BY StreamAssumption
<1> QED
  BY <1>1

LEMMA FirstStarts ==
  ASSUME StreamOk, StreamConforms, stream # <<>>
  PROVE  /\ Len(stream) \in Nat \ {0}
         /\ stream[1].starts /\ stream[1].type \in IrapTypes /\ stream[1].tid0
<1>1. Len(stream) \in Nat \ {0}
  BY DEF StreamOk
<1>2. Conforms(stream, 1)
  BY <1>1 DEF StreamConforms
<1> QED
  BY <1>1, <1>2 DEF Conforms, Numbered

LEMMA IrapIsLast ==
  ASSUME StreamOk, StreamConforms, stream # <<>>
  PROVE  LastOf({k \in 1..Len(stream) : stream[k].type \in IrapTypes}) = {Irap(stream)}
<1> DEFINE I == {k \in 1..Len(stream) : stream[k].type \in IrapTypes}
           P(n) == /\ stream[n].type \in IrapTypes
                   /\ \A m \in (n + 1)..Len(stream) : stream[m].type \notin IrapTypes
<1>1. Len(stream) \in Nat \ {0} /\ 1 \in I
  BY FirstStarts
<1>2. PICK i \in I : LastOf(I) = {i}
  BY <1>1, LastOfExists
<1>3. i \in 1..Len(stream) /\ \A k \in I : k <= i
  BY <1>2 DEF LastOf
<1>4. P(i)
  BY <1>1, <1>3
<1>5. \A n \in 1..Len(stream) : P(n) => n = i
  BY <1>1, <1>3
<1>6. Irap(stream) = i
  BY <1>3, <1>4, <1>5 DEF Irap
<1> QED
  BY <1>2, <1>6

LEMMA AnchorIsLast ==
  ASSUME StreamOk, StreamConforms, stream # <<>>
  PROVE  \E a \in 1..Len(stream) :
            LastOf(Anchors(stream)) = {a} /\ Anchor(stream) = stream[a].poc
<1>1. Len(stream) \in Nat \ {0} /\ 1 \in Anchors(stream)
  BY FirstStarts DEF Anchors
<1>2. PICK a \in Anchors(stream) : LastOf(Anchors(stream)) = {a}
  BY <1>1, LastOfExists DEF Anchors
<1>3. a \in 1..Len(stream) /\ \A k \in Anchors(stream) : k <= a
  BY <1>2 DEF LastOf, Anchors
<1>4. \A n \in Anchors(stream) : (\A m \in Anchors(stream) : m <= n) => n = a
  BY <1>2 DEF LastOf
<1>5. Anchor(stream) = stream[a].poc
  BY <1>3, <1>4 DEF Anchor
<1> QED
  BY <1>2, <1>3, <1>5

LEMMA DecodableIsLast ==
  ASSUME StreamOk, NEW x, NEW d \in LastOf(Decodable(stream, x))
  PROVE  /\ Available(stream, x) = stream[d].keep \union {d}
         /\ Lasting(stream, x) = stream[d].long
<1> DEFINE D == Decodable(stream, x)
           last == CHOOSE n \in D : \A m \in D : m <= n
<1>1. Len(stream) \in Nat /\ D \subseteq 1..Len(stream)
  BY DEF StreamOk, Decodable, InSequence
<1>2. d \in D /\ \A m \in D : m <= d
  BY DEF LastOf
<1>3. \A n \in D : (\A m \in D : m <= n) => n = d
  BY <1>1, <1>2
<1>4. last = d
  BY <1>2, <1>3
<1> HIDE DEF D
<1> QED
  BY <1>2, <1>4 DEF Available, Lasting, D

(* At the parameter set in force a picture may continue the stream.        *)
Follows(type, poc, tid0, y) ==
    LET x == Begun(stream, type, poc, tid0, begin)
    IN  /\ TypeConforms(stream, x, begin) /\ OrderConforms(stream, x)
        /\ y \in Continuations(stream, x)
        /\ ReferencesConform(stream, y, sps) /\ OutputConforms(stream, y, sps)

LEMMA NextConforms ==
  ASSUME IInv, StreamConforms, Beginning,
         NEW type \in Types, NEW poc \in StreamPocs, NEW tid0 \in Tid0s, NEW y,
         Follows(type, poc, tid0, y), NEW t, t = Append(stream, y)
  PROVE  /\ y \in StreamPictures /\ (y.starts <=> Starts([type |-> type], begin))
         /\ begin # "any" => y.starts
         /\ Conforms(t, Len(stream) + 1) /\ Len(t) = Len(stream) + 1
         /\ \A n \in 1..Len(stream) : t[n] = stream[n]
         /\ t[Len(t)] = y
<1> DEFINE x == Begun(stream, type, poc, tid0, begin)
           N == Len(stream) + 1
<1>1. /\ type \in NalTypes /\ poc \in Int /\ tid0 \in BOOLEAN
      /\ begin \in {"any", "irap", "idr"} /\ StreamOk
  BY ConstantsAssumption DEF IInv, TypeOK
<1>2. /\ x \in StreamPictures /\ x.type = type /\ x.poc = poc /\ x.tid0 = tid0
      /\ x.starts = Starts([type |-> type], begin)
      /\ x.cvs = IF x.starts THEN Sequence(stream) + 1 ELSE Sequence(stream)
      /\ x.skip = (type = "RASL" /\ stream # <<>> /\ stream[Irap(stream)].starts)
  BY <1>1, BegunOk DEF Begun
<1> HIDE DEF x
<1>3. /\ y \in StreamPictures
      /\ y.keep \subseteq 1..Len(stream) /\ y.curr \subseteq y.keep
      /\ y.long \subseteq y.keep /\ y.keep \subseteq Available(stream, x)
      /\ x.starts \/ x.skip => y.keep = {}
      /\ Lasting(stream, x) \intersect y.keep \subseteq y.long
      /\ y.type = x.type /\ y.poc = x.poc /\ y.tid0 = x.tid0
      /\ y.starts = x.starts /\ y.cvs = x.cvs /\ y.skip = x.skip
  BY <1>1, <1>2, ContinuationsOk DEF Follows, x
<1>4. /\ TypeConforms(stream, x, begin) /\ OrderConforms(stream, x)
      /\ ReferencesConform(stream, y, sps)
  BY DEF Follows, x
<1>5. /\ Len(stream) \in Nat /\ Len(t) = N /\ t[N] = y
      /\ \A n \in 1..Len(stream) : t[n] = stream[n]
  BY <1>1, <1>3 DEF StreamOk
<1>6. begin # "any" => x.starts
  BY <1>1, <1>2, <1>4 DEF TypeConforms, Starts, IrapTypes
<1>7. stream = <<>> => x.starts
  BY <1>6 DEF Beginning
<1>8. /\ IrapsBefore(t, N) = {k \in 1..Len(stream) : stream[k].type \in IrapTypes}
      /\ AnchorsBefore(t, N) = Anchors(stream)
      /\ SameBefore(t, N) = InSequence(stream, x)
      /\ DecodedBefore(t, N) = Decodable(stream, x)
  <2>1. SameBefore(t, N) = InSequence(stream, x)
    BY <1>3, <1>5 DEF SameBefore, InSequence
  <2>2. InSequence(stream, x) \subseteq 1..Len(stream)
    BY DEF InSequence
  <2>3. DecodedBefore(t, N) = Decodable(stream, x)
    BY <1>5, <2>1, <2>2 DEF DecodedBefore, Decodable
  <2> QED
    BY <1>5, <2>1, <2>3 DEF IrapsBefore, AnchorsBefore, Anchors
<1>9. stream # <<>> => Sequence(stream) = stream[Len(stream)].cvs /\ Len(stream) # 0
  BY <1>1 DEF Sequence, StreamOk
<1>10. Decodable(stream, x) # {} \/ x.starts
  <2> SUFFICES ASSUME ~x.starts PROVE Decodable(stream, x) # {}
    OBVIOUS
  <2> DEFINE l == Len(stream)
  <2>1. l \in 1..l /\ x.cvs = stream[l].cvs /\ Conforms(stream, l)
    BY <1>2, <1>5, <1>7, <1>9 DEF StreamConforms
  <2>2. CASE ~stream[l].skip
    <3>1. l \in Decodable(stream, x)
      BY <2>1, <2>2 DEF Decodable, InSequence
    <3> QED
      BY <3>1
  <2>3. CASE stream[l].skip
    <3>1. DecodedBefore(stream, l) # {}
      BY <2>1, <2>3 DEF Conforms, Numbered
    <3>2. DecodedBefore(stream, l) \subseteq Decodable(stream, x)
      BY <2>1, <1>5 DEF DecodedBefore, SameBefore, Decodable, InSequence
    <3> QED
      BY <3>1, <3>2
  <2> QED
    BY <2>2, <2>3
<1>11. Numbered(t, N)
  <2>1. N = 1 <=> stream = <<>>
    BY <1>1, <1>5 DEF StreamOk
  <2>2. y.cvs = (IF N = 1 THEN 0 ELSE t[N - 1].cvs) + (IF y.starts THEN 1 ELSE 0)
    <3>1. CASE stream = <<>>
      BY <3>1, <2>1, <1>2, <1>3, <1>7 DEF Sequence
    <3>2. CASE stream # <<>>
      <4>1. N - 1 \in 1..Len(stream) /\ N - 1 = Len(stream)
        BY <3>2, <1>5, <1>9
      <4>2. stream[Len(stream)] \in StreamPictures
        BY <4>1, <1>1 DEF StreamOk
      <4>3. t[N - 1] = stream[Len(stream)] /\ stream[Len(stream)].cvs \in Nat
        BY <4>1, <4>2, <1>5 DEF StreamPictures
      <4> QED
        BY <3>2, <4>3, <2>1, <1>2, <1>3, <1>9
    <3> QED
      BY <3>1, <3>2
  <2>3. x.starts => x.type \in IrapTypes /\ ~x.skip /\ x.poc \in 0..(MaxLsb - 1)
    <3> SUFFICES ASSUME x.starts PROVE x.type \in IrapTypes /\ ~x.skip /\ x.poc \in 0..(MaxLsb - 1)
      OBVIOUS
    <3>1. type \in IrapTypes /\ type # "RASL"
      BY <1>2 DEF Starts, IrapTypes
    <3>2. x.poc \in IF x.type = "IDR" THEN {0} ELSE StartPocs
      BY <1>4 DEF OrderConforms
    <3>3. x.poc \in 0..(MaxLsb - 1)
      <4>1. 0 \in 0..(MaxLsb - 1) /\ StartPocs \subseteq 0..(MaxLsb - 1)
        BY LsbTypes
      <4>2. x.poc = 0 \/ x.poc \in StartPocs
        BY <3>2
      <4> QED
        BY <4>1, <4>2
    <3> QED
      BY <1>2, <3>1, <3>3
  <2>4. x.type \in IrapTypes => x.tid0
    BY <1>4 DEF TypeConforms
  <2>5. ASSUME NEW i \in LastOf(IrapsBefore(t, N))
        PROVE  x.skip <=> x.type = "RASL" /\ t[i].starts
    <3>1. stream # <<>> /\ i \in 1..Len(stream)
      BY <1>1, <1>8, <2>5 DEF LastOf, StreamOk
    <3>2. i = Irap(stream)
      BY <3>1, <1>1, <1>8, IrapIsLast
    <3> QED
      BY <3>1, <3>2, <1>2, <1>5
  <2> QED
    <3>1. ~y.starts => DecodedBefore(t, N) # {}
      BY <1>3, <1>8, <1>10
    <3>2. N = 1 => y.starts
      BY <1>3, <1>7, <2>1
    <3>3. y.out => ~y.skip
      BY DEF Follows, OutputConforms
    <3>4. y.type = "IDR" => y.starts
      BY <1>2, <1>3 DEF Starts
    <3>5. ASSUME NEW k \in 1..(N - 1)
          PROVE  t[k].cvs <= t[N].cvs /\ (t[N].starts => t[k].cvs # t[N].cvs)
      <4> DEFINE l == Len(stream)
      <4>1. l \in 1..l /\ k \in 1..l /\ t[k] = stream[k] /\ stream # <<>>
        BY <3>5, <1>5, <2>1
      <4>2. stream[k].cvs \in Nat /\ stream[l].cvs \in Nat
        <5>1. stream[k] \in StreamPictures /\ stream[l] \in StreamPictures
          BY <4>1, <1>1 DEF StreamOk
        <5> QED
          BY <5>1 DEF StreamPictures
      <4>3. stream[k].cvs <= stream[l].cvs
        <5>1. CASE k = l
          BY <4>2, <5>1
        <5>2. CASE k # l
          <6>1. k \in 1..(l - 1) /\ Numbered(stream, l)
            BY <4>1, <5>2, <1>5 DEF StreamConforms, Conforms
          <6> QED
            BY <6>1 DEF Numbered
        <5> QED
          BY <5>1, <5>2
      <4>4. y.cvs = IF y.starts THEN stream[l].cvs + 1 ELSE stream[l].cvs
        BY <1>2, <1>3, <1>9, <4>1
      <4> HIDE DEF l
      <4>5. stream[k].cvs <= y.cvs /\ (y.starts => stream[k].cvs # y.cvs)
        BY <4>2, <4>3, <4>4
      <4> QED
        BY <4>1, <4>5, <1>5
    <3> HIDE DEF N
    <3>6. \A k \in 1..(N - 1) : t[k].cvs <= t[N].cvs /\ (t[N].starts => t[k].cvs # t[N].cvs)
      BY <3>5
    <3>7. t[N].starts => t[N].type \in IrapTypes /\ ~t[N].skip /\ t[N].poc \in 0..(MaxLsb - 1)
      BY <1>3, <1>5, <2>3, Zenon
    <3>8. t[N] = y
      BY <1>5
    <3>9. \A i \in LastOf(IrapsBefore(t, N)) :
             t[N].skip <=> t[N].type = "RASL" /\ t[i].starts
      BY <1>3, <3>8, <2>5
    <3> QED
      BY <1>3, <3>8, <2>2, <2>4, <3>1, <3>2, <3>3, <3>4, <3>6, <3>7, <3>9 DEF Numbered
<1>12. Ordered(t, N)
  <2> SUFFICES ASSUME ~x.starts PROVE Ordered(t, N)
    BY <1>3, <1>5 DEF Ordered
  <2>1. stream # <<>>
    BY <1>7
  <2>2. PICK a \in 1..Len(stream) :
            LastOf(Anchors(stream)) = {a} /\ Anchor(stream) = stream[a].poc
    BY <1>1, <2>1, AnchorIsLast
  <2>3. /\ 2 * (x.poc - stream[a].poc) \in (1 - MaxLsb)..(MaxLsb - 1)
        /\ \A n \in InSequence(stream, x) : stream[n].poc # x.poc
    BY <1>4, <2>2 DEF OrderConforms
  <2>4. \A k \in SameBefore(t, N) : t[k].poc # y.poc
    BY <1>3, <1>5, <1>8, <2>3 DEF InSequence
  <2> QED
    BY <1>3, <1>5, <1>8, <2>2, <2>3, <2>4 DEF Ordered
<1>13. Refers(t, N)
  <2>1. y.keep \subseteq DecodedBefore(t, N)
    <3>1. CASE x.starts
      BY <3>1, <1>3
    <3>2. CASE ~x.starts
      <4>1. Decodable(stream, x) # {} /\ Decodable(stream, x) \subseteq 1..Len(stream)
        BY <1>10, <3>2 DEF Decodable, InSequence
      <4>2. PICK d \in Decodable(stream, x) : LastOf(Decodable(stream, x)) = {d}
        BY <1>5, <4>1, LastOfExists
      <4>3. y.keep \subseteq stream[d].keep \union {d}
        BY <1>1, <1>3, <4>2, DecodableIsLast
      <4>4. stream[d].keep \subseteq DecodedBefore(stream, d) /\ d \in 1..Len(stream)
        BY <4>1 DEF StreamConforms, Conforms, Refers
      <4>5. DecodedBefore(stream, d) \subseteq Decodable(stream, x)
        BY <4>2, <4>4, <1>5 DEF DecodedBefore, SameBefore, Decodable, InSequence
      <4> QED
        BY <4>3, <4>4, <4>5, <1>8
    <3> QED
      BY <3>1, <3>2
  <2>2. ASSUME NEW d \in LastOf(DecodedBefore(t, N))
        PROVE  /\ d \in 1..Len(stream)
               /\ y.keep \subseteq t[d].keep \union {d}
               /\ y.keep \intersect t[d].long \subseteq y.long
               /\ y.msb \/ \A k \in y.long : \A m \in t[d].keep \union {d} :
                              t[k].poc % MaxLsb = t[m].poc % MaxLsb => m = k
    <3>1. d \in LastOf(Decodable(stream, x)) /\ d \in 1..Len(stream)
      BY <1>8 DEF LastOf, Decodable, InSequence
    <3>2. /\ Available(stream, x) = stream[d].keep \union {d}
          /\ Lasting(stream, x) = stream[d].long
      BY <1>1, <3>1, DecodableIsLast
    <3>3. Available(stream, y) = Available(stream, x)
      BY <1>3 DEF Available, Decodable, InSequence
    <3>4. /\ t[d] = stream[d] /\ stream[d].keep \subseteq 1..Len(stream)
          /\ \A k \in y.long : k \in 1..Len(stream)
      BY <1>1, <1>3, <1>5, <3>1 DEF StreamOk
    <3>5. y.msb \/ \A k \in y.long : \A m \in Available(stream, y) :
                      stream[k].poc % MaxLsb = stream[m].poc % MaxLsb => m = k
      BY <1>4 DEF ReferencesConform
    <3>6. y.msb \/ \A k \in y.long : \A m \in t[d].keep \union {d} :
                      t[k].poc % MaxLsb = t[m].poc % MaxLsb => m = k
      <4> SUFFICES ASSUME ~y.msb, NEW k \in y.long, NEW m \in t[d].keep \union {d},
                          t[k].poc % MaxLsb = t[m].poc % MaxLsb
                   PROVE  m = k
        OBVIOUS
      <4>1. t[k] = stream[k] /\ t[m] = stream[m] /\ m \in Available(stream, y)
        BY <1>5, <3>1, <3>2, <3>3, <3>4
      <4> QED
        BY <3>5, <4>1
    <3> QED
      BY <1>3, <3>1, <3>2, <3>4, <3>6
  <2>3. y.starts \/ y.skip => y.keep = {}
    BY <1>3
  <2> HIDE DEF N
  <2>4. y.curr \subseteq y.keep /\ y.long \subseteq y.keep
    BY <1>3
  <2>5. t[N] = y
    BY <1>5
  <2>6. \A d \in LastOf(DecodedBefore(t, N)) :
           /\ y.keep \subseteq t[d].keep \union {d}
           /\ y.keep \intersect t[d].long \subseteq y.long
           /\ y.msb \/ \A k \in y.long : \A m \in t[d].keep \union {d} :
                          t[k].poc % MaxLsb = t[m].poc % MaxLsb => m = k
    BY <2>2
  <2>7. /\ t[N].curr \subseteq t[N].keep /\ t[N].long \subseteq t[N].keep
        /\ t[N].keep \subseteq DecodedBefore(t, N)
        /\ t[N].starts \/ t[N].skip => t[N].keep = {}
    BY <2>1, <2>3, <2>4, <2>5
  <2>8. \A d \in LastOf(DecodedBefore(t, N)) :
           /\ t[N].keep \subseteq t[d].keep \union {d}
           /\ t[N].keep \intersect t[d].long \subseteq t[N].long
           /\ t[N].msb \/ \A k \in t[N].long : \A m \in t[d].keep \union {d} :
                             t[k].poc % MaxLsb = t[m].poc % MaxLsb => m = k
    <3> DEFINE P(z) == \A d \in LastOf(DecodedBefore(t, N)) :
                           /\ z.keep \subseteq t[d].keep \union {d}
                           /\ z.keep \intersect t[d].long \subseteq z.long
                           /\ z.msb \/ \A k \in z.long : \A m \in t[d].keep \union {d} :
                                 t[k].poc % MaxLsb = t[m].poc % MaxLsb => m = k
    <3>1. P(y)
      BY <2>6, Zenon
    <3> HIDE DEF P
    <3>2. P(t[N])
      BY <2>5, <3>1
    <3> QED
      BY <3>2, Zenon DEF P
  <2> QED
    BY <2>7, <2>8, Zenon DEF Refers
<1> QED
  BY <1>2, <1>3, <1>5, <1>6, <1>11, <1>12, <1>13 DEF Conforms

-----------------------------------------------------------------------------
(* Where the access unit in progress stands: its units are those of one    *)
(* picture of the stream, with a parameter set when it begins a sequence.  *)
New == stream[Len(stream)]
NewSlice(u) ==
    \E noOutput, clear, unseen \in BOOLEAN :
        /\ u = SliceUnit(SliceOf(stream, New, noOutput), TRUE, New.starts, clear, unseen)
        /\ clear => New.starts

Empty == nalu = <<>>
SetOnly == nalu = <<[kind |-> "sps", sps |-> sps]>>
One == Len(nalu) = 1 /\ NewSlice(nalu[1])
Two == Len(nalu) = 2 /\ nalu[1] = [kind |-> "sps", sps |-> sps] /\ NewSlice(nalu[2]) /\ New.starts

Shape ==
    /\ phase = "nals" => cur.id = 0 /\ (Empty \/ SetOnly \/ (One /\ ~New.starts) \/ Two)
    /\ phase = "decode" => Empty \/ (cur.id = 0 /\ (One \/ Two))
    /\ InSps => cur.id = 0 /\ Two
    /\ InSlice \/ phase = "fail" => One
    /\ ~InUnit => Empty

Aligned == Len(stream) = IF phase = "nals" /\ ~HasSlice THEN aus - 1 ELSE aus

(* The first picture that calculate_poc has not taken account of.          *)
Coming ==
    IF HasSlice /\ ~InSlice /\ phase # "fail" THEN Len(stream) ELSE Len(stream) + 1

CountsKept ==
    /\ \A a \in LastOf(AnchorsBefore(stream, Coming)) :
           /\ prev_tid0.lsb = stream[a].poc % MaxLsb
           /\ prev_tid0.msb + prev_tid0.lsb = stream[a].poc
    /\ \A i \in LastOf(IrapsBefore(stream, Coming)) : irap_no_rasl = stream[i].starts

CurrentCounts ==
    cur.id # 0 => /\ cur.poc = New.poc /\ cur.lsb = New.poc % MaxLsb
                  /\ cur.output_flag = New.out

Reading == StreamConforms /\ Beginning /\ Shape /\ Aligned
Counts == CountsKept /\ CurrentCounts

LEMMA UnitsSame ==
  ASSUME UNCHANGED <<nalu, stream, sps>>
  PROVE  /\ (HasSlice' <=> HasSlice) /\ (Empty' <=> Empty) /\ (SetOnly' <=> SetOnly)
         /\ (One' <=> One) /\ (Two' <=> Two) /\ New' = New
<1>1. HasSlice' <=> HasSlice
  BY DEF HasSlice
<1>2. (Empty' <=> Empty) /\ (SetOnly' <=> SetOnly) /\ New' = New
  BY DEF Empty, SetOnly, New
<1>3. ASSUME NEW u PROVE NewSlice(u)' <=> NewSlice(u)
  BY DEF NewSlice, New, SliceUnit, SliceOf, EntriesOf
<1> QED
  BY <1>1, <1>2, <1>3 DEF One, Two

LEMMA SliceHas ==
  ASSUME NEW u, NewSlice(u)
  PROVE  /\ u.kind = "slice" /\ u.first = TRUE /\ u.no_rasl = New.starts
         /\ u.header.type = New.type /\ u.header.lsb = New.poc % MaxLsb
         /\ u.header.tid0 = New.tid0 /\ u.header.rps = EntriesOf(stream, New)
         /\ u.header.pic_output_flag = (New.out \/ New.skip)
         /\ u.clear => New.starts
BY DEF NewSlice, SliceUnit, SliceOf

LEMMA SlicesAre ==
  ASSUME nalu \in Seq(Units)
  PROVE  /\ One => /\ HasSlice /\ nalu # <<>> /\ Head(nalu) = nalu[1] /\ Tail(nalu) = <<>>
                   /\ Head(nalu).kind = "slice" /\ NewSlice(Head(nalu))
         /\ Two => /\ HasSlice /\ nalu # <<>> /\ Head(nalu) = [kind |-> "sps", sps |-> sps]
                   /\ Len(Tail(nalu)) = 1 /\ Tail(nalu)[1] = nalu[2]
         /\ Empty => ~HasSlice
         /\ SetOnly => ~HasSlice /\ nalu # <<>> /\ Len(nalu) = 1
<1>1. DOMAIN nalu = 1..Len(nalu) /\ Len(nalu) \in Nat
  OBVIOUS
<1>2. CASE One
  <2>1. nalu[1].kind = "slice" /\ NewSlice(nalu[1]) /\ Len(nalu) = 1
    BY <1>2, SliceHas DEF One
  <2>2. 1 \in DOMAIN nalu
    BY <1>1, <2>1
  <2>3. HasSlice
    BY <2>1, <2>2 DEF HasSlice
  <2>4. nalu # <<>> /\ Head(nalu) = nalu[1] /\ Tail(nalu) = <<>>
    <3>1. nalu # <<>>
      BY <2>1
    <3>2. Head(nalu) = nalu[1] /\ Tail(nalu) \in Seq(Units) /\ Len(Tail(nalu)) = 0
      BY <2>1, <3>1, HeadTailProperties
    <3> QED
      BY <3>1, <3>2, EmptySeq
  <2> QED
    BY <1>2, <2>1, <2>3, <2>4 DEF Two, Empty, SetOnly
<1>3. CASE Two
  <2>1. nalu[2].kind = "slice" /\ Len(nalu) = 2 /\ nalu[1] = [kind |-> "sps", sps |-> sps]
    BY <1>3, SliceHas DEF Two
  <2>2. 2 \in DOMAIN nalu
    BY <1>1, <2>1
  <2>3. HasSlice
    BY <2>1, <2>2 DEF HasSlice
  <2>4. nalu # <<>> /\ Head(nalu) = nalu[1] /\ Len(Tail(nalu)) = 1 /\ Tail(nalu)[1] = nalu[2]
    <3>1. nalu # <<>>
      BY <2>1
    <3>2. /\ Len(Tail(nalu)) = Len(nalu) - 1
          /\ \A i \in 1..Len(Tail(nalu)) : Tail(nalu)[i] = nalu[i + 1]
      BY <3>1, HeadTailProperties
    <3>3. Len(Tail(nalu)) = 1 /\ Tail(nalu)[1] = nalu[2]
      BY <2>1, <3>2
    <3>4. Head(nalu) = nalu[1]
      BY <3>1
    <3> QED
      BY <3>1, <3>3, <3>4
  <2> QED
    BY <1>3, <2>1, <2>3, <2>4 DEF One, Empty, SetOnly
<1>4. CASE Empty
  BY <1>4 DEF Empty, One, Two, SetOnly, HasSlice
<1>5. CASE SetOnly
  <2>1. Len(nalu) = 1 /\ nalu[1] = [kind |-> "sps", sps |-> sps] /\ nalu # <<>>
    BY <1>5 DEF SetOnly
  <2>2. \A n \in DOMAIN nalu : n = 1
    BY <1>1, <2>1
  <2>3. ~HasSlice
    BY <2>1, <2>2 DEF HasSlice
  <2>4. ~One
    <3>1. nalu[1].kind = "sps"
      BY <2>1
    <3> QED
      BY <3>1, SliceHas DEF One
  <2> QED
    BY <2>1, <2>3, <2>4 DEF Two, Empty
<1> QED
  BY <1>2, <1>3, <1>4, <1>5

(* With a client that takes every picture, no call fails.                  *)
Answered == ret = "ok"

LEMMA AnsweredKept ==
  ASSUME IInv, ClientInv, Accepting, Answered, [Next]_vars
  PROVE  Answered'
<1>1. ASSUME NEW drain \in BOOLEAN, BumpTurn(drain) PROVE Answered'
  <2> PICK low \in NeededForOutput(dpb) : OutputPicture(low, Leaves(low, drain))
    BY <1>1 DEF BumpTurn
  <2>1. low.id \in pending
    BY DEF ClientInv, Owing, Waiting, Ids
  <2> QED
    BY <2>1 DEF OutputPicture, Accepting, Answered
<1>2. CASE ClearTurn \/ RoomTurn \/ FinishTurn \/ DrainTurn
  BY <1>1, <1>2 DEF ClearTurn, RoomTurn, FinishTurn, DrainTurn
<1>3. CASE DrainOver
  BY <1>3 DEF DrainOver, Return, Answered
<1>4. CASE Calls
  BY <1>4 DEF Calls, HandleFrame, Drain, Flush, Stop, Start, callVars, Answered
<1>5. CASE Parsing
  <2>1. ASSUME NEW h, NEW first, ParseSlice(h, first) PROVE ret' = ret
    BY <2>1 DEF ParseSlice
  <2> HIDE DEF ParseSlice
  <2> QED
    BY <1>5, <2>1 DEF Parsing, ParseSps, ParseAnySlice, ParseNextPicture, ParsePicture,
                         ParseEnd, ParseOver, BadSlice, callVars, Answered
<1>6. CASE FinishPicture
  BY <1>6 DEF FinishPicture, Accepting, Answered
<1>7. CASE FailFrame \/ NoPictureInFrame \/ FrameDone
  BY <1>7 DEF FailFrame, NoPictureInFrame, FrameDone, Return, Answered
<1>8. CASE KeepSps \/ ChangeSps \/ NewSequence \/ MoreSlice \/ NewPictureFails \/ NewPicture
           \/ DropPicture \/ PreparePicture \/ InitOver \/ StartPicture
  BY <1>8 DEF KeepSps, ChangeSps, NewSequence, MoreSlice, NewPictureFails, NewPicture,
              DropPicture, PreparePicture, InitOver, StartPicture, callVars, Answered
<1>9. CASE UNCHANGED vars
  BY <1>9 DEF vars, callVars, Answered
<1> QED
  BY <1>2, <1>3, <1>4, <1>5, <1>6, <1>7, <1>8, <1>9 DEF Next, Work, Decoding, Bumping

-----------------------------------------------------------------------------
(* What a step that reads nothing of the stream has to show.               *)
LEMMA CountsSame ==
  ASSUME Counts, UNCHANGED <<stream, prev_tid0, irap_no_rasl>>, cur' = cur \/ cur'.id = 0,
         Coming' = Coming
  PROVE  Counts'
<1>1. CountsKept'
  BY DEF Counts, CountsKept, LastOf, AnchorsBefore, IrapsBefore
<1>2. CurrentCounts'
  BY DEF Counts, CurrentCounts, New
<1> QED
  BY <1>1, <1>2 DEF Counts

LEMMA StreamConformsSame ==
  ASSUME StreamConforms, stream' = stream
  PROVE  StreamConforms'
BY DEF StreamConforms

LEMMA ReadingSame ==
  ASSUME Reading, stream' = stream,
         UNCHANGED <<begin, new_bitstream, prev_nal_is_eos>>,
         (phase = "stopped") <=> (phase' = "stopped"), Shape', Aligned'
  PROVE  Reading'
BY StreamConformsSame DEF Reading, Beginning

(* The units, the picture and the stream are left alone.                   *)
LEMMA UnitsKept ==
  ASSUME Reading, Counts,
         UNCHANGED <<nalu, stream, sps, aus, begin, new_bitstream, prev_nal_is_eos, cur,
                     prev_tid0, irap_no_rasl>>,
         \/ phase' = phase /\ after' = after
         \/ InSlice /\ InSlice'
         \/ InSps /\ InSps'
         \/ phase = "decode" /\ cur.id = 0 /\ Two /\ InSps'
         \/ phase = "nals" /\ HasSlice /\ phase' = "decode"
         \/ ~InUnit /\ ~InUnit' /\ phase # "stopped" /\ phase' # "stopped"
  PROVE  Reading' /\ Counts'
<1>1. /\ (HasSlice' <=> HasSlice) /\ (Empty' <=> Empty) /\ (SetOnly' <=> SetOnly)
      /\ (One' <=> One) /\ (Two' <=> Two)
  BY UnitsSame
<1>2. Shape'
  <2>1. CASE phase = "nals" /\ HasSlice /\ phase' = "decode"
    <3>1. nalu # <<>> /\ ~SetOnly
      BY <2>1 DEF HasSlice, SetOnly
    <3> QED
      BY <1>1, <2>1, <3>1 DEF Reading, Shape, InSps, InSlice, InUnit, Empty
  <2>2. CASE phase' = phase /\ after' = after
    <3>1. (InSps' <=> InSps) /\ (InSlice' <=> InSlice) /\ (InUnit' <=> InUnit)
      BY <2>2 DEF InSps, InSlice, InUnit
    <3>2. (New.starts)' <=> New.starts
      BY UnitsSame
    <3> QED
      BY <1>1, <2>2, <3>1, <3>2 DEF Reading, Shape
  <2>3. CASE (InSlice /\ InSlice') \/ (InSps /\ InSps')
             \/ (phase = "decode" /\ cur.id = 0 /\ Two /\ InSps')
             \/ (~InUnit /\ ~InUnit')
    BY <1>1, <2>3 DEF Reading, Shape, InSps, InSlice, InUnit
  <2> QED
    BY <2>1, <2>2, <2>3
<1>3. Aligned' /\ Coming' = Coming
  BY <1>1 DEF Reading, Aligned, Coming, InSlice, InSps, InUnit
<1>4. (phase = "stopped") <=> (phase' = "stopped")
  BY DEF InSlice, InSps, InUnit
<1> QED
  BY <1>2, <1>3, <1>4, ReadingSame, CountsSame

LEMMA BumpReading ==
  ASSUME Reading, Counts, NEW drain, BumpTurn(drain)
  PROVE  Reading' /\ Counts'
<1>1. UNCHANGED <<phase, after, nalu, stream, sps, aus, begin, new_bitstream,
                  prev_nal_is_eos, cur, prev_tid0, irap_no_rasl>>
  BY DEF BumpTurn, picVars, spsVars, endVars, streamVars
<1> QED
  BY <1>1, UnitsKept

(* A call returns: whatever units are left are forgotten.                  *)
LEMMA ReturnReading ==
  ASSUME IInv, Reading, Counts, Return, phase # "stopped", ~(phase = "nals"), ~HasSlice \/ phase = "fail",
         UNCHANGED <<stream, aus, begin, new_bitstream, prev_nal_is_eos, prev_tid0,
                     irap_no_rasl>>
  PROVE  Reading' /\ Counts'
<1>1. phase' = "idle" /\ nalu' = <<>> /\ cur' = NoPicture
  BY DEF Return
<1>2. ~HasSlice' /\ Empty'
  BY <1>1 DEF HasSlice, Empty
<1>3. Shape' /\ Aligned' /\ Coming' = Coming
  BY <1>1, <1>2 DEF Reading, Shape, Aligned, Coming, InSps, InSlice, InUnit
<1> QED
  BY <1>1, <1>3, ReadingSame, CountsSame, NoPictureType

LEMMA DrainOverReading ==
  ASSUME IInv, Answered, Reading, Counts, DrainOver
  PROVE  Reading' /\ Counts'
<1>1. UNCHANGED <<stream, aus, begin, new_bitstream, prev_nal_is_eos, prev_tid0, irap_no_rasl,
                  sps>> /\ phase = "drain"
  BY DEF DrainOver, picVars, spsVars, endVars, streamVars
<1>2. CASE after = "idle"
  <2>1. Return
    BY <1>2 DEF DrainOver
  <2>2. ~HasSlice
    BY <1>1, <1>2 DEF Reading, Shape, InUnit, Empty, HasSlice
  <2> QED
    BY <1>1, <2>1, <2>2, ReturnReading
<1>3. CASE after # "idle"
  <2>1. InSps /\ InSps' /\ UNCHANGED <<nalu, cur>>
    BY <1>1, <1>3 DEF DrainOver, Answered, InSps, IInv, TypeOK
  <2> QED
    BY <1>1, <2>1, UnitsKept
<1> QED
  BY <1>2, <1>3

(* The first unit is done with.                                            *)
LEMMA TailReading ==
  ASSUME IInv, Reading, Counts, nalu' = Tail(nalu), phase' = "decode",
         UNCHANGED <<stream, sps, aus, begin, new_bitstream, prev_nal_is_eos, prev_tid0,
                     irap_no_rasl>>,
         cur' = cur \/ cur' = NoPicture,
         \/ Two /\ ~InSlice /\ phase \notin {"nals", "fail", "stopped"} /\ cur' = cur /\ cur.id = 0
         \/ One /\ InSlice
  PROVE  Reading' /\ Counts'
<1>0. nalu \in Seq(Units)
  BY DEF IInv, TypeOK, Units
<1>1. CASE Two /\ ~InSlice /\ phase \notin {"nals", "fail", "stopped"} /\ cur' = cur /\ cur.id = 0
  <2>1. /\ HasSlice /\ nalu # <<>> /\ Len(nalu') = 1 /\ nalu'[1] = nalu[2]
        /\ nalu' \in Seq(Units) /\ NewSlice(nalu[2])
    BY <1>0, <1>1, SlicesAre, HeadTailProperties DEF Two
  <2> PICK u : u = nalu[2]
    OBVIOUS
  <2>2. NewSlice(u)' /\ NewSlice(u) /\ nalu'[1] = u
    <3>1. NewSlice(u) /\ nalu'[1] = u
      BY <2>1
    <3>2. NewSlice(u)' <=> NewSlice(u)
      BY DEF NewSlice, New, SliceUnit, SliceOf, EntriesOf
    <3> QED
      BY <3>1, <3>2
  <2>3. One'
    BY <2>1, <2>2 DEF One, NewSlice
  <2>4. HasSlice'
    <3>1. nalu'[1].kind = "slice"
      BY <2>2, SliceHas
    <3>2. 1 \in DOMAIN nalu'
      BY <2>1
    <3> QED
      BY <3>1, <3>2 DEF HasSlice
  <2>5. Shape' /\ Aligned' /\ Coming' = Coming
    BY <1>1, <2>1, <2>3, <2>4 DEF Reading, Shape, Aligned, Coming, InSlice, InSps, InUnit
  <2> QED
    BY <1>1, <2>5, ReadingSame, CountsSame
<1>2. CASE One /\ InSlice
  <2>1. HasSlice /\ nalu' = <<>>
    BY <1>0, <1>2, SlicesAre
  <2>2. Empty' /\ ~HasSlice'
    BY <2>1 DEF Empty, HasSlice
  <2>3. Shape' /\ Aligned' /\ Coming' = Coming
    BY <1>2, <2>1, <2>2 DEF Reading, Shape, Aligned, Coming, InSlice, InSps, InUnit
  <2>4. (phase = "stopped") <=> (phase' = "stopped")
    BY <1>2 DEF InSlice
  <2> QED
    BY <2>3, <2>4, ReadingSame, CountsSame, NoPictureType
<1> QED
  BY <1>1, <1>2

LEMMA SpsReading ==
  ASSUME IInv, Reading, Counts, KeepSps \/ ChangeSps \/ NewSequence
  PROVE  Reading' /\ Counts'
<1>0. nalu \in Seq(Units)
  BY DEF IInv, TypeOK, Units
<1>1. ASSUME NextIs("sps") PROVE phase = "decode" /\ cur.id = 0 /\ Two
  <2>1. ~Empty /\ ~One
    BY <1>0, <1>1, SlicesAre DEF NextIs, Empty
  <2> QED
    BY <1>1, <2>1 DEF NextIs, Reading, Shape
<1>2. CASE KeepSps
  <2>1. /\ NextIs("sps") /\ nalu' = Tail(nalu) /\ phase' = phase /\ cur' = cur
        /\ UNCHANGED <<stream, sps, aus, begin, new_bitstream, prev_nal_is_eos, prev_tid0,
                       irap_no_rasl>>
    BY <1>2 DEF KeepSps, picVars, endVars, streamVars
  <2> QED
    BY <1>1, <2>1, TailReading DEF InSlice
<1>3. CASE ChangeSps
  <2>1. /\ NextIs("sps") /\ (phase' = "newseq" \/ (phase' = "drain" /\ after' = "newseq"))
        /\ UNCHANGED <<nalu, cur, stream, sps, aus, begin, new_bitstream, prev_nal_is_eos,
                       prev_tid0, irap_no_rasl>>
    BY <1>3 DEF ChangeSps, picVars, spsVars, endVars, streamVars
  <2>2. NextIs("sps") /\ InSps'
    BY <1>3, <2>1 DEF ChangeSps, InSps
  <2> QED
    BY <1>1, <2>1, <2>2, UnitsKept
<1>4. CASE NewSequence
  <2>1. /\ phase = "newseq" /\ nalu' = Tail(nalu) /\ phase' = "decode" /\ cur' = cur
        /\ UNCHANGED <<stream, sps, aus, begin, new_bitstream, prev_nal_is_eos, prev_tid0,
                       irap_no_rasl>>
    BY <1>4 DEF NewSequence, picVars, endVars, streamVars
  <2>2. Two /\ cur.id = 0
    BY <2>1 DEF Reading, Shape, InSps
  <2> QED
    BY <2>1, <2>2, TailReading DEF InSlice
<1> QED
  BY <1>2, <1>3, <1>4

LEMMA StepsReading ==
  ASSUME IInv, Answered, Accepting, Reading, Counts,
         \/ MoreSlice \/ NewPictureFails \/ DropPicture
         \/ PreparePicture \/ InitOver \/ StartPicture
         \/ FailFrame \/ NoPictureInFrame \/ FinishPicture \/ FrameDone
  PROVE  Reading' /\ Counts'
<1>0. nalu \in Seq(Units)
  BY DEF IInv, TypeOK, Units
<1>1. CASE MoreSlice \/ NewPictureFails
  <2>1. phase = "decode" /\ nalu # <<>> /\ cur.id # 0
    BY <1>1 DEF MoreSlice, NewPictureFails, NextIs, Accepting
  <2> QED
    BY <2>1 DEF Reading, Shape, Empty
<1>2. CASE DropPicture
  <2>1. /\ InSlice /\ nalu' = Tail(nalu) /\ phase' = "decode" /\ cur' = NoPicture
        /\ UNCHANGED <<stream, sps, aus, begin, new_bitstream, prev_nal_is_eos, prev_tid0,
                       irap_no_rasl>>
    BY <1>2 DEF DropPicture, picVars, spsVars, endVars, streamVars, InSlice
  <2>2. One
    BY <2>1 DEF Reading, Shape
  <2> QED
    BY <2>1, <2>2, TailReading
<1>3. CASE PreparePicture \/ (InitOver /\ phase' = "start")
  <2>1. InSlice /\ InSlice'
    BY <1>3 DEF PreparePicture, InitOver, InSlice
  <2>2. UNCHANGED <<nalu, stream, sps, aus, begin, new_bitstream, prev_nal_is_eos, cur,
                    prev_tid0, irap_no_rasl>>
    BY <1>3 DEF PreparePicture, InitOver, callVars, picVars, spsVars, endVars, streamVars
  <2> QED
    BY <2>1, <2>2, UnitsKept
<1>4. CASE InitOver
  <2>1. phase' = "start"
    BY <1>4 DEF InitOver, Answered
  <2> QED
    BY <1>3, <1>4, <2>1
<1>5. CASE StartPicture
  <2>1. /\ InSlice /\ cur' = cur
        /\ UNCHANGED <<stream, sps, aus, begin, new_bitstream, prev_nal_is_eos, prev_tid0,
                       irap_no_rasl>>
    BY <1>5 DEF StartPicture, picVars, spsVars, endVars, streamVars, InSlice
  <2>2. One
    BY <2>1 DEF Reading, Shape
  <2>3. CASE phase' = "decode" /\ nalu' = Tail(nalu)
    BY <2>1, <2>2, <2>3, TailReading
  <2>4. CASE phase' = "fail" /\ nalu' = nalu
    <3>1. One' /\ (HasSlice' <=> HasSlice)
      BY <2>1, <2>2, <2>4, UnitsSame
    <3>2. Shape' /\ Aligned' /\ Coming' = Coming
      BY <2>1, <2>4, <3>1 DEF Reading, Shape, Aligned, Coming, InSlice, InSps, InUnit
    <3>3. phase # "stopped" /\ phase' # "stopped"
      BY <2>1, <2>4 DEF InSlice
    <3> QED
      BY <2>1, <3>2, <3>3, ReadingSame, CountsSame
  <2> QED
    BY <1>5, <2>3, <2>4 DEF StartPicture
<1>6. CASE FailFrame \/ NoPictureInFrame \/ FrameDone
  <2>1. /\ Return
        /\ UNCHANGED <<stream, aus, begin, new_bitstream, prev_nal_is_eos, prev_tid0,
                       irap_no_rasl>>
    BY <1>6 DEF FailFrame, NoPictureInFrame, FrameDone, picVars, endVars, streamVars
  <2>2. phase \notin {"stopped", "nals"} /\ (~HasSlice \/ phase = "fail")
    <3>1. Empty => ~HasSlice
      BY DEF Empty, HasSlice
    <3> QED
      BY <1>6, <3>1 DEF FailFrame, NoPictureInFrame, FrameDone, Reading, Shape, InUnit, Empty
  <2> QED
    BY <2>1, <2>2, ReturnReading
<1>7. CASE FinishPicture
  <2>1. /\ phase = "decode" /\ nalu = <<>> /\ nalu' = nalu /\ phase' = "bump"
        /\ cur' = NoPicture
        /\ UNCHANGED <<stream, sps, aus, begin, new_bitstream, prev_nal_is_eos, prev_tid0,
                       irap_no_rasl>>
    BY <1>7 DEF FinishPicture, picVars, spsVars, endVars, streamVars
  <2>2. Empty' /\ ~HasSlice' /\ ~HasSlice
    BY <2>1 DEF Empty, HasSlice
  <2>3. Shape' /\ Aligned' /\ Coming' = Coming
    BY <2>1, <2>2 DEF Reading, Shape, Aligned, Coming, InSlice, InSps, InUnit
  <2> QED
    BY <2>1, <2>3, ReadingSame, CountsSame, NoPictureType
<1> QED
  BY <1>1, <1>2, <1>3, <1>4, <1>5, <1>6, <1>7

LEMMA CallsReading ==
  ASSUME IInv, Conforming, Reading, Counts, Calls
  PROVE  Reading' /\ Counts'
<1>1. /\ Empty /\ ~HasSlice /\ nalu' = nalu /\ cur' = cur /\ phase \in {"idle", "stopped"}
      /\ cur.id = 0
      /\ UNCHANGED <<stream, prev_tid0, irap_no_rasl>>
  <2>1. /\ nalu' = nalu /\ cur' = cur /\ phase \in {"idle", "stopped"}
        /\ UNCHANGED <<stream, prev_tid0, irap_no_rasl>>
    BY DEF Calls, HandleFrame, Drain, Flush, Stop, Start, Interrupted, callVars, picVars,
           spsVars, endVars, streamVars
  <2> QED
    BY <2>1 DEF Reading, Shape, InUnit, Empty, HasSlice, IInv, Current
<1>2. Empty' /\ ~HasSlice'
  BY <1>1 DEF Empty, HasSlice
<1>3. StreamConforms'
  BY <1>1, StreamConformsSame DEF Reading
<1>4. Shape'
  BY <1>1, <1>2 DEF Calls, HandleFrame, Drain, Flush, Stop, Start, Shape, InSps, InSlice, InUnit
<1>5. Aligned' /\ Coming' = Coming
  <2>1. aus \in Int
    BY DEF IInv, TypeOK
  <2>2. CASE HandleFrame
    BY <1>1, <1>2, <2>1, <2>2 DEF HandleFrame, Reading, Aligned, Coming
  <2>3. CASE Drain \/ Flush \/ Stop \/ Start
    <3>1. phase' # "nals" /\ aus' = aus
      BY <1>1, <2>3 DEF Drain, Flush, Stop, Start, callVars
    <3> QED
      BY <1>1, <1>2, <3>1 DEF Reading, Aligned, Coming
  <2> QED
    BY <2>2, <2>3 DEF Calls
<1>6. Beginning'
  <2>1. CASE HandleFrame
    BY <1>1, <2>1 DEF HandleFrame, Reading, Beginning, endVars, streamVars
  <2>2. CASE Drain \/ Flush
    <3>1. /\ begin' = IF begin = "any" THEN "idr" ELSE begin
          /\ phase = "idle" /\ phase' # "stopped"
          /\ UNCHANGED <<new_bitstream, prev_nal_is_eos, stream>>
      BY <2>2 DEF Drain, Flush, Interrupted, endVars
    <3> QED
      BY <3>1 DEF Reading, Beginning
  <2>3. CASE Stop
    BY <1>1, <2>3 DEF Stop, Interrupted, Reading, Beginning
  <2>4. CASE Start
    BY <1>1, <2>4 DEF Start, Reading, Beginning, streamVars
  <2> QED
    BY <2>1, <2>2, <2>3, <2>4 DEF Calls
<1> QED
  BY <1>1, <1>3, <1>4, <1>5, <1>6, CountsSame DEF Reading

-----------------------------------------------------------------------------
(* The stream grows by the picture whose slice is read.                    *)
LEMMA EntriesSame ==
  ASSUME NEW s, NEW t, NEW y, y.curr \subseteq y.keep, \A k \in y.keep : t[k] = s[k]
  PROVE  EntriesOf(t, y) = EntriesOf(s, y)
<1> DEFINE Deltas(r, S) == {r[k].poc - y.poc : k \in S}
           Longs(r, S) == {[poc |-> IF y.msb THEN r[k].poc ELSE r[k].poc % MaxLsb,
                            msb |-> y.msb] : k \in S}
           foll == y.keep \ y.curr
<1>1. \A S : S \subseteq y.keep => Deltas(t, S) = Deltas(s, S) /\ Longs(t, S) = Longs(s, S)
  OBVIOUS
<1>2. /\ y.curr \ y.long \subseteq y.keep /\ foll \ y.long \subseteq y.keep
      /\ y.curr \intersect y.long \subseteq y.keep /\ foll \intersect y.long \subseteq y.keep
  OBVIOUS
<1>3. \A r : EntriesOf(r, y) =
        [st_curr |-> Deltas(r, y.curr \ y.long), st_foll |-> Deltas(r, foll \ y.long),
         lt_curr |-> Longs(r, y.curr \intersect y.long),
         lt_foll |-> Longs(r, foll \intersect y.long)]
  BY DEF EntriesOf
<1> HIDE DEF Deltas, Longs, foll
<1> QED
  BY <1>1, <1>2, <1>3

LEMMA StreamExtended ==
  ASSUME IInv, Reading,
         NEW type \in Types, NEW poc \in StreamPocs, NEW tid0 \in Tid0s, NEW y,
         Follows(type, poc, tid0, y), stream' = Append(stream, y)
  PROVE  /\ y \in StreamPictures /\ (y.starts <=> Starts([type |-> type], begin))
         /\ begin # "any" => y.starts
         /\ Conforms(stream', Len(stream) + 1) /\ Len(stream') = Len(stream) + 1
         /\ \A n \in 1..Len(stream) : stream'[n] = stream[n]
         /\ stream'[Len(stream')] = y
<1>1. Conforms(stream', Len(stream) + 1)
  BY NextConforms DEF Reading
<1>2. y \in StreamPictures /\ (y.starts <=> Starts([type |-> type], begin))
  BY NextConforms DEF Reading
<1>3. begin # "any" => y.starts
  BY NextConforms DEF Reading
<1>5. Len(stream') = Len(stream) + 1
  BY NextConforms DEF Reading
<1>4. (\A n \in 1..Len(stream) : stream'[n] = stream[n]) /\ stream'[Len(stream')] = y
  BY NextConforms DEF Reading
<1> QED
  BY <1>1, <1>2, <1>3, <1>4, <1>5

LEMMA NextPictureReading ==
  ASSUME IInv, Reading, Counts, ParseNextPicture
  PROVE  Reading' /\ Counts'
<1>17. PICK type \in Types, poc \in StreamPocs, tid0 \in Tid0s :
        LET x == Begun(stream, type, poc, tid0, begin)
        IN  /\ x.starts = (nalu # <<>>)
            /\ TypeConforms(stream, x, begin)
            /\ OrderConforms(stream, x)
            /\ \E y \in Continuations(stream, x) :
                   /\ ReferencesConform(stream, y, sps)
                   /\ OutputConforms(stream, y, sps)
                   /\ ParsePicture(y)
  BY DEF ParseNextPicture
<1> DEFINE x == Begun(stream, type, poc, tid0, begin)
<1>18. PICK y :
        /\ y \in Continuations(stream, x)
        /\ ReferencesConform(stream, y, sps)
        /\ OutputConforms(stream, y, sps)
        /\ ParsePicture(y)
  BY <1>17
<1>1. Follows(type, poc, tid0, y)
  BY <1>17, <1>18 DEF Follows
<1>2. x.starts = (nalu # <<>>) /\ TypeConforms(stream, x, begin)
      /\ x.starts = Starts([type |-> type], begin) /\ x.type = type
  BY <1>17 DEF Begun
<1> HIDE DEF x
<1>19. PICK noOutput \in BOOLEAN : ParseSlice(SliceOf(stream, y, noOutput), TRUE)
  BY <1>18 DEF ParsePicture
<1>3. stream' = Append(stream, y) /\ begin' = "any"
  BY <1>18 DEF ParsePicture
<1>4. /\ y \in StreamPictures /\ (y.starts <=> Starts([type |-> type], begin))
      /\ Conforms(stream', Len(stream) + 1) /\ Len(stream') = Len(stream) + 1
      /\ \A n \in 1..Len(stream) : stream'[n] = stream[n]
      /\ stream'[Len(stream')] = y
  BY <1>1, <1>3, <1>17, StreamExtended
<1>5. /\ StreamOk /\ StreamOk' /\ Len(stream) \in Nat /\ nalu \in Seq(Units)
      /\ y.keep \subseteq 1..Len(stream) /\ y.curr \subseteq y.keep /\ y.type = type
      /\ y.starts = x.starts
  <2>1. type \in NalTypes /\ poc \in Int /\ tid0 \in BOOLEAN /\ StreamOk
    BY ConstantsAssumption DEF IInv
  <2>2. x \in StreamPictures
    BY <2>1, BegunOk DEF IInv, TypeOK, x
  <2>3. y.keep \subseteq 1..Len(stream) /\ y.curr \subseteq y.keep /\ y.type = type
        /\ y.starts = x.starts
    BY <1>2, <1>18, <2>1, <2>2, ContinuationsOk
  <2> QED
    BY <1>3, <1>4, <2>1, <2>3, StreamGrows DEF StreamOk, IInv, TypeOK, Units
<1>6. StreamConforms'
  <2>1. ASSUME NEW n \in 1..Len(stream) PROVE Conforms(stream', n)
    BY <1>4, <1>5, ConformsSame DEF Reading, StreamConforms, StreamOk
  <2>2. \A n \in 1..Len(stream') : n \in 1..Len(stream) \/ n = Len(stream')
    BY <1>4, <1>5
  <2> QED
    BY <1>4, <2>1, <2>2 DEF StreamConforms
<1> DEFINE h == SliceOf(stream, y, noOutput)
           clear == h.type \in IrapTypes /\ NoRaslOutput(h.type) /\ ~new_bitstream
           unseen == clear /\ (h.type = "CRA" \/ h.no_output_of_prior_pics)
<1>20. PICK u : u = SliceUnit(h, TRUE, NoRaslOutput(h.type), clear, unseen)
  OBVIOUS
<1>7. /\ phase = "nals" /\ phase' = phase /\ ~HasSlice /\ sps # NoSps
      /\ nalu' = Append(nalu, u)
      /\ new_bitstream' = FALSE /\ prev_nal_is_eos' = FALSE
      /\ UNCHANGED <<after, cur, aus, prev_tid0, irap_no_rasl, sps>>
  BY <1>19, <1>20 DEF ParseNextPicture, ParseSlice, picVars, spsVars
<1>16. u \in Units /\ Len(nalu') = Len(nalu) + 1 /\ nalu'[Len(nalu) + 1] = u
       /\ nalu' \in Seq(Units) /\ Len(nalu) \in Nat
       /\ \A i \in 1..Len(nalu) : nalu'[i] = nalu[i]
  <2>1. h \in SliceHeaders
    <3>1. noOutput \in BOOLEAN
      OBVIOUS
    <3> QED
      BY <1>4, <1>5, <3>1, SliceOfOk
  <2>2. NoRaslOutput(h.type) \in BOOLEAN /\ clear \in BOOLEAN /\ unseen \in BOOLEAN
    BY DEF NoRaslOutput
  <2> HIDE DEF h, clear, unseen
  <2>3. u \in Units
    BY <1>20, <2>1, <2>2 DEF SliceUnit, SliceUnits, Units
  <2>4. /\ Append(nalu, u) \in Seq(Units) /\ Len(Append(nalu, u)) = Len(nalu) + 1
        /\ \A i \in 1..Len(nalu) : Append(nalu, u)[i] = nalu[i]
        /\ Append(nalu, u)[Len(nalu) + 1] = u
    BY <1>5, <2>3, AppendProperties
  <2>5. Len(nalu) \in Nat
    BY <1>5
  <2> QED
    BY <1>7, <2>3, <2>4, <2>5
<1>8. NoRaslOutput(h.type) = y.starts
  <2>1. h.type = type
    BY <1>5 DEF SliceOf
  <2>2. begin = "irap" <=> new_bitstream \/ prev_nal_is_eos
    BY <1>7 DEF Reading, Beginning
  <2>3. begin = "irap" => type \in IrapTypes
    BY <1>2 DEF TypeConforms
  <2>4. y.starts \in BOOLEAN
    BY <1>4 DEF StreamPictures
  <2> QED
    BY <1>4, <2>1, <2>2, <2>3, <2>4 DEF NoRaslOutput, Starts, IrapTypes
<1>9. NewSlice(u)' /\ New' = y
  <2>1. New' = y /\ noOutput \in BOOLEAN
    BY <1>4 DEF New
  <2>2. EntriesOf(stream', y) = EntriesOf(stream, y)
    BY <1>4, <1>5, EntriesSame
  <2>3. SliceOf(stream', y, noOutput) = h
    BY <2>2 DEF SliceOf
  <2>4. clear \in BOOLEAN /\ unseen \in BOOLEAN /\ (clear => y.starts)
    BY <1>8 DEF NoRaslOutput
  <2>5. u = SliceUnit(SliceOf(stream', y, noOutput), TRUE, y.starts, clear, unseen)
    BY <2>3, <1>8, <1>20
  <2>6. \E a, b, c \in BOOLEAN :
            /\ u = SliceUnit(SliceOf(stream', y, a), TRUE, y.starts, b, c)
            /\ b => y.starts
    <3> HIDE DEF h, clear, unseen
    <3> QED
      BY <2>1, <2>4, <2>5
  <2> QED
    BY <2>1, <2>6 DEF NewSlice
<1>15. u.kind = "slice"
  BY <1>20 DEF SliceUnit
<1> HIDE DEF h, clear, unseen
<1>10. IF y.starts THEN Two' ELSE One' /\ ~(New.starts)'
  <2>1. y.starts <=> nalu # <<>>
    BY <1>2, <1>5
  <2>2. CASE ~y.starts
    <3>1. Len(nalu') = 1 /\ nalu'[1] = u
      <4>1. Len(nalu) = 0
        BY <2>1, <2>2
      <4> QED
        BY <1>16, <4>1
    <3> QED
      BY <1>9, <2>2, <3>1 DEF One
  <2>3. CASE y.starts
    <3>1. ~One /\ ~Two
      BY <1>5, <1>7, SlicesAre
    <3>2. nalu = <<[kind |-> "sps", sps |-> sps]>>
      BY <1>7, <2>1, <2>3, <3>1 DEF Reading, Shape, Empty, SetOnly
    <3> PICK v : v = [kind |-> "sps", sps |-> sps]
      OBVIOUS
    <3>3. nalu' = Append(<<v>>, u)
      BY <1>7, <3>2
    <3>4. Len(nalu') = 2 /\ nalu'[1] = [kind |-> "sps", sps |-> sps] /\ nalu'[2] = u
      BY <3>3
    <3> QED
      BY <1>7, <1>9, <2>3, <3>4 DEF Two
  <2> QED
    BY <2>2, <2>3
<1>11. HasSlice'
  <2>1. u.kind = "slice"
    BY <1>15
  <2>2. Len(nalu') \in DOMAIN nalu' /\ nalu'[Len(nalu')] = u
    <3>1. CASE nalu = <<>>
      BY <1>16, <3>1
    <3>2. CASE nalu # <<>>
      <4>1. ~One /\ ~Two
        BY <1>5, <1>7, SlicesAre
      <4>2. SetOnly
        BY <1>7, <3>2, <4>1 DEF Reading, Shape, Empty
      <4>3. Len(nalu) = 1
        BY <4>2 DEF SetOnly
      <4> QED
        BY <1>16, <4>3
    <3> QED
      BY <3>1, <3>2
  <2> QED
    BY <2>1, <2>2 DEF HasSlice
<1>12. Shape' /\ Aligned' /\ Coming' = Coming
  <2>1. Shape'
    BY <1>7, <1>9, <1>10 DEF Reading, Shape, InSps, InSlice, InUnit
  <2>2. aus \in Int
    BY DEF IInv, TypeOK
  <2>3. Aligned'
    BY <1>4, <1>5, <1>7, <1>11, <2>2 DEF Reading, Aligned
  <2>4. Coming' = Coming
    BY <1>4, <1>7, <1>11 DEF Coming, InSlice
  <2> QED
    BY <2>1, <2>3, <2>4
<1>13. Beginning'
  <2>1. stream' # <<>>
    BY <1>4, <1>5
  <2> QED
    BY <1>3, <1>7, <2>1 DEF Beginning
<1>14. Counts'
  <2>1. Coming = Len(stream) + 1
    BY <1>7 DEF Coming
  <2>2. /\ AnchorsBefore(stream', Coming) = AnchorsBefore(stream, Coming)
        /\ IrapsBefore(stream', Coming) = IrapsBefore(stream, Coming)
    BY <1>4, <1>5, <2>1 DEF AnchorsBefore, IrapsBefore
  <2>3. \A k \in AnchorsBefore(stream, Coming) \union IrapsBefore(stream, Coming) :
            stream'[k] = stream[k]
    BY <1>4, <1>5, <2>1 DEF AnchorsBefore, IrapsBefore
  <2>4. CountsKept'
    BY <1>7, <1>12, <2>2, <2>3 DEF Counts, CountsKept, LastOf
  <2>5. CurrentCounts'
    BY <1>7 DEF Reading, Shape, CurrentCounts
  <2> QED
    BY <2>4, <2>5 DEF Counts
<1> QED
  BY <1>6, <1>12, <1>13, <1>14 DEF Reading

LEMMA ParsingReading ==
  ASSUME IInv, Conforming, Reading, Counts, Parsing
  PROVE  Reading' /\ Counts'
<1>1. ASSUME NEW s \in SpsSet, ParseSps(s) PROVE Reading' /\ Counts'
  <2>1. /\ phase = "nals" /\ phase' = phase /\ nalu = <<>> /\ sps' = s
        /\ nalu' = <<[kind |-> "sps", sps |-> s]>>
        /\ UNCHANGED <<stream, aus, begin, new_bitstream, prev_nal_is_eos, cur, prev_tid0,
                       irap_no_rasl>>
    BY <1>1 DEF ParseSps, picVars, endVars, streamVars
  <2>2. ~HasSlice /\ SetOnly' /\ nalu' \in Seq(Units)
    <3>1. [kind |-> "sps", sps |-> s] \in Units
      BY DEF Units, SpsUnits
    <3> QED
      BY <2>1, <3>1 DEF HasSlice, SetOnly
  <2>3. ~HasSlice'
    <3>1. nalu'[1].kind = "sps" /\ DOMAIN nalu' = {1}
      BY <2>1
    <3> QED
      BY <3>1 DEF HasSlice
  <2>4. Shape' /\ Aligned' /\ Coming' = Coming
    BY <2>1, <2>2, <2>3 DEF Reading, Shape, Aligned, Coming, InSlice, InSps, InUnit
  <2> QED
    BY <2>1, <2>4, ReadingSame, CountsSame
<1>2. CASE ParseAnySlice \/ BadSlice
  BY <1>2 DEF ParseAnySlice, BadSlice
<1>3. CASE ParseNextPicture
  BY <1>3, NextPictureReading
<1>4. ASSUME NEW end \in Ends, ParseEnd(end) PROVE Reading' /\ Counts'
  <2>1. /\ phase = "nals" /\ phase' = phase /\ HasSlice /\ begin' = "irap"
        /\ new_bitstream' \/ prev_nal_is_eos'
        /\ UNCHANGED <<nalu, stream, sps, aus, cur, prev_tid0, irap_no_rasl>>
    BY <1>4 DEF ParseEnd, callVars, picVars, spsVars
  <2>2. (HasSlice' <=> HasSlice) /\ (Empty' <=> Empty) /\ (SetOnly' <=> SetOnly)
        /\ (One' <=> One) /\ (Two' <=> Two) /\ New' = New
    BY <2>1, UnitsSame
  <2>3. Shape' /\ Aligned' /\ Coming' = Coming
    BY <2>1, <2>2 DEF Reading, Shape, Aligned, Coming, InSlice, InSps, InUnit
  <2>4. Beginning' /\ StreamConforms'
    BY <2>1, StreamConformsSame DEF Reading, Beginning
  <2> QED
    BY <2>1, <2>3, <2>4, CountsSame DEF Reading
<1>5. CASE ParseOver
  <2>1. /\ phase = "nals" /\ HasSlice /\ phase' = "decode"
        /\ UNCHANGED <<nalu, stream, sps, aus, begin, new_bitstream, prev_nal_is_eos, cur,
                       prev_tid0, irap_no_rasl>>
    BY <1>5 DEF ParseOver, callVars, picVars, spsVars, endVars, streamVars
  <2> QED
    BY <2>1, UnitsKept
<1> QED
  BY <1>1, <1>2, <1>3, <1>4, <1>5 DEF Parsing

-----------------------------------------------------------------------------
(* A number is got back from its low bits and one less than half the range *)
(* away (8.3.1).                                                           *)
LEMMA WrapLsb ==
  ASSUME NEW M \in Nat \ {0}, NEW t \in Int, NEW a \in Int,
         2 * (t - a) \in (1 - M)..(M - 1)
  PROVE  LET b == a % M
             l == t % M
             msb == a - b
             m == IF l < b /\ 2 * (b - l) >= M THEN msb + M
                  ELSE IF l > b /\ 2 * (l - b) > M THEN msb - M
                  ELSE msb
         IN  m + l = t
<1> DEFINE b == a % M
           l == t % M
           k == t \div M
           j == a \div M
<1>1. /\ t = k * M + l /\ a = j * M + b
      /\ k \in Int /\ j \in Int /\ l \in 0..M-1 /\ b \in 0..M-1
  OBVIOUS
<1> HIDE DEF b, l, k, j
<1>2. (k - j) * M = (t - a) - (l - b)
  BY <1>1
<1>0. 2 * (t - a) < M /\ 2 * (a - t) < M
  OBVIOUS
<1>3. k - j <= 1
  <2> SUFFICES ASSUME k - j >= 2 PROVE FALSE
    BY <1>1
  <2>1. (k - j) * M >= 2 * M
    BY <1>1
  <2> QED
    BY <2>1, <1>0, <1>1, <1>2
<1>4. k - j >= -1
  <2> SUFFICES ASSUME k - j <= -2 PROVE FALSE
    BY <1>1
  <2>1. (k - j) * M <= (-2) * M
    BY <1>1
  <2> QED
    BY <2>1, <1>0, <1>1, <1>2
<1>5. CASE k - j = 1
  <2>1. (k - j) * M = M
    BY <1>5, <1>1
  <2> QED
    BY <2>1, <1>0, <1>1, <1>2 DEF b, l
<1>6. CASE k - j = 0
  <2>1. (k - j) * M = 0
    BY <1>6, <1>1
  <2> QED
    BY <2>1, <1>0, <1>1, <1>2 DEF b, l
<1>7. CASE k - j = -1
  <2>1. (k - j) * M = -M
    BY <1>7, <1>1
  <2> QED
    BY <2>1, <1>0, <1>1, <1>2 DEF b, l
<1> QED
  BY <1>1, <1>3, <1>4, <1>5, <1>6, <1>7

LEMMA PocMsbRight ==
  ASSUME NEW a \in Int, NEW t \in Int, 2 * (t - a) \in (1 - MaxLsb)..(MaxLsb - 1),
         prev_tid0.lsb = a % MaxLsb, prev_tid0.msb + prev_tid0.lsb = a,
         prev_tid0.msb \in Int
  PROVE  PocMsb(t % MaxLsb) + (t % MaxLsb) = t
<1> PICK h \in Nat \ {0} : MaxLsb = 2 * h
  BY LsbEven
<1>1. MaxLsb \div 2 = h
  OBVIOUS
<1>2. prev_tid0.msb = a - (a % MaxLsb)
  <2>1. a % MaxLsb \in Int
    OBVIOUS
  <2> QED
    BY <2>1
<1> DEFINE b == a % MaxLsb
           l == t % MaxLsb
           msb == a - b
           m == IF l < b /\ 2 * (b - l) >= MaxLsb THEN msb + MaxLsb
                ELSE IF l > b /\ 2 * (l - b) > MaxLsb THEN msb - MaxLsb
                ELSE msb
<1>3. m + l = t
  <2>1. MaxLsb \in Nat \ {0}
    OBVIOUS
  <2> QED
    BY <2>1, WrapLsb, Zenon
<1>7. b \in Int /\ l \in Int
  OBVIOUS
<1> HIDE DEF b, l
<1>4. prev_tid0.lsb = b /\ prev_tid0.msb = msb
  BY <1>2 DEF b
<1>5. PocMsb(l) = m
  BY <1>1, <1>4, <1>7 DEF PocMsb
<1>6. PocMsb(l) + l = t
  BY <1>3, <1>5
<1> QED
  BY <1>6 DEF l

(* The first slice of a picture: what was meant is worked out.             *)
LEMMA NewPictureReading ==
  ASSUME IInv, Reading, Counts, NewPicture
  PROVE  Reading' /\ Counts'
<1> DEFINE N == Len(stream)
<1>1. /\ phase = "decode" /\ phase' = "begin" /\ nalu # <<>> /\ cur.id = 0
      /\ Head(nalu).kind = "slice"
      /\ cur' = PictureOf(Head(nalu)) /\ irap_no_rasl' = IrapNoRasl(Head(nalu))
      /\ prev_tid0' = IF CountsForNext(Head(nalu).header)
                      THEN [lsb |-> PictureOf(Head(nalu)).lsb,
                            msb |-> PictureOf(Head(nalu)).poc - PictureOf(Head(nalu)).lsb]
                      ELSE prev_tid0
      /\ UNCHANGED <<nalu, stream, sps, aus, begin, new_bitstream, prev_nal_is_eos>>
  BY DEF NewPicture, NextIs, spsVars, endVars, streamVars
<1>2. /\ nalu \in Seq(Units) /\ Len(nalu) <= MaxNalu /\ StreamOk /\ TypeOK
      /\ aus \in Nat \ {0} /\ prev_tid0.msb \in Int /\ prev_tid0.lsb \in Nat
  BY <1>1 DEF IInv, TypeOK, Units, Earlier, InUnit
<1>3. One /\ HasSlice /\ NewSlice(Head(nalu))
  <2>1. ~Empty /\ ~Two
    BY <1>1, <1>2, SlicesAre DEF Empty
  <2> QED
    BY <1>1, <1>2, <2>1, SlicesAre DEF Reading, Shape
<1> PICK unit : unit = Head(nalu)
  OBVIOUS
<1>4. /\ unit \in SliceUnits /\ NewSlice(unit) /\ unit.no_rasl = New.starts
      /\ unit.header.type = New.type /\ unit.header.lsb = New.poc % MaxLsb
      /\ unit.header.tid0 = New.tid0 /\ unit.header.pic_output_flag = (New.out \/ New.skip)
  BY <1>1, <1>2, <1>3, HeadType, SliceHas
<1>5. N \in Nat \ {0} /\ Coming = N /\ stream # <<>> /\ New = stream[N]
      /\ Conforms(stream, N) /\ New \in StreamPictures
  <2>1. N = aus
    BY <1>1, <1>3 DEF Reading, Aligned
  <2> QED
    BY <1>1, <1>2, <1>3, <2>1
       DEF Coming, InSlice, Reading, StreamConforms, StreamOk, New
<1>6. /\ New.type \in NalTypes /\ New.poc \in Int /\ New.tid0 \in BOOLEAN
      /\ New.starts \in BOOLEAN /\ New.skip \in BOOLEAN /\ New.out \in BOOLEAN
  BY <1>5 DEF StreamPictures
<1>7. /\ New.starts => New.type \in IrapTypes /\ ~New.skip /\ New.poc \in 0..(MaxLsb - 1)
      /\ N = 1 => New.starts
      /\ New.out => ~New.skip
      /\ New.type \in IrapTypes => New.tid0
  BY <1>5 DEF Conforms, Numbered
<1>8. IrapNoRasl(unit) =
          IF New.type \in IrapTypes THEN New.starts ELSE irap_no_rasl
  BY <1>4 DEF IrapNoRasl
<1>9. ~New.starts =>
        /\ \E a \in LastOf(AnchorsBefore(stream, N)) : a \in 1..N
        /\ \E i \in LastOf(IrapsBefore(stream, N)) : i \in 1..N
  <2> SUFFICES ASSUME ~New.starts
               PROVE  /\ \E a \in LastOf(AnchorsBefore(stream, N)) : a \in 1..N
                      /\ \E i \in LastOf(IrapsBefore(stream, N)) : i \in 1..N
    OBVIOUS
  <2>1. 1 \in 1..(N - 1)
    BY <1>5, <1>7
  <2>2. stream[1].type \in IrapTypes /\ stream[1].tid0
    BY <1>2, <1>5, FirstStarts DEF Reading
  <2>3. 1 \in AnchorsBefore(stream, N) /\ 1 \in IrapsBefore(stream, N)
    BY <2>1, <2>2 DEF AnchorsBefore, IrapsBefore
  <2>4. AnchorsBefore(stream, N) \subseteq 1..N /\ IrapsBefore(stream, N) \subseteq 1..N
    BY <1>5 DEF AnchorsBefore, IrapsBefore
  <2>5. PICK a \in AnchorsBefore(stream, N) : LastOf(AnchorsBefore(stream, N)) = {a}
    BY <1>5, <2>3, <2>4, LastOfExists
  <2>6. PICK i \in IrapsBefore(stream, N) : LastOf(IrapsBefore(stream, N)) = {i}
    BY <1>5, <2>3, <2>4, LastOfExists
  <2> QED
    BY <2>4, <2>5, <2>6
<1>10. (unit.header.type = "RASL" /\ IrapNoRasl(unit)) = New.skip
  <2>1. CASE New.starts
    BY <1>4, <1>6, <1>7, <2>1 DEF IrapTypes
  <2>2. CASE ~New.starts
    <3> PICK i \in LastOf(IrapsBefore(stream, N)) : i \in 1..N
      BY <1>9, <2>2
    <3>1. irap_no_rasl = stream[i].starts
      BY <1>5 DEF Counts, CountsKept
    <3>2. New.skip <=> New.type = "RASL" /\ stream[i].starts
      BY <1>5 DEF Conforms, Numbered
    <3> QED
      BY <1>4, <1>6, <1>8, <3>1, <3>2 DEF IrapTypes
  <2> QED
    BY <1>6, <2>1, <2>2
<1> DEFINE msb == IF unit.header.type \in IrapTypes /\ unit.no_rasl THEN 0
                  ELSE PocMsb(unit.header.lsb)
<1>11. msb + (New.poc % MaxLsb) = New.poc
  <2>1. CASE New.starts
    <3>1. New.poc % MaxLsb = New.poc
      BY <1>6, <1>7, <2>1, LsbTypes
    <3>2. msb = 0
      BY <1>4, <1>7, <2>1
    <3> QED
      BY <3>1, <3>2, <1>6
  <2>2. CASE ~New.starts
    <3>1. PICK a \in LastOf(AnchorsBefore(stream, N)) : a \in 1..N
      BY <1>9, <2>2
    <3>2. /\ prev_tid0.lsb = stream[a].poc % MaxLsb
          /\ prev_tid0.msb + prev_tid0.lsb = stream[a].poc
      BY <1>5, <3>1 DEF Counts, CountsKept
    <3>3. 2 * (New.poc - stream[a].poc) \in (1 - MaxLsb)..(MaxLsb - 1)
      BY <1>5, <2>2, <3>1 DEF Conforms, Ordered
    <3>4. stream[a].poc \in Int
      <4>1. stream[a] \in StreamPictures
        BY <1>2, <3>1 DEF StreamOk
      <4> QED
        BY <4>1 DEF StreamPictures
    <3>5. PocMsb(New.poc % MaxLsb) + (New.poc % MaxLsb) = New.poc
      BY <1>2, <1>6, <3>2, <3>3, <3>4, PocMsbRight
    <3> QED
      BY <1>4, <2>2, <3>5
  <2> QED
    BY <1>6, <2>1, <2>2
<1>12. /\ PictureOf(unit).poc = New.poc /\ PictureOf(unit).lsb = New.poc % MaxLsb
       /\ PictureOf(unit).output_flag = New.out
  <2>1. PictureOf(unit) =
          [NoPicture EXCEPT !.id = aus, !.poc = msb + unit.header.lsb, !.lsb = unit.header.lsb,
             !.output_flag = unit.header.pic_output_flag
                               /\ ~(unit.header.type = "RASL" /\ IrapNoRasl(unit))]
    BY DEF PictureOf
  <2>2. msb + unit.header.lsb = New.poc
    BY <1>4, <1>11
  <2>3. (unit.header.pic_output_flag /\ ~(unit.header.type = "RASL" /\ IrapNoRasl(unit)))
          = New.out
    BY <1>4, <1>6, <1>7, <1>10
  <2> HIDE DEF msb
  <2>4. PictureOf(unit) =
          [NoPicture EXCEPT !.id = aus, !.poc = New.poc, !.lsb = New.poc % MaxLsb,
             !.output_flag = New.out]
    BY <1>4, <2>1, <2>2, <2>3
  <2> QED
    BY <2>4 DEF NoPicture
<1> HIDE DEF msb
<1>13. Coming' = N + 1 /\ (HasSlice' <=> HasSlice) /\ (One' <=> One) /\ New' = New
  <2>1. (HasSlice' <=> HasSlice) /\ (One' <=> One) /\ New' = New
    BY <1>1, UnitsSame
  <2> QED
    BY <1>1, <2>1 DEF Coming, InSlice
<1>14. AnchorsBefore(stream, N + 1) =
         AnchorsBefore(stream, N) \union (IF CountsForNext(unit.header) THEN {N} ELSE {})
  <2>1. \A k : k \in 1..N <=> k \in 1..(N - 1) \/ k = N
    BY <1>5
  <2>2. CountsForNext(unit.header) <=>
          stream[N].tid0 /\ stream[N].type \in IrapTypes \union {"TRAIL"}
    BY <1>4, <1>5 DEF CountsForNext
  <2>3. N + 1 - 1 = N
    BY <1>5
  <2> QED
    BY <2>1, <2>2, <2>3 DEF AnchorsBefore
<1>15. IrapsBefore(stream, N + 1) =
         IrapsBefore(stream, N) \union (IF New.type \in IrapTypes THEN {N} ELSE {})
  <2>1. \A k : k \in 1..N <=> k \in 1..(N - 1) \/ k = N
    BY <1>5
  <2>3. N + 1 - 1 = N
    BY <1>5
  <2> QED
    BY <1>5, <2>1, <2>3 DEF IrapsBefore
<1>16. \A S : \A k \in LastOf(S \union {N}) : S \subseteq 1..(N - 1) => k = N
  BY <1>5 DEF LastOf
<1>17. CountsKept'
  <2>1. ASSUME NEW a \in LastOf(AnchorsBefore(stream, N + 1))
        PROVE  /\ prev_tid0'.lsb = stream[a].poc % MaxLsb
               /\ prev_tid0'.msb + prev_tid0'.lsb = stream[a].poc
    <3>1. CASE CountsForNext(unit.header)
      <4>1. a = N
        BY <1>14, <1>16, <3>1 DEF AnchorsBefore
      <4>2. prev_tid0' = [lsb |-> New.poc % MaxLsb, msb |-> New.poc - (New.poc % MaxLsb)]
        BY <1>1, <1>12, <3>1
      <4>3. New.poc % MaxLsb \in Int
        BY <1>6, LsbTypes
      <4> QED
        BY <1>5, <1>6, <4>1, <4>2, <4>3
    <3>2. CASE ~CountsForNext(unit.header)
      <4>1. a \in LastOf(AnchorsBefore(stream, N)) /\ prev_tid0' = prev_tid0
        BY <1>1, <1>14, <3>2
      <4> QED
        BY <1>5, <4>1 DEF Counts, CountsKept
    <3> QED
      BY <3>1, <3>2
  <2>2. ASSUME NEW i \in LastOf(IrapsBefore(stream, N + 1))
        PROVE  irap_no_rasl' = stream[i].starts
    <3>1. CASE New.type \in IrapTypes
      <4>1. i = N
        BY <1>15, <1>16, <3>1 DEF IrapsBefore
      <4> QED
        BY <1>1, <1>5, <1>8, <3>1, <4>1
    <3>2. CASE New.type \notin IrapTypes
      <4>1. i \in LastOf(IrapsBefore(stream, N)) /\ irap_no_rasl' = irap_no_rasl
        BY <1>1, <1>8, <1>15, <3>2
      <4> QED
        BY <1>5, <4>1 DEF Counts, CountsKept
    <3> QED
      BY <3>1, <3>2
  <2> QED
    BY <1>1, <1>13, <2>1, <2>2 DEF CountsKept
<1>18. CurrentCounts'
  BY <1>1, <1>12, <1>13 DEF CurrentCounts
<1>19. Shape' /\ Aligned'
  BY <1>1, <1>3, <1>13 DEF Reading, Shape, Aligned, InSlice, InSps, InUnit
<1> QED
  BY <1>1, <1>17, <1>18, <1>19, ReadingSame DEF Counts

LEMMA ReadingInit == Init => Reading /\ Counts /\ Answered
<1> SUFFICES ASSUME Init PROVE Reading /\ Counts /\ Answered
  OBVIOUS
<1>1. /\ phase = "idle" /\ after = "idle" /\ nalu = <<>> /\ cur = NoPicture /\ aus = 0
      /\ stream = <<>> /\ begin = "irap" /\ new_bitstream = TRUE /\ ret = "ok"
  BY DEF Init
<1>2. Empty /\ ~HasSlice /\ Len(stream) = 0 /\ cur.id = 0
  BY <1>1, NoPictureType DEF Empty, HasSlice
<1>3. StreamConforms
  BY <1>2 DEF StreamConforms
<1>4. Shape /\ Aligned /\ Beginning /\ Coming = 1
  BY <1>1, <1>2 DEF Shape, Aligned, Beginning, Coming, InSps, InSlice, InUnit
<1>5. AnchorsBefore(stream, 1) = {} /\ IrapsBefore(stream, 1) = {}
  BY DEF AnchorsBefore, IrapsBefore
<1> QED
  BY <1>1, <1>2, <1>3, <1>4, <1>5
     DEF Reading, Counts, CountsKept, CurrentCounts, LastOf, Answered

LEMMA ReadingNext ==
  ASSUME Conforming, Accepting, IInv, Answered, Reading, Counts, [Next]_vars
  PROVE  Reading' /\ Counts'
<1>1. CASE UNCHANGED vars
  <2>1. UNCHANGED <<phase, after, nalu, stream, sps, aus, begin, new_bitstream,
                    prev_nal_is_eos, cur, prev_tid0, irap_no_rasl>>
    BY <1>1 DEF vars, callVars, picVars, spsVars, endVars, streamVars
  <2> QED
    BY <2>1, UnitsKept
<1>2. CASE Parsing
  BY <1>2, ParsingReading
<1>3. CASE KeepSps \/ ChangeSps \/ NewSequence
  BY <1>3, SpsReading
<1>4. CASE NewPicture
  BY <1>4, NewPictureReading
<1>5. CASE MoreSlice \/ NewPictureFails \/ DropPicture \/ PreparePicture \/ InitOver
           \/ StartPicture \/ FailFrame \/ NoPictureInFrame \/ FinishPicture \/ FrameDone
  BY <1>5, StepsReading
<1>6. CASE ClearTurn \/ RoomTurn \/ FinishTurn \/ DrainTurn
  BY <1>6, BumpReading DEF ClearTurn, RoomTurn, FinishTurn, DrainTurn
<1>7. CASE DrainOver
  BY <1>7, DrainOverReading
<1>8. CASE Calls
  BY <1>8, CallsReading
<1> QED
  BY <1>1, <1>2, <1>3, <1>4, <1>5, <1>6, <1>7, <1>8 DEF Next, Work, Decoding, Bumping

LEMMA CurrentIsNew ==
  ASSUME IInv, Reading, cur.id # 0
  PROVE  cur.id = Len(stream) /\ stream[cur.id] = New
<1>1. cur.id = aus /\ phase # "nals"
  BY DEF IInv, Current, Reading, Shape
<1> QED
  BY <1>1 DEF Reading, Aligned, New

(* On a conforming stream the picture order count worked out from its      *)
(* lowest bits is the one the encoder meant, whatever was dropped, however *)
(* often it wrapped around and wherever sequences began.                   *)
THEOREM PocAsMeantCorrect ==
  ASSUME Conforming, Accepting
  PROVE  Spec => []PocAsMeant
<1>1. Init => Reading /\ Counts /\ Answered
  BY ReadingInit
<1>2. /\ IInv /\ ClientInv /\ Answered /\ Reading /\ Counts /\ [Next]_vars
      => Answered' /\ Reading' /\ Counts'
  BY AnsweredKept, ReadingNext
<1>3. IInv /\ Reading /\ Counts => PocAsMeant
  BY CurrentIsNew DEF PocAsMeant, Counts, CurrentCounts
<1> QED
  BY <1>1, <1>2, <1>3, Invariance, ClientInvariance, PTL DEF Spec

-----------------------------------------------------------------------------
(* The references of a buffer, and the long-term ones.                     *)
Refs(d) == Ids(References(d))
Longs(d) == Ids({p \in References(d) : p.long_term})

(* The pictures of d are those of the stream s that can be decoded, and    *)
(* the order counts of the references are different.                       *)
Recorded(d, s) ==
    \A p \in d.pic_list :
        /\ p.poc = s[p.id].poc /\ p.lsb = p.poc % MaxLsb
        /\ ~s[p.id].skip /\ (p.needed_for_output => s[p.id].out)
Distinct(d) == \A p, q \in References(d) : p.poc = q.poc => p = q

(* The pictures of d2 are pictures of d, marked or output meanwhile.       *)
Keeps(d, d2) ==
    \A q \in d2.pic_list : \E p \in d.pic_list :
        /\ q.id = p.id /\ q.poc = p.poc /\ q.lsb = p.lsb
        /\ q.output_flag = p.output_flag /\ (q.needed_for_output => p.needed_for_output)

LEMMA FirstOne ==
  ASSUME NEW p, p.order \in Nat
  PROVE  First({p}) = {p}
<1>1. p.order <= p.order
  OBVIOUS
<1> QED
  BY <1>1 DEF First

LEMMA IdsAreRefs ==
  ASSUME NEW d, DpbOk(d)
  PROVE  /\ \A k \in Refs(d) : \E p \in References(d) : p.id = k
         /\ \A p \in d.pic_list : p.id \in Refs(d) => p \in References(d)
         /\ \A p, q \in d.pic_list : p.id = q.id => p = q
         /\ \A p \in d.pic_list : /\ p \in Picture /\ p.order \in Nat /\ p.poc \in Int
                                  /\ p.ref \in BOOLEAN /\ p.long_term \in BOOLEAN
         /\ References(d) \subseteq d.pic_list
         /\ \A p \in References(d) : p.id \in Longs(d) <=> p.long_term
<1>1. \A p \in d.pic_list : p \in Picture
  BY DEF DpbOk, Dpb
<1>2. \A p \in d.pic_list : /\ p.order \in Nat /\ p.poc \in Int
                            /\ p.ref \in BOOLEAN /\ p.long_term \in BOOLEAN
  BY <1>1 DEF Picture
<1>3. \A p, q \in d.pic_list : p.id = q.id => p = q
  BY DEF DpbOk, Named
<1>4. References(d) \subseteq d.pic_list
  BY DEF References
<1> QED
  BY <1>1, <1>2, <1>3, <1>4 DEF Refs, Longs, Ids, References

(* The entries of a slice find the pictures they were made from.           *)
Codes(d, s, y) ==
    /\ y.keep \subseteq Refs(d) /\ y.curr \subseteq y.keep /\ y.long \subseteq y.keep
    /\ Longs(d) \intersect y.keep \subseteq y.long
    /\ y.msb \in BOOLEAN
    /\ y.msb \/ \A k \in y.long : \A p \in References(d) : s[k].poc % MaxLsb = p.lsb => p.id = k
    /\ y.poc \in Int

LongOf(s, y, k) == [poc |-> IF y.msb THEN s[k].poc ELSE s[k].poc % MaxLsb, msb |-> y.msb]

LEMMA LongFound ==
  ASSUME NEW d, DpbOk(d), NEW s, NEW y, Recorded(d, s), Distinct(d), Codes(d, s, y),
         NEW S \in SUBSET y.long
  PROVE  /\ Found(d, {LongOf(s, y, k) : k \in S}) = {p \in References(d) : p.id \in S}
         /\ Ids(Found(d, {LongOf(s, y, k) : k \in S})) = S
<1>1. ASSUME NEW p \in References(d), p.id \in y.long
      PROVE  LongTerm(d, LongOf(s, y, p.id)) = {p}
  <2> DEFINE e == LongOf(s, y, p.id)
  <2>1. p \in d.pic_list /\ p.order \in Nat /\ p.poc = s[p.id].poc /\ p.lsb = p.poc % MaxLsb
    BY IdsAreRefs DEF Recorded
  <2>2. ASSUME NEW q \in References(d), IF e.msb THEN q.poc = e.poc ELSE q.lsb = e.poc
        PROVE  q = p
    <3>1. CASE y.msb
      BY <2>1, <2>2, <3>1 DEF LongOf, Distinct
    <3>2. CASE ~y.msb
      <4>1. q.lsb = s[p.id].poc % MaxLsb
        BY <2>2, <3>2 DEF LongOf
      <4>2. q.id = p.id
        BY <1>1, <3>2, <4>1 DEF Codes
      <4> QED
        BY <4>2, IdsAreRefs
    <3> QED
      BY <3>1, <3>2
  <2>3. IF e.msb THEN p.poc = e.poc ELSE p.lsb = e.poc
    BY <2>1 DEF LongOf
  <2>4. {q \in References(d) : IF e.msb THEN q.poc = e.poc ELSE q.lsb = e.poc} = {p}
    BY <2>2, <2>3
  <2> QED
    BY <2>1, <2>4, FirstOne DEF LongTerm
<1>2. \A k \in S : \E p \in References(d) : p.id = k
  BY IdsAreRefs DEF Codes
<1>3. Found(d, {LongOf(s, y, k) : k \in S}) = {p \in References(d) : p.id \in S}
  <2>1. ASSUME NEW k \in S
        PROVE  LongTerm(d, LongOf(s, y, k)) = {p \in References(d) : p.id = k}
    <3> PICK p \in References(d) : p.id = k
      BY <1>2
    <3>1. {q \in References(d) : q.id = k} = {p}
      BY IdsAreRefs
    <3> QED
      BY <1>1, <3>1
  <2>2. Found(d, {LongOf(s, y, k) : k \in S}) = UNION {LongTerm(d, LongOf(s, y, k)) : k \in S}
    BY DEF Found
  <2> QED
    BY <2>1, <2>2
<1> QED
  BY <1>2, <1>3 DEF Ids

(* The buffer once the long-term references of the slice are marked.       *)
LEMMA LongMarked ==
  ASSUME NEW d, DpbOk(d), NEW s, NEW y, Recorded(d, s), Distinct(d), Codes(d, s, y),
         NEW e, e = EntriesOf(s, y)
  PROVE  LongTermMarked(d, e).pic_list =
           {IF p.ref /\ p.id \in y.long THEN [p EXCEPT !.long_term = TRUE] ELSE p : p \in d.pic_list}
<1> DEFINE foll == y.keep \ y.curr
           C == y.curr \intersect y.long
           F == foll \intersect y.long
           M == Found(d, e.lt_curr) \union Found(d, e.lt_foll)
<1>1. /\ e.lt_curr = {LongOf(s, y, k) : k \in C}
      /\ e.lt_foll = {LongOf(s, y, k) : k \in F}
  BY DEF EntriesOf, LongOf
<1>2. C \in SUBSET y.long /\ F \in SUBSET y.long /\ C \union F = y.long
  BY DEF Codes
<1> HIDE DEF C, F
<1>3. M = {p \in References(d) : p.id \in y.long}
  <2>1. Found(d, e.lt_curr) = {p \in References(d) : p.id \in C}
    BY <1>1, <1>2, LongFound
  <2>2. Found(d, e.lt_foll) = {p \in References(d) : p.id \in F}
    BY <1>1, <1>2, LongFound
  <2> QED
    BY <1>2, <2>1, <2>2
<1>4. LongTermMarked(d, e).pic_list =
        {IF p \in M THEN [p EXCEPT !.long_term = TRUE] ELSE p : p \in d.pic_list}
  BY DEF LongTermMarked, MarkLongTerm, DpbOk, Dpb
<1>5. \A p \in d.pic_list : p \in M <=> p.ref /\ p.id \in y.long
  BY <1>3 DEF References
<1> HIDE DEF M
<1> QED
  BY <1>4, <1>5

ShortOf(d, s, y, S) ==
    Ids(UNION {ShortTerm(LongTermMarked(d, EntriesOf(s, y)), y.poc + delta) :
                  delta \in {s[k].poc - y.poc : k \in S}})

LEMMA ShortFound ==
  ASSUME NEW d, DpbOk(d), NEW s, NEW y, Recorded(d, s), Distinct(d), Codes(d, s, y),
         NEW S \in SUBSET (y.keep \ y.long)
  PROVE  ShortOf(d, s, y, S) = S
<1> PICK d1 : d1 = LongTermMarked(d, EntriesOf(s, y))
  OBVIOUS
<1> DEFINE mark(p) == IF p.ref /\ p.id \in y.long THEN [p EXCEPT !.long_term = TRUE] ELSE p
           found == UNION {ShortTerm(d1, y.poc + delta) : delta \in {s[k].poc - y.poc : k \in S}}
<1>1. d1.pic_list = {mark(p) : p \in d.pic_list}
  BY LongMarked
<1>2. \A p \in d.pic_list : /\ mark(p).id = p.id /\ mark(p).poc = p.poc /\ mark(p).ref = p.ref
                            /\ mark(p).order = p.order
                            /\ mark(p).long_term = (p.long_term \/ (p.ref /\ p.id \in y.long))
                            /\ (p.id \notin y.long => mark(p) = p)
  <2> SUFFICES ASSUME NEW p \in d.pic_list
               PROVE  /\ mark(p).id = p.id /\ mark(p).poc = p.poc /\ mark(p).ref = p.ref
                      /\ mark(p).order = p.order
                      /\ mark(p).long_term = (p.long_term \/ (p.ref /\ p.id \in y.long))
                      /\ (p.id \notin y.long => mark(p) = p)
    OBVIOUS
  <2>1. p \in Picture /\ p.long_term \in BOOLEAN
    BY IdsAreRefs
  <2>2. CASE p.ref /\ p.id \in y.long
    BY <2>1, <2>2 DEF Picture
  <2>3. CASE ~(p.ref /\ p.id \in y.long)
    BY <2>1, <2>3
  <2> QED
    BY <2>2, <2>3
<1> HIDE DEF mark
<1>3. ASSUME NEW k \in S
      PROVE  \E p \in References(d) :
                p.id = k /\ ShortTerm(d1, y.poc + (s[k].poc - y.poc)) = {p}
  <2>1. k \in Refs(d) /\ k \notin y.long /\ k \in y.keep
    BY DEF Codes
  <2> PICK p \in References(d) : p.id = k
    BY <2>1, IdsAreRefs
  <2>2. /\ p \in d.pic_list /\ p.ref /\ p.order \in Nat /\ p.poc \in Int /\ p.poc = s[k].poc
    BY IdsAreRefs DEF Recorded, References
  <2>3. y.poc + (s[k].poc - y.poc) = p.poc
    BY <2>2 DEF Codes
  <2>4. p \in References(d1) /\ ~p.long_term
    <3>1. p \in d1.pic_list
      BY <1>1, <1>2, <2>1, <2>2
    <3>2. ~p.long_term
      BY <2>1, IdsAreRefs DEF Codes
    <3> QED
      BY <2>2, <3>1, <3>2 DEF References
  <2>5. ASSUME NEW q \in References(d1), ~q.long_term, q.poc = p.poc PROVE q = p
    <3> PICK r \in d.pic_list : q = mark(r)
      BY <1>1 DEF References
    <3>1. r.ref /\ q.ref
      BY <1>2 DEF References
    <3>2. r.id \notin y.long
      BY <1>2, <2>5, <3>1
    <3>3. q = r /\ r \in References(d)
      BY <1>2, <3>1, <3>2 DEF References
    <3> QED
      BY <2>5, <3>3 DEF Distinct
  <2>6. {q \in References(d1) : ~q.long_term /\ q.poc = p.poc} = {p}
    BY <2>4, <2>5
  <2> QED
    BY <2>2, <2>3, <2>6, FirstOne DEF ShortTerm
<1>4. found = UNION {ShortTerm(d1, y.poc + (s[k].poc - y.poc)) : k \in S}
  OBVIOUS
<1>5. \A k \in S : \E p : p.id = k /\ ShortTerm(d1, y.poc + (s[k].poc - y.poc)) = {p}
  BY <1>3
<1>6. Ids(found) \subseteq S
  BY <1>4, <1>5 DEF Ids
<1>7. S \subseteq Ids(found)
  BY <1>4, <1>5 DEF Ids
<1> QED
  BY <1>6, <1>7 DEF ShortOf

LEMMA SetsRight ==
  ASSUME NEW d, DpbOk(d), NEW s, NEW y, Recorded(d, s), Distinct(d), Codes(d, s, y),
         \A k \in y.keep : s[k].poc \in Int,
         NEW refSets, refSets = RefPicSetsOf(d, EntriesOf(s, y), y.poc)
  PROVE  /\ refSets.StCurrBefore = {k \in y.curr \ y.long : s[k].poc < y.poc}
         /\ refSets.StCurrAfter = {k \in y.curr \ y.long : s[k].poc >= y.poc}
         /\ refSets.StFoll = (y.keep \ y.curr) \ y.long
         /\ refSets.LtCurr = y.curr \intersect y.long
         /\ refSets.LtFoll = (y.keep \ y.curr) \intersect y.long
         /\ Referred(refSets) = y.keep
<1> DEFINE e == EntriesOf(s, y)
           d1 == LongTermMarked(d, e)
           Deltas(S) == {s[k].poc - y.poc : k \in S}
           Short(deltas) == Ids(UNION {ShortTerm(d1, y.poc + delta) : delta \in deltas})
           foll == y.keep \ y.curr
           B == {k \in y.curr \ y.long : s[k].poc < y.poc}
           A == {k \in y.curr \ y.long : s[k].poc >= y.poc}
<1>1. /\ e.st_curr = Deltas(y.curr \ y.long) /\ e.st_foll = Deltas(foll \ y.long)
      /\ e.lt_curr = {LongOf(s, y, k) : k \in y.curr \intersect y.long}
      /\ e.lt_foll = {LongOf(s, y, k) : k \in foll \intersect y.long}
  BY DEF EntriesOf, LongOf
<1>2. \A k \in y.keep : s[k].poc \in Int /\ y.poc \in Int
  BY DEF Codes
<1>3. y.curr \subseteq y.keep
  BY DEF Codes
<1>4. {delta \in e.st_curr : delta < 0} = Deltas(B)
  <2>1. \A k \in y.curr \ y.long : s[k].poc - y.poc < 0 <=> s[k].poc < y.poc
    BY <1>2, <1>3
  <2> QED
    BY <1>1, <2>1
<1>5. {delta \in e.st_curr : delta >= 0} = Deltas(A)
  <2>1. \A k \in y.curr \ y.long : s[k].poc - y.poc >= 0 <=> s[k].poc >= y.poc
    BY <1>2, <1>3
  <2> QED
    BY <1>1, <2>1
<1>6. \A S \in SUBSET (y.keep \ y.long) : Short(Deltas(S)) = S
  <2> SUFFICES ASSUME NEW S \in SUBSET (y.keep \ y.long) PROVE Short(Deltas(S)) = S
    OBVIOUS
  <2>1. ShortOf(d, s, y, S) = S
    BY ShortFound
  <2> QED
    BY <2>1, Zenon DEF ShortOf
<1>7. /\ B \in SUBSET (y.keep \ y.long) /\ A \in SUBSET (y.keep \ y.long)
      /\ foll \ y.long \in SUBSET (y.keep \ y.long)
  BY <1>3
<1>8. /\ Short({delta \in e.st_curr : delta < 0}) = B
      /\ Short({delta \in e.st_curr : delta >= 0}) = A
      /\ Short(e.st_foll) = foll \ y.long
  <2> HIDE DEF Short, Deltas, A, B, foll
  <2> QED
    BY <1>1, <1>4, <1>5, <1>6, <1>7
<1>9. /\ Ids(Found(d, e.lt_curr)) = y.curr \intersect y.long
      /\ Ids(Found(d, e.lt_foll)) = foll \intersect y.long
  <2>1. ASSUME NEW S \in SUBSET y.long
        PROVE  Ids(Found(d, {LongOf(s, y, k) : k \in S})) = S
    BY LongFound
  <2>2. y.curr \intersect y.long \in SUBSET y.long /\ foll \intersect y.long \in SUBSET y.long
    OBVIOUS
  <2> HIDE DEF foll, e
  <2> QED
    BY <1>1, <2>1, <2>2
<1>10. refSets =
         [StCurrBefore |-> Short({delta \in e.st_curr : delta < 0}),
          StCurrAfter |-> Short({delta \in e.st_curr : delta >= 0}),
          StFoll |-> Short(e.st_foll),
          LtCurr |-> Ids(Found(d, e.lt_curr)), LtFoll |-> Ids(Found(d, e.lt_foll))]
  BY DEF RefPicSetsOf
<1>11. /\ refSets.StCurrBefore = B /\ refSets.StCurrAfter = A
       /\ refSets.StFoll = foll \ y.long /\ refSets.LtCurr = y.curr \intersect y.long
       /\ refSets.LtFoll = foll \intersect y.long
  <2> HIDE DEF Short, A, B, foll, e
  <2> QED
    BY <1>8, <1>9, <1>10
<1>12. A \union B = y.curr \ y.long
  <2>1. \A k \in y.curr : s[k].poc < y.poc \/ s[k].poc >= y.poc
    BY <1>2, <1>3
  <2> QED
    BY <2>1
<1>13. Referred(refSets) = y.keep
  BY <1>3, <1>11, <1>12 DEF Referred
<1> QED
  BY <1>11, <1>13

(* What the marking of the reference picture set leaves.                   *)
LEMMA MarkRpsRight ==
  ASSUME NEW d, DpbOk(d), NEW s, NEW y, Recorded(d, s), Distinct(d), Codes(d, s, y),
         \A k \in y.keep : s[k].poc \in Int,
         NEW d2, d2 = MarkRps(d, EntriesOf(s, y), y.poc)
  PROVE  /\ Refs(d2) = y.keep /\ Longs(d2) = y.long
         /\ Keeps(d, d2)
<1> DEFINE e == EntriesOf(s, y)
           d1 == LongTermMarked(d, e)
           inSet == Pocs({p \in d.pic_list : p.id \in Referred(RefPicSetsOf(d, e, y.poc))})
           mark(p) == IF p.ref /\ p.id \in y.long THEN [p EXCEPT !.long_term = TRUE] ELSE p
           unmark(p) == IF p.poc \in inSet THEN p
                        ELSE [p EXCEPT !.ref = FALSE, !.long_term = FALSE]
<1>1. inSet = Pocs({p \in d.pic_list : p.id \in y.keep})
  <2> PICK R : R = RefPicSetsOf(d, e, y.poc)
    OBVIOUS
  <2>1. Referred(R) = y.keep
    BY SetsRight
  <2> QED
    BY <2>1
<1>2. d1.pic_list = {mark(p) : p \in d.pic_list}
  BY LongMarked
<1>3. d2.pic_list = {unmark(q) : q \in d1.pic_list}
  <2>1. d2 = [d EXCEPT !.pic_list = {unmark(q) : q \in d1.pic_list}]
    BY Zenon DEF MarkRps
  <2> QED
    BY <2>1 DEF DpbOk, Dpb
<1>4. \A p \in d.pic_list :
        /\ mark(p) \in Picture
        /\ mark(p).id = p.id /\ mark(p).poc = p.poc /\ mark(p).ref = p.ref
        /\ mark(p).lsb = p.lsb /\ mark(p).output_flag = p.output_flag
        /\ mark(p).needed_for_output = p.needed_for_output
        /\ mark(p).long_term = (p.long_term \/ (p.ref /\ p.id \in y.long))
  <2> SUFFICES ASSUME NEW p \in d.pic_list
               PROVE  /\ mark(p) \in Picture
                      /\ mark(p).id = p.id /\ mark(p).poc = p.poc /\ mark(p).ref = p.ref
                      /\ mark(p).lsb = p.lsb /\ mark(p).output_flag = p.output_flag
                      /\ mark(p).needed_for_output = p.needed_for_output
                      /\ mark(p).long_term = (p.long_term \/ (p.ref /\ p.id \in y.long))
    OBVIOUS
  <2>1. p \in Picture /\ p.long_term \in BOOLEAN
    BY IdsAreRefs
  <2>2. CASE p.ref /\ p.id \in y.long
    BY <2>1, <2>2 DEF Picture
  <2>3. CASE ~(p.ref /\ p.id \in y.long)
    BY <2>1, <2>3
  <2> QED
    BY <2>2, <2>3
<1> HIDE DEF mark, inSet
<1>5. \A q \in Picture :
        /\ unmark(q).id = q.id /\ unmark(q).poc = q.poc /\ unmark(q).lsb = q.lsb
        /\ unmark(q).output_flag = q.output_flag
        /\ unmark(q).needed_for_output = q.needed_for_output
        /\ unmark(q).ref = (q.ref /\ q.poc \in inSet)
        /\ unmark(q).long_term = (q.long_term /\ q.poc \in inSet)
  <2> SUFFICES ASSUME NEW q \in Picture
               PROVE  /\ unmark(q).id = q.id /\ unmark(q).poc = q.poc /\ unmark(q).lsb = q.lsb
                      /\ unmark(q).output_flag = q.output_flag
                      /\ unmark(q).needed_for_output = q.needed_for_output
                      /\ unmark(q).ref = (q.ref /\ q.poc \in inSet)
                      /\ unmark(q).long_term = (q.long_term /\ q.poc \in inSet)
    OBVIOUS
  <2>1. CASE q.poc \in inSet
    BY <2>1 DEF Picture
  <2>2. CASE q.poc \notin inSet
    BY <2>2 DEF Picture
  <2> QED
    BY <2>1, <2>2
<1> HIDE DEF unmark, d1
<1> DEFINE g(p) == unmark(mark(p))
<1>6. d2.pic_list = {g(p) : p \in d.pic_list}
  BY <1>2, <1>3
<1>7. \A p \in d.pic_list :
        /\ g(p).id = p.id /\ g(p).poc = p.poc /\ g(p).lsb = p.lsb
        /\ g(p).output_flag = p.output_flag /\ g(p).needed_for_output = p.needed_for_output
        /\ g(p).ref = (p.ref /\ p.poc \in inSet)
        /\ g(p).long_term = ((p.long_term \/ (p.ref /\ p.id \in y.long)) /\ p.poc \in inSet)
  <2> SUFFICES ASSUME NEW p \in d.pic_list
               PROVE  /\ g(p).id = p.id /\ g(p).poc = p.poc /\ g(p).lsb = p.lsb
                      /\ g(p).output_flag = p.output_flag
                      /\ g(p).needed_for_output = p.needed_for_output
                      /\ g(p).ref = (p.ref /\ p.poc \in inSet)
                      /\ g(p).long_term =
                            ((p.long_term \/ (p.ref /\ p.id \in y.long)) /\ p.poc \in inSet)
    OBVIOUS
  <2> PICK q : q = mark(p)
    OBVIOUS
  <2>1. /\ q \in Picture
        /\ q.id = p.id /\ q.poc = p.poc /\ q.ref = p.ref
        /\ q.lsb = p.lsb /\ q.output_flag = p.output_flag
        /\ q.needed_for_output = p.needed_for_output
        /\ q.long_term = (p.long_term \/ (p.ref /\ p.id \in y.long))
    BY <1>4, Zenon
  <2>2. g(p) = unmark(q)
    OBVIOUS
  <2>3. /\ unmark(q).id = q.id /\ unmark(q).poc = q.poc /\ unmark(q).lsb = q.lsb
        /\ unmark(q).output_flag = q.output_flag
        /\ unmark(q).needed_for_output = q.needed_for_output
        /\ unmark(q).ref = (q.ref /\ q.poc \in inSet)
        /\ unmark(q).long_term = (q.long_term /\ q.poc \in inSet)
    BY <1>5, <2>1, Zenon
  <2> QED
    BY <2>1, <2>2, <2>3, Zenon
<1>8. Keeps(d, d2)
  BY <1>6, <1>7 DEF Keeps
<1>9. \A p \in References(d) : p.poc \in inSet <=> p.id \in y.keep
  <2> SUFFICES ASSUME NEW p \in References(d) PROVE p.poc \in inSet <=> p.id \in y.keep
    OBVIOUS
  <2>1. p \in d.pic_list
    BY IdsAreRefs
  <2>2. ASSUME p.poc \in inSet PROVE p.id \in y.keep
    <3> PICK q \in d.pic_list : q.id \in y.keep /\ q.poc = p.poc
      BY <1>1, <2>2 DEF Pocs
    <3>1. q \in References(d)
      BY IdsAreRefs DEF Codes
    <3> QED
      BY <3>1 DEF Distinct
  <2> QED
    BY <1>1, <2>1, <2>2 DEF Pocs
<1> HIDE DEF g
<1>10. Refs(d2) = y.keep
  <2>1. ASSUME NEW k \in Refs(d2) PROVE k \in y.keep
    <3> PICK q \in d2.pic_list : q.ref /\ q.id = k
      BY DEF Refs, Ids, References
    <3> PICK p \in d.pic_list : q = g(p)
      BY <1>6
    <3>1. p \in References(d) /\ p.poc \in inSet /\ p.id = k
      BY <1>7 DEF References
    <3> QED
      BY <1>9, <3>1
  <2>2. ASSUME NEW k \in y.keep PROVE k \in Refs(d2)
    <3> PICK p \in References(d) : p.id = k
      BY IdsAreRefs DEF Codes
    <3>1. p \in d.pic_list /\ p.ref
      BY DEF References
    <3>2. g(p) \in d2.pic_list /\ g(p).ref /\ g(p).id = k
      BY <1>6, <1>7, <1>9, <3>1
    <3> QED
      BY <3>2 DEF Refs, Ids, References
  <2> QED
    BY <2>1, <2>2
<1>11. Longs(d2) = y.long
  <2>1. ASSUME NEW k \in Longs(d2) PROVE k \in y.long
    <3> PICK q \in d2.pic_list : q.ref /\ q.long_term /\ q.id = k
      BY DEF Longs, Ids, References
    <3> PICK p \in d.pic_list : q = g(p)
      BY <1>6
    <3>1. p \in References(d) /\ p.poc \in inSet /\ p.id = k
      BY <1>7 DEF References
    <3>2. p.long_term \/ p.id \in y.long
      BY <1>7, <3>1
    <3>3. p.long_term => p.id \in Longs(d)
      BY <3>1, IdsAreRefs
    <3> QED
      BY <1>9, <3>1, <3>2, <3>3 DEF Codes
  <2>2. ASSUME NEW k \in y.long PROVE k \in Longs(d2)
    <3>0. k \in y.keep /\ k \in Refs(d)
      BY DEF Codes
    <3> PICK p \in References(d) : p.id = k
      BY <3>0, IdsAreRefs
    <3>1. p \in d.pic_list /\ p.ref
      BY DEF References
    <3>2. g(p) \in d2.pic_list /\ g(p).ref /\ g(p).long_term /\ g(p).id = k
      BY <1>6, <1>7, <1>9, <3>0, <3>1
    <3> QED
      BY <3>2 DEF Longs, Ids, References
  <2> QED
    BY <2>1, <2>2
<1> QED
  BY <1>8, <1>10, <1>11

-----------------------------------------------------------------------------
(* The references of a buffer after each operation on it.                  *)
Images(d, S, f, d2) ==
    /\ \A p \in S : /\ f[p].id = p.id /\ f[p].poc = p.poc /\ f[p].lsb = p.lsb
                    /\ f[p].ref = p.ref /\ f[p].long_term = p.long_term
                    /\ f[p].output_flag = p.output_flag
                    /\ (f[p].needed_for_output => p.needed_for_output)
    /\ d2.pic_list = {f[p] : p \in S}

LEMMA ImagesRefs ==
  ASSUME NEW d, NEW S \in SUBSET d.pic_list, NEW f, NEW d2, Images(d, S, f, d2)
  PROVE  /\ Keeps(d, d2)
         /\ References(d) \subseteq S => Refs(d2) = Refs(d) /\ Longs(d2) = Longs(d)
<1>1. Keeps(d, d2)
  BY DEF Images, Keeps
<1>2. ASSUME References(d) \subseteq S PROVE Refs(d2) = Refs(d) /\ Longs(d2) = Longs(d)
  <2>1. References(d2) = {f[p] : p \in References(d)}
    BY <1>2 DEF Images, References
  <2>2. \A p \in References(d) : f[p].id = p.id /\ f[p].long_term = p.long_term
    BY <1>2 DEF Images
  <2> QED
    BY <2>1, <2>2 DEF Refs, Longs, Ids
<1> QED
  BY <1>1, <1>2

LEMMA BumpRefs ==
  ASSUME NEW d, DpbOk(d), NEW p \in NeededForOutput(d), NEW drain \in BOOLEAN,
         NEW d2, d2 = Bump(d, p, drain)
  PROVE  /\ Keeps(d, d2)
         /\ ~drain => Refs(d2) = Refs(d) /\ Longs(d2) = Longs(d)
<1> DEFINE Last(q) == \A r \in d.pic_list : r.order <= q.order
           moved(q) == [q EXCEPT !.order = p.order]
           output(q) == [q EXCEPT !.needed_for_output = FALSE]
<1>1. p \in d.pic_list /\ d.pic_list \subseteq Picture /\ d \in Dpb
  BY DEF NeededForOutput, DpbOk, Dpb
<1>2. \A q \in Picture :
        /\ moved(q).id = q.id /\ moved(q).poc = q.poc /\ moved(q).lsb = q.lsb
        /\ moved(q).ref = q.ref /\ moved(q).long_term = q.long_term
        /\ moved(q).output_flag = q.output_flag
        /\ (moved(q).needed_for_output => q.needed_for_output)
        /\ output(q).id = q.id /\ output(q).poc = q.poc /\ output(q).lsb = q.lsb
        /\ output(q).ref = q.ref /\ output(q).long_term = q.long_term
        /\ output(q).output_flag = q.output_flag
        /\ (output(q).needed_for_output => q.needed_for_output)
  BY DEF Picture
<1>3. CASE Leaves(p, drain)
  <2> DEFINE S == d.pic_list \ {p}
             f == [q \in S |-> IF Last(q) THEN moved(q) ELSE q]
  <2>1. d2.pic_list = {f[q] : q \in S}
    BY <1>1, <1>3 DEF Bump, RemoveFast, Dpb
  <2>2. Images(d, S, f, d2)
    <3> HIDE DEF moved, Last
    <3> QED
      BY <1>1, <1>2, <2>1 DEF Images
  <2>3. S \in SUBSET d.pic_list /\ (~drain => References(d) \subseteq S)
    BY <1>3 DEF Leaves, References
  <2> HIDE DEF f, S
  <2> QED
    BY <2>2, <2>3, ImagesRefs
<1>4. CASE ~Leaves(p, drain)
  <2> DEFINE S == d.pic_list
             f == [q \in S |-> IF q = p THEN output(q) ELSE q]
  <2>1. d2.pic_list = {f[q] : q \in S}
    <3>1. d2.pic_list = (S \ {p}) \union {output(p)}
      BY <1>1, <1>4 DEF Bump, Dpb
    <3> HIDE DEF output
    <3> QED
      BY <1>1, <3>1
  <2>2. Images(d, S, f, d2)
    <3> HIDE DEF output
    <3> QED
      BY <1>1, <1>2, <2>1 DEF Images
  <2>3. S \in SUBSET d.pic_list /\ References(d) \subseteq S
    BY DEF References
  <2> HIDE DEF f, S
  <2> QED
    BY <2>2, <2>3, ImagesRefs
<1> QED
  BY <1>3, <1>4

LEMMA DeleteRefs ==
  ASSUME NEW d, DpbOk(d), NEW d2, d2 = DeleteUnused(d)
  PROVE  Keeps(d, d2) /\ Refs(d2) = Refs(d) /\ Longs(d2) = Longs(d)
<1>1. d2.pic_list = d.pic_list \ Unused(d)
  BY DEF DeleteUnused, DpbOk, Dpb
<1>2. References(d2) = References(d)
  BY <1>1 DEF References, Unused
<1> QED
  BY <1>1, <1>2 DEF Keeps, Refs, Longs

LEMMA ResetRefs ==
  ASSUME NEW d, DpbOk(d), NEW d2, d2 = MarkAllNonRef(d)
  PROVE  Keeps(d, d2) /\ References(d2) = {} /\ Refs(d2) = {} /\ Longs(d2) = {}
<1> DEFINE f(p) == [p EXCEPT !.ref = FALSE]
<1>1. d2.pic_list = {f(p) : p \in d.pic_list} /\ d.pic_list \subseteq Picture
  BY DEF MarkAllNonRef, DpbOk, Dpb
<1>2. \A p \in Picture :
        /\ f(p).id = p.id /\ f(p).poc = p.poc /\ f(p).lsb = p.lsb /\ f(p).ref = FALSE
        /\ f(p).output_flag = p.output_flag /\ f(p).needed_for_output = p.needed_for_output
  BY DEF Picture
<1> HIDE DEF f
<1>3. Keeps(d, d2)
  BY <1>1, <1>2 DEF Keeps
<1>4. References(d2) = {}
  BY <1>1, <1>2 DEF References
<1> QED
  BY <1>3, <1>4 DEF Refs, Longs, Ids

LEMMA ClearedRefs ==
  ASSUME NEW d, d.pic_list = {}
  PROVE  Refs(d) = {} /\ Longs(d) = {} /\ \A s : Recorded(d, s)
BY DEF Refs, Longs, Ids, References, Recorded

LEMMA AddRefs ==
  ASSUME NEW d, DpbOk(d), NEW p \in Picture, NEW d2, d2 = DpbAdd(d, p)
  PROVE  /\ Refs(d2) = Refs(d) \union {p.id}
         /\ p.id \notin Refs(d) => Longs(d2) = Longs(d)
         /\ \A q \in d2.pic_list :
               \/ \E r \in d.pic_list :
                     /\ q.id = r.id /\ q.poc = r.poc /\ q.lsb = r.lsb
                     /\ (q.needed_for_output => r.needed_for_output)
               \/ /\ q.id = p.id /\ q.poc = p.poc /\ q.lsb = p.lsb
                  /\ q.needed_for_output = p.output_flag
<1> DEFINE q0 == [p EXCEPT !.order = d.tail, !.needed_for_output = p.output_flag,
                           !.ref = TRUE, !.long_term = FALSE]
           old(r) == [r EXCEPT !.latency = @ + 1]
           f == [r \in d.pic_list |-> IF p.output_flag /\ r.needed_for_output THEN old(r) ELSE r]
           d1 == [d EXCEPT !.pic_list = {f[r] : r \in d.pic_list}]
<1>1. d.pic_list \subseteq Picture /\ d \in Dpb
  BY DEF DpbOk, Dpb
<1>2. \A r \in Picture :
        /\ old(r).id = r.id /\ old(r).poc = r.poc /\ old(r).lsb = r.lsb
        /\ old(r).ref = r.ref /\ old(r).long_term = r.long_term
        /\ old(r).output_flag = r.output_flag
        /\ (old(r).needed_for_output => r.needed_for_output)
  BY DEF Picture
<1>3. /\ q0.id = p.id /\ q0.poc = p.poc /\ q0.lsb = p.lsb /\ q0.ref = TRUE
      /\ q0.long_term = FALSE /\ q0.needed_for_output = p.output_flag
  BY DEF Picture
<1>4. {f[r] : r \in d.pic_list} = IF p.output_flag THEN Aged(d.pic_list) ELSE d.pic_list
  <2> HIDE DEF old
  <2>1. CASE p.output_flag
    <3>1. \A r \in d.pic_list : f[r] = IF r.needed_for_output THEN old(r) ELSE r
      BY <2>1
    <3> QED
      BY <2>1, <3>1 DEF Aged, old
  <2>2. CASE ~p.output_flag
    BY <2>2
  <2> QED
    BY <2>1, <2>2
<1> HIDE DEF q0, f
<1>5. d2.pic_list = {f[r] : r \in d.pic_list} \union {q0}
  BY <1>1, <1>4 DEF DpbAdd, q0, Dpb
<1>6. Images(d, d.pic_list, f, d1)
  <2> HIDE DEF old
  <2> QED
    BY <1>1, <1>2 DEF Images, f, Dpb
<1>7. d1.pic_list = {f[r] : r \in d.pic_list}
  BY <1>1 DEF Dpb
<1>8. Keeps(d, d1) /\ Refs(d1) = Refs(d) /\ Longs(d1) = Longs(d)
  <2>1. d.pic_list \in SUBSET d.pic_list /\ References(d) \subseteq d.pic_list
    BY DEF References
  <2> HIDE DEF d1
  <2> QED
    BY <1>6, <2>1, ImagesRefs
<1> HIDE DEF d1
<1>9. d2.pic_list = d1.pic_list \union {q0}
  BY <1>5, <1>7
<1>10. References(d2) = References(d1) \union {q0}
  BY <1>3, <1>9 DEF References
<1>11. Refs(d2) = Refs(d) \union {p.id} /\ Longs(d2) = Longs(d)
  BY <1>3, <1>8, <1>10 DEF Refs, Longs, Ids
<1> QED
  BY <1>3, <1>8, <1>9, <1>11 DEF Keeps

LEMMA KeepsRecorded ==
  ASSUME NEW d, NEW d2, NEW s, Recorded(d, s), Keeps(d, d2)
  PROVE  Recorded(d2, s)
BY DEF Recorded, Keeps

LEMMA KeepsBoth ==
  ASSUME NEW d, NEW d1, NEW d2, Keeps(d, d1), Keeps(d1, d2)
  PROVE  Keeps(d, d2)
BY DEF Keeps

-----------------------------------------------------------------------------
(* The pictures whose references the buffer holds: up to when the access   *)
(* unit in progress has marked its own, those of the picture before it.    *)
Pending == HasSlice /\ phase \notin {"clear", "room", "start"}
Prepared == phase \in {"clear", "room", "start"} \/ (phase = "decode" /\ cur.id # 0)
Done == IF Pending THEN Len(stream) - 1 ELSE Len(stream)
Continues == IF Pending THEN ~New.starts ELSE begin = "any" /\ nalu = <<>>
DecodedUpTo(s, n) == {k \in 1..n : s[k].cvs = s[n].cvs /\ ~s[k].skip}

SetsAre(x) ==
    /\ Referred(sets) = x.keep
    /\ sets.StCurrBefore \union sets.StCurrAfter = x.curr \ x.long
    /\ \A k \in sets.StCurrBefore : stream[k].poc < x.poc
    /\ sets.LtCurr = x.curr \intersect x.long
DataAre(x) ==
    /\ data.RefPics = x.keep
    /\ data.StCurrBefore \union data.StCurrAfter = x.curr \ x.long
    /\ \A k \in data.StCurrBefore : stream[k].poc < x.poc
    /\ data.LtCurr = x.curr \intersect x.long
    /\ data.Long = x.long

Marked(d) ==
    Refs(dpb) = stream[d].keep \union {d} /\ Longs(dpb) = stream[d].long
        /\ Referred(sets) = stream[d].keep
RefsKept ==
    /\ Prepared => ~New.skip /\ Refs(dpb) = New.keep /\ Longs(dpb) = New.long /\ SetsAre(New)
    /\ ~Prepared /\ Continues => \A d \in LastOf(DecodedUpTo(stream, Done)) : Marked(d)
Fits == HasSlice \/ cur.id # 0 => Cardinality(New.keep) < sps.buffering
RefsInv ==
    /\ phase # "fail"
    /\ phase = "drain" /\ after = "idle" => begin # "any"
    /\ Recorded(dpb, stream) /\ Fits /\ RefsKept
    /\ phase = "decode" /\ cur.id # 0 => DataAre(New)

(* What the units of the access unit say of the phase.                     *)
Places ==
    /\ nalu = <<>> => ~HasSlice
    /\ phase = "nals" => cur.id = 0 /\ (HasSlice \/ nalu = <<>> \/ Len(nalu) = 1)
    /\ phase = "decode" /\ cur.id # 0 => nalu = <<>>
    /\ phase = "decode" /\ nalu # <<>> => HasSlice
    /\ InSps => HasSlice /\ New.starts
    /\ InSlice => HasSlice /\ One
    /\ ~InUnit => nalu = <<>> /\ cur.id = 0
    /\ Two => HasSlice /\ New.starts

LEMMA PlacesRight == IInv /\ Reading => Places
<1> SUFFICES ASSUME IInv, Reading PROVE Places
  OBVIOUS
<1>1. nalu \in Seq(Units) /\ Len(nalu) \in Nat
  BY DEF IInv, TypeOK, Units
<1>2. /\ One => HasSlice
      /\ Two => HasSlice
      /\ Empty => ~HasSlice
      /\ SetOnly => Len(nalu) = 1
  BY <1>1, SlicesAre
<1>3. Two => New.starts
  BY DEF Two
<1> QED
  BY <1>2, <1>3 DEF Places, Reading, Shape, Empty, InUnit, IInv, Current

LEMMA Standing ==
  ASSUME UNCHANGED <<nalu, stream>>
  PROVE  (HasSlice' <=> HasSlice) /\ New' = New
BY DEF HasSlice, New

(* A step that reads no picture of the stream and marks no reference.      *)
LEMMA RefsQuiet ==
  ASSUME RefsInv, stream' = stream, Recorded(dpb', stream),
         \/ Refs(dpb') = Refs(dpb) /\ Longs(dpb') = Longs(dpb) /\ sets' = sets
         \/ ~Prepared' /\ ~Continues',
         Prepared' => Prepared,
         ~Prepared' /\ Continues' => ~Prepared /\ Continues /\ Done' = Done,
         phase' # "fail", phase' = "drain" /\ after' = "idle" => begin' # "any",
         HasSlice' \/ cur'.id # 0 => (HasSlice \/ cur.id # 0) /\ sps' = sps,
         phase' = "decode" /\ cur'.id # 0 => phase = "decode" /\ cur.id # 0 /\ data' = data
  PROVE  RefsInv'
<1>1. New' = New
  BY DEF New
<1>2. Fits'
  BY <1>1 DEF RefsInv, Fits
<1>3. (phase = "decode" /\ cur.id # 0 => DataAre(New))'
  BY <1>1 DEF RefsInv, DataAre
<1>4. RefsKept'
  <2>1. CASE Prepared'
    BY <1>1, <2>1 DEF RefsInv, RefsKept, SetsAre
  <2>2. CASE ~Prepared'
    <3>1. SUFFICES ASSUME Continues', NEW d \in LastOf(DecodedUpTo(stream, Done)')
                   PROVE  Marked(d)'
      BY <2>2 DEF RefsKept, LastOf
    <3>2. d \in LastOf(DecodedUpTo(stream, Done)) /\ ~Prepared /\ Continues
      BY <2>2, <3>1 DEF DecodedUpTo, LastOf
    <3> QED
      BY <2>2, <3>1, <3>2 DEF RefsInv, RefsKept, Marked
  <2> QED
    BY <2>1, <2>2
<1> QED
  BY <1>2, <1>3, <1>4 DEF RefsInv

LEMMA BumpRefsInv ==
  ASSUME IInv, Reading, RefsInv, NEW drain \in BOOLEAN, BumpTurn(drain),
         drain => phase = "drain"
  PROVE  RefsInv'
<1> PICK low \in NeededForOutput(dpb) : dpb' = Bump(dpb, low, drain)
  BY DEF BumpTurn
<1>1. UNCHANGED <<phase, after, nalu, cur, data, sets, stream, begin, sps>>
  BY DEF BumpTurn, picVars, spsVars, streamVars
<1>2. Keeps(dpb, dpb') /\ (~drain => Refs(dpb') = Refs(dpb) /\ Longs(dpb') = Longs(dpb))
  BY BumpRefs DEF IInv
<1>3. Recorded(dpb', stream)
  BY <1>2, KeepsRecorded DEF RefsInv
<1>4. drain => ~Prepared /\ ~Continues
  BY PlacesRight DEF Places, RefsInv, Prepared, Continues, Pending, InSps, InUnit, IInv, TypeOK
<1>5. /\ (HasSlice' <=> HasSlice) /\ (Prepared' <=> Prepared) /\ (Continues' <=> Continues)
      /\ Done' = Done
  BY <1>1, Standing DEF Prepared, Continues, Pending, Done
<1>6. phase' # "fail" /\ (phase' = "drain" /\ after' = "idle" => begin' # "any")
  BY <1>1 DEF RefsInv
<1> QED
  BY <1>1, <1>2, <1>3, <1>4, <1>5, <1>6, RefsQuiet

LEMMA ParsingRefs ==
  ASSUME Conforming, IInv, Reading, RefsInv,
         \/ \E s \in SpsSet : ParseSps(s)
         \/ ParseAnySlice \/ \E end \in Ends : ParseEnd(end)
         \/ ParseOver \/ BadSlice
  PROVE  RefsInv'
<1>0. Places
  BY PlacesRight
<1>1. ASSUME NEW s \in SpsSet, ParseSps(s) PROVE RefsInv'
  <2>1. /\ phase = "nals" /\ phase' = phase /\ nalu = <<>> /\ cur' = cur /\ cur.id = 0
        /\ nalu' = Append(nalu, [kind |-> "sps", sps |-> s])
        /\ UNCHANGED <<dpb, sets, stream>>
    BY <1>0, <1>1 DEF ParseSps, picVars, streamVars, Places
  <2>2. nalu' = <<[kind |-> "sps", sps |-> s]>> /\ nalu' # <<>>
    BY <2>1
  <2>3. ~HasSlice'
    BY <2>2 DEF HasSlice
  <2>4. ~Prepared' /\ ~Continues'
    BY <2>1, <2>2, <2>3 DEF Prepared, Continues, Pending
  <2>5. Recorded(dpb', stream)
    BY <2>1 DEF RefsInv
  <2> QED
    BY <2>1, <2>3, <2>4, <2>5, RefsQuiet
<1>2. CASE (\E end \in Ends : ParseEnd(end)) \/ ParseOver
  <2>1. /\ phase = "nals" /\ phase' \in {"nals", "decode"} /\ HasSlice /\ cur.id = 0
        /\ UNCHANGED <<nalu, cur, data, dpb, sets, stream, sps>>
    BY <1>0, <1>2 DEF ParseEnd, ParseOver, callVars, picVars, spsVars, streamVars, Places
  <2>2. HasSlice' /\ New' = New
    BY <2>1, Standing
  <2>3. /\ ~Prepared /\ ~Prepared' /\ (Continues' <=> Continues) /\ Done' = Done
    BY <2>1, <2>2 DEF Prepared, Continues, Pending, Done
  <2>4. Recorded(dpb', stream)
    BY <2>1 DEF RefsInv
  <2> QED
    BY <2>1, <2>2, <2>3, <2>4, RefsQuiet
<1> QED
  BY <1>1, <1>2 DEF ParseAnySlice, BadSlice

LEMMA SpsRefs ==
  ASSUME IInv, IInv', Reading, Reading', RefsInv, KeepSps \/ ChangeSps \/ NewSequence
  PROVE  RefsInv'
<1>0. Places /\ Places'
  <2>1. IInv' /\ Reading' => Places'
    BY PlacesRight, PTL
  <2> QED
    BY <2>1, PlacesRight
<1>1. /\ nalu \in Seq(Units) /\ nalu # <<>> /\ cur' = cur /\ cur.id = 0 /\ Two
      /\ UNCHANGED <<sets, stream, sps>>
  <2>1. nalu \in Seq(Units)
    BY DEF IInv, TypeOK, Units
  <2>2. ASSUME NextIs("sps") PROVE nalu # <<>> /\ cur.id = 0 /\ Two
    <3>1. ~Empty /\ ~One
      BY <2>1, <2>2, SlicesAre DEF NextIs, Empty
    <3> QED
      BY <2>2, <3>1 DEF NextIs, Reading, Shape, Empty
  <2>3. ASSUME phase = "newseq" PROVE nalu # <<>> /\ cur.id = 0 /\ Two
    BY <2>1, <2>3, SlicesAre DEF Reading, Shape, InSps
  <2> QED
    BY <2>1, <2>2, <2>3
       DEF KeepSps, ChangeSps, NewSequence, picVars, spsVars, streamVars
<1>2. Recorded(dpb', stream)
  <2>1. dpb'.pic_list = dpb.pic_list \/ dpb'.pic_list = {}
    <3>1. CASE KeepSps
      BY <3>1 DEF KeepSps
    <3>2. CASE ChangeSps
      BY <3>2, DpbClearOk DEF ChangeSps, ClearDpb, IInv, DpbOk
    <3>3. CASE NewSequence
      BY <3>3 DEF NewSequence, IInv, DpbOk, Dpb
    <3> QED
      BY <3>1, <3>2, <3>3
  <2> QED
    BY <2>1 DEF RefsInv, Recorded
<1>3. /\ phase' = "decode" \/ InSps' 
      /\ phase' # "fail" /\ (phase' = "drain" => after' # "idle")
      /\ phase' = "decode" => nalu' # <<>>
  <2>1. CASE KeepSps \/ NewSequence
    <3>1. phase' = "decode" /\ nalu' = Tail(nalu)
      BY <2>1 DEF KeepSps, NewSequence, NextIs
    <3>2. Len(nalu') = 1
      BY <1>1, <3>1, SlicesAre
    <3>3. nalu' # <<>>
      BY <3>2
    <3> QED
      BY <3>1, <3>3
  <2>2. CASE ChangeSps
    BY <2>2 DEF ChangeSps, InSps
  <2> QED
    BY <2>1, <2>2
<1>4. HasSlice' /\ HasSlice
  BY <1>0, <1>1, <1>3 DEF Places
<1>5. New.starts /\ New' = New
  BY <1>0, <1>1 DEF Places, New
<1>6. ~Prepared' /\ ~Continues'
  BY <1>1, <1>3, <1>4, <1>5 DEF Prepared, Continues, Pending, InSps
<1> QED
  BY <1>1, <1>2, <1>3, <1>4, <1>6, RefsQuiet

LEMMA StepsRefs ==
  ASSUME Conforming, Accepting, Answered, IInv, Reading, Counts, RefsInv,
         \/ MoreSlice \/ NewPictureFails \/ NewPicture \/ InitOver
         \/ FailFrame \/ NoPictureInFrame \/ FrameDone
  PROVE  RefsInv'
<1>0. Places /\ Recorded(dpb, stream)
  BY PlacesRight DEF RefsInv
<1>1. CASE MoreSlice \/ NewPictureFails \/ FailFrame
  BY <1>0, <1>1 DEF MoreSlice, NewPictureFails, FailFrame, NextIs, Accepting, Places, RefsInv
<1>2. CASE NewPicture
  <2>1. /\ phase = "decode" /\ phase' = "begin" /\ nalu # <<>> /\ cur.id = 0
        /\ UNCHANGED <<nalu, dpb, sets, stream, sps, begin>>
    BY <1>2 DEF NewPicture, NextIs, spsVars, streamVars
  <2>2. HasSlice /\ HasSlice' /\ New' = New
    BY <1>0, <2>1, Standing DEF Places
  <2>3. /\ ~Prepared /\ ~Prepared' /\ (Continues' <=> Continues) /\ Done' = Done
    BY <2>1, <2>2 DEF Prepared, Continues, Pending, Done
  <2> QED
    BY <1>0, <2>1, <2>2, <2>3, RefsQuiet
<1>3. CASE InitOver
  <2>1. /\ phase \in {"clear", "room"} /\ phase' = "start"
        /\ UNCHANGED <<nalu, cur, dpb, sets, stream, sps>>
    BY <1>3 DEF InitOver, Answered, callVars, picVars, spsVars, streamVars
  <2>2. HasSlice' <=> HasSlice
    BY <2>1, Standing
  <2>3. Prepared /\ Prepared'
    BY <2>1 DEF Prepared
  <2> QED
    BY <1>0, <2>1, <2>2, <2>3, RefsQuiet
<1>4. CASE NoPictureInFrame \/ FrameDone
  <2>1. /\ phase \in {"decode", "bump"} /\ cur.id = 0 /\ nalu = <<>> /\ phase' = "idle"
        /\ nalu' = <<>> /\ cur'.id = 0
        /\ UNCHANGED <<dpb, sets, stream, begin>>
    BY <1>0, <1>4, NoPictureType
       DEF NoPictureInFrame, FrameDone, Return, picVars, streamVars, Places, InUnit
  <2>2. ~HasSlice' /\ ~HasSlice
    BY <2>1 DEF HasSlice
  <2>3. /\ ~Prepared /\ ~Prepared' /\ (Continues' <=> Continues) /\ Done' = Done
    BY <2>1, <2>2 DEF Prepared, Continues, Pending, Done
  <2> QED
    BY <1>0, <2>1, <2>2, <2>3, RefsQuiet
<1> QED
  BY <1>1, <1>2, <1>3, <1>4

LEMMA DrainOverRefs ==
  ASSUME Answered, IInv, IInv', Reading, Reading', RefsInv, DrainOver
  PROVE  RefsInv'
<1>0. Places /\ Places'
  <2>1. IInv' /\ Reading' => Places'
    BY PlacesRight, PTL
  <2> QED
    BY <2>1, PlacesRight
<1>1. /\ phase = "drain" /\ UNCHANGED <<sets, stream, begin, sps>>
      /\ dpb'.pic_list = {} /\ after \in {"idle", "newseq"}
  BY DpbClearOk DEF DrainOver, IInv, TypeOK, DpbOk, picVars, spsVars, streamVars
<1>2. Recorded(dpb', stream)
  BY <1>1, ClearedRefs
<1>3. CASE after = "idle"
  <2>1. phase' = "idle" /\ nalu' = <<>> /\ cur'.id = 0 /\ begin' # "any"
    BY <1>1, <1>3, NoPictureType DEF DrainOver, Return, RefsInv
  <2>2. ~HasSlice'
    BY <2>1 DEF HasSlice
  <2>3. ~Prepared' /\ ~Continues'
    BY <2>1, <2>2 DEF Prepared, Continues, Pending
  <2> QED
    BY <1>1, <1>2, <2>1, <2>2, <2>3, RefsQuiet
<1>4. CASE after = "newseq"
  <2>1. phase' = "newseq" /\ cur' = cur /\ nalu' = nalu
    BY <1>4 DEF DrainOver, Answered
  <2>2. HasSlice' /\ HasSlice /\ New'.starts
    BY <1>0, <1>1, <1>4, <2>1 DEF Places, InSps
  <2>3. ~Prepared' /\ ~Continues'
    BY <2>1, <2>2 DEF Prepared, Continues, Pending
  <2> QED
    BY <1>1, <1>2, <2>1, <2>2, <2>3, RefsQuiet
<1> QED
  BY <1>1, <1>3, <1>4

LEMMA CallsRefs ==
  ASSUME Conforming, IInv, Reading, RefsInv, Calls
  PROVE  RefsInv'
<1>0. Places /\ Recorded(dpb, stream)
  BY PlacesRight DEF RefsInv
<1>1. /\ nalu = <<>> /\ nalu' = nalu /\ cur' = cur /\ phase \in {"idle", "stopped"}
      /\ cur.id = 0 /\ stream' = stream
  <2>1. /\ nalu' = nalu /\ cur' = cur /\ phase \in {"idle", "stopped"} /\ stream' = stream
    BY DEF Calls, HandleFrame, Drain, Flush, Stop, Start, Interrupted, callVars, streamVars
  <2> QED
    BY <1>0, <2>1 DEF Places, InUnit
<1>2. ~HasSlice /\ ~HasSlice' /\ ~Prepared /\ ~Prepared'
  <2>1. phase' \in {"idle", "stopped", "drain", "nals"}
    BY <1>1 DEF Calls, HandleFrame, Drain, Flush, Stop, Start
  <2> QED
    BY <1>1, <2>1 DEF HasSlice, Prepared
<1>3. CASE HandleFrame \/ Start
  <2>1. phase' \in {"idle", "nals"} /\ UNCHANGED <<dpb, sets, begin>>
    BY <1>3 DEF HandleFrame, Start, picVars, streamVars
  <2>2. Done' = Done /\ (Continues' <=> Continues)
    BY <1>1, <1>2, <2>1 DEF Continues, Pending, Done
  <2> QED
    BY <1>0, <1>1, <1>2, <2>1, <2>2, RefsQuiet
<1>4. CASE Drain \/ Flush \/ Stop
  <2>1. begin' # "any" /\ phase' # "fail"
    BY <1>1, <1>4 DEF Drain, Flush, Stop, Interrupted
  <2>2. ~Continues'
    BY <1>2, <2>1 DEF Continues, Pending
  <2>3. Recorded(dpb', stream)
    <3>1. dpb' = dpb \/ dpb'.pic_list = {}
      BY <1>4, DpbClearOk, NewDpbOk DEF Drain, Flush, Stop, ClearDpb, IInv, DpbOk
    <3> QED
      BY <1>0, <3>1, ClearedRefs
  <2> QED
    BY <1>1, <1>2, <2>1, <2>2, <2>3, RefsQuiet
<1> QED
  BY <1>3, <1>4 DEF Calls

-----------------------------------------------------------------------------
(* What the stream says of the picture in progress.                        *)
LEMMA NewIs ==
  ASSUME IInv, Reading, HasSlice \/ cur.id # 0
  PROVE  /\ Len(stream) \in Nat \ {0} /\ New \in StreamPictures
         /\ Conforms(stream, Len(stream)) /\ New.keep \subseteq 1..Len(stream)
         /\ \A k \in 1..Len(stream) : stream[k] \in StreamPictures /\ stream[k].poc \in Int
         /\ phase # "nals" => Len(stream) = aus
<1>1. Places /\ aus \in Nat /\ Len(stream) \in Nat
  BY PlacesRight DEF IInv, TypeOK, StreamOk
<1>2. aus # 0
  BY <1>1 DEF Places, IInv, Current, Earlier, InUnit
<1>3. Len(stream) = aus
  BY <1>1 DEF Reading, Aligned, Places
<1>4. \A k \in 1..Len(stream) : stream[k] \in StreamPictures
  BY DEF IInv, StreamOk
<1>5. \A k \in 1..Len(stream) : stream[k].poc \in Int
  BY <1>4 DEF StreamPictures
<1>6. New.keep \subseteq 1..Len(stream) /\ Conforms(stream, Len(stream))
  BY <1>1, <1>2, <1>3 DEF New, IInv, StreamOk, Reading, StreamConforms
<1> QED
  BY <1>1, <1>2, <1>3, <1>4, <1>5, <1>6 DEF New

LEMMA BeforeNew ==
  ASSUME IInv, Reading, HasSlice \/ cur.id # 0, ~New.starts
  PROVE  /\ Len(stream) - 1 \in 1..Len(stream)
         /\ DecodedUpTo(stream, Len(stream) - 1) = DecodedBefore(stream, Len(stream))
         /\ \E d \in DecodedBefore(stream, Len(stream)) :
               LastOf(DecodedBefore(stream, Len(stream))) = {d}
<1> DEFINE N == Len(stream)
<1>1. /\ N \in Nat \ {0} /\ Numbered(stream, N) /\ New = stream[N]
      /\ \A k \in 1..N : stream[k] \in StreamPictures
  BY NewIs DEF Conforms, New
<1>2. N # 1
  BY <1>1 DEF Numbered
<1>7. N - 1 \in 1..N
  <2> HIDE DEF N
  <2> QED
    BY <1>1, <1>2
<1>3. stream[N].cvs = stream[N - 1].cvs
  <2>1. stream[N - 1] \in StreamPictures
    BY <1>1, <1>7
  <2>2. stream[N - 1].cvs \in Nat
    BY <2>1 DEF StreamPictures
  <2> QED
    BY <1>1, <1>2, <2>2 DEF Numbered
<1>4. DecodedUpTo(stream, N - 1) = DecodedBefore(stream, N)
  BY <1>3 DEF DecodedUpTo, DecodedBefore, SameBefore
<1>5. DecodedBefore(stream, N) # {} /\ DecodedBefore(stream, N) \subseteq 1..N
  BY <1>1 DEF Numbered, DecodedBefore, SameBefore
<1>6. \E d \in DecodedBefore(stream, N) : LastOf(DecodedBefore(stream, N)) = {d}
  BY <1>1, <1>5, LastOfExists
<1> QED
  BY <1>4, <1>6, <1>7

(* A RASL picture is dropped exactly when it can not be decoded.           *)
LEMMA DropsTheSkipped ==
  ASSUME IInv, Reading, Counts, phase = "begin"
  PROVE  Drops(Head(nalu)) <=> New.skip
<1> DEFINE N == Len(stream)
<1>1. HasSlice /\ One
  BY PlacesRight DEF Places, InSlice
<1>2. /\ N \in Nat \ {0} /\ Numbered(stream, N) /\ New = stream[N]
      /\ StreamOk /\ StreamConforms
  BY <1>1, NewIs DEF Conforms, New, IInv, Reading
<1>3. Head(nalu).header.type = New.type
  <2>1. NewSlice(Head(nalu))
    BY <1>1, SlicesAre DEF IInv, TypeOK, Units
  <2> QED
    BY <2>1, SliceHas
<1>4. Coming = N + 1
  BY DEF Coming, InSlice
<1>5. CASE N = 1
  <2>1. New.starts /\ ~New.skip /\ New.type \in IrapTypes
    BY <1>2, <1>5 DEF Numbered
  <2> QED
    BY <1>3, <2>1 DEF Drops, IrapTypes
<1>6. CASE N # 1
  <2>1. 1 \in IrapsBefore(stream, N) /\ IrapsBefore(stream, N) \subseteq 1..N
    <3>1. stream # <<>>
      BY <1>2
    <3>2. stream[1].type \in IrapTypes
      BY <1>2, <3>1, FirstStarts
    <3>3. 1 \in 1..(N - 1) /\ 1..(N - 1) \subseteq 1..N
      <4> HIDE DEF N
      <4> QED
        BY <1>2, <1>6
    <3> QED
      BY <3>2, <3>3 DEF IrapsBefore
  <2>2. PICK i \in IrapsBefore(stream, N) : LastOf(IrapsBefore(stream, N)) = {i}
    BY <1>2, <2>1, LastOfExists
  <2>3. New.skip <=> New.type = "RASL" /\ stream[i].starts
    BY <1>2, <2>2 DEF Numbered
  <2>4. ASSUME New.type = "RASL" PROVE irap_no_rasl = stream[i].starts
    <3>1. IrapsBefore(stream, N + 1) = IrapsBefore(stream, N)
      BY <1>2, <2>4 DEF IrapsBefore, IrapTypes
    <3> QED
      BY <1>4, <2>2, <3>1 DEF Counts, CountsKept
  <2> QED
    BY <1>3, <2>3, <2>4 DEF Drops, IrapNoRasl, IrapTypes
<1> QED
  BY <1>5, <1>6

(* The references of one sequence have order counts of their own.          *)
LEMMA RefsDistinct ==
  ASSUME IInv, Reading, HasSlice \/ cur.id # 0, Recorded(dpb, stream),
         Refs(dpb) \subseteq DecodedBefore(stream, Len(stream))
  PROVE  Distinct(dpb)
<1> SUFFICES ASSUME NEW p \in References(dpb), NEW q \in References(dpb), p.poc = q.poc
             PROVE  p = q
  BY DEF Distinct
<1> DEFINE N == Len(stream)
<1>1. /\ p \in dpb.pic_list /\ q \in dpb.pic_list /\ (p.id = q.id => p = q)
      /\ p.id \in Refs(dpb) /\ q.id \in Refs(dpb)
  BY IdsAreRefs DEF IInv, Refs, Ids
<1>2. /\ p.id \in 1..(N - 1) /\ q.id \in 1..(N - 1) /\ N \in Nat
      /\ stream[p.id].cvs = stream[N].cvs /\ stream[q.id].cvs = stream[N].cvs
      /\ stream[p.id].poc = stream[q.id].poc
  BY <1>1, NewIs DEF DecodedBefore, SameBefore, Recorded
<1>3. ASSUME NEW j \in 1..(N - 1), NEW k \in 1..(N - 1), j < k,
             stream[j].cvs = stream[k].cvs
      PROVE  stream[j].poc # stream[k].poc
  <2>1. Numbered(stream, k) /\ Ordered(stream, k) /\ j \in 1..(k - 1)
    BY <1>2, <1>3 DEF Reading, StreamConforms, Conforms
  <2>2. ~stream[k].starts
    BY <1>3, <2>1 DEF Numbered
  <2> QED
    BY <1>3, <2>1, <2>2 DEF Ordered, SameBefore
<1>4. p.id = q.id
  <2>1. p.id < q.id \/ q.id < p.id \/ p.id = q.id
    BY <1>2
  <2> QED
    BY <1>2, <1>3, <2>1
<1> QED
  BY <1>1, <1>4

-----------------------------------------------------------------------------
(* The steps that read a picture of the stream or mark references.         *)
LEMMA NextPictureIs ==
  ASSUME IInv, Reading, ParseNextPicture
  PROVE  /\ phase = "nals" /\ phase' = phase /\ ~HasSlice /\ HasSlice' /\ cur.id = 0
         /\ UNCHANGED <<cur, dpb, sets, sps, data>>
         /\ Len(stream) \in Nat /\ Len(stream') = Len(stream) + 1
         /\ \A n \in 1..Len(stream) : stream'[n] = stream[n]
         /\ ~New'.starts => begin = "any" /\ nalu = <<>>
         /\ ReferencesConform(stream, New', sps) /\ OutputConforms(stream, New', sps)
<1>17. PICK type \in Types, poc \in StreamPocs, tid0 \in Tid0s :
        LET x == Begun(stream, type, poc, tid0, begin)
        IN  /\ x.starts = (nalu # <<>>)
            /\ TypeConforms(stream, x, begin)
            /\ OrderConforms(stream, x)
            /\ \E y \in Continuations(stream, x) :
                   /\ ReferencesConform(stream, y, sps)
                   /\ OutputConforms(stream, y, sps)
                   /\ ParsePicture(y)
  BY DEF ParseNextPicture
<1> DEFINE x == Begun(stream, type, poc, tid0, begin)
<1>18. PICK y :
        /\ y \in Continuations(stream, x)
        /\ ReferencesConform(stream, y, sps)
        /\ OutputConforms(stream, y, sps)
        /\ ParsePicture(y)
  BY <1>17
<1>1. Follows(type, poc, tid0, y)
  BY <1>17, <1>18 DEF Follows
<1>2. x.starts = (nalu # <<>>) /\ x.starts = Starts([type |-> type], begin)
  BY <1>17 DEF Begun
<1> HIDE DEF x
<1>19. PICK noOutput \in BOOLEAN : ParseSlice(SliceOf(stream, y, noOutput), TRUE)
  BY <1>18 DEF ParsePicture
<1>3. stream' = Append(stream, y)
  BY <1>18 DEF ParsePicture
<1>4. /\ (y.starts <=> Starts([type |-> type], begin)) /\ (begin # "any" => y.starts)
      /\ Len(stream') = Len(stream) + 1
      /\ \A n \in 1..Len(stream) : stream'[n] = stream[n]
      /\ stream'[Len(stream')] = y
  BY <1>1, <1>3, <1>17, StreamExtended
<1>20. PICK u : u.kind = "slice" /\ nalu' = Append(nalu, u)
  BY <1>19 DEF ParseSlice, SliceUnit
<1>5. /\ phase = "nals" /\ phase' = phase /\ ~HasSlice
      /\ UNCHANGED <<cur, dpb, sets, sps, data>>
  BY <1>19 DEF ParseNextPicture, ParseSlice, picVars, spsVars
<1>6. HasSlice'
  <2>1. nalu \in Seq(Units) /\ Len(nalu) + 1 \in DOMAIN nalu' /\ nalu'[Len(nalu) + 1] = u
    BY <1>20 DEF IInv, TypeOK, Units
  <2> QED
    BY <1>20, <2>1 DEF HasSlice
<1>7. New' = y
  BY <1>4 DEF New
<1>8. cur.id = 0 /\ Len(stream) \in Nat
  BY <1>5, PlacesRight DEF Places, IInv, StreamOk
<1> QED
  BY <1>2, <1>4, <1>5, <1>6, <1>7, <1>8, <1>18

LEMMA NextPictureRefs ==
  ASSUME IInv, Reading, RefsInv, ParseNextPicture
  PROVE  RefsInv'
<1>1. /\ phase = "nals" /\ phase' = phase /\ ~HasSlice /\ HasSlice' /\ cur.id = 0
      /\ UNCHANGED <<cur, dpb, sets, sps, data>>
      /\ Len(stream) \in Nat /\ Len(stream') = Len(stream) + 1
      /\ \A n \in 1..Len(stream) : stream'[n] = stream[n]
      /\ ~New'.starts => begin = "any" /\ nalu = <<>>
      /\ ReferencesConform(stream, New', sps)
  BY NextPictureIs
<1>2. Fits'
  BY <1>1 DEF Fits, ReferencesConform
<1>3. Recorded(dpb', stream')
  <2>1. \A p \in dpb.pic_list : p.id \in 1..Len(stream)
    <3> SUFFICES ASSUME NEW p \in dpb.pic_list PROVE p.id \in 1..Len(stream)
      OBVIOUS
    <3>1. p.id \in Stored /\ p.id \in Nat /\ p.id # 0 /\ aus \in Nat
      BY DEF Stored, Ids, IInv, TypeOK, DpbOk, Named, Dpb, Picture
    <3>2. p.id <= aus /\ p.id # aus
      BY <1>1, <3>1 DEF IInv, Earlier, InUnit
    <3>3. Len(stream) = aus - 1
      BY <1>1 DEF Reading, Aligned
    <3> QED
      BY <3>1, <3>2, <3>3
  <2> QED
    BY <1>1, <2>1 DEF RefsInv, Recorded
<1>4. RefsKept'
  <2>1. ~Prepared /\ ~Prepared' /\ Done = Len(stream) /\ Done' = Len(stream)
    BY <1>1 DEF Prepared, Done, Pending
  <2>2. SUFFICES ASSUME Continues', NEW d \in LastOf(DecodedUpTo(stream', Len(stream)))
                 PROVE  Marked(d)'
    BY <2>1 DEF RefsKept
  <2>3. Continues
    BY <1>1, <2>2 DEF Continues, Pending
  <2>4. DecodedUpTo(stream', Len(stream)) = DecodedUpTo(stream, Len(stream))
    <3>1. CASE Len(stream) = 0
      BY <3>1 DEF DecodedUpTo
    <3>2. CASE Len(stream) # 0
      BY <1>1, <3>2 DEF DecodedUpTo
    <3> QED
      BY <3>1, <3>2
  <2>5. d \in LastOf(DecodedUpTo(stream, Done)) /\ stream'[d] = stream[d]
    BY <1>1, <2>1, <2>2, <2>4 DEF DecodedUpTo, LastOf
  <2>6. Marked(d)
    BY <2>1, <2>3, <2>5 DEF RefsInv, RefsKept
  <2> QED
    BY <1>1, <2>5, <2>6 DEF Marked
<1> QED
  BY <1>1, <1>2, <1>3, <1>4 DEF RefsInv

LEMMA DropRefs ==
  ASSUME IInv, Reading, Counts, RefsInv, DropPicture
  PROVE  RefsInv'
<1> DEFINE N == Len(stream)
<1>1. /\ phase = "begin" /\ phase' = "decode" /\ nalu' = Tail(nalu) /\ cur'.id = 0
      /\ UNCHANGED <<dpb, sets, stream, begin>> /\ New.skip
  BY DropsTheSkipped, NoPictureType DEF DropPicture, picVars, streamVars
<1>2. HasSlice /\ nalu' = <<>>
  BY <1>1, PlacesRight, SlicesAre DEF Places, InSlice, IInv, TypeOK, Units
<1>3. ~HasSlice'
  BY <1>2 DEF HasSlice
<1>4. N \in Nat \ {0} /\ Numbered(stream, N) /\ New = stream[N]
  BY <1>2, NewIs DEF Conforms, New
<1>5. ~New.starts
  BY <1>1, <1>4 DEF Numbered
<1>6. ~Prepared /\ ~Prepared' /\ Continues /\ Done = N - 1 /\ Done' = N
  BY <1>1, <1>2, <1>3, <1>5 DEF Prepared, Continues, Pending, Done
<1>7. DecodedUpTo(stream, N) = DecodedUpTo(stream, N - 1)
  <2>1. DecodedUpTo(stream, N - 1) = DecodedBefore(stream, N)
    BY <1>2, <1>5, BeforeNew
  <2>2. DecodedUpTo(stream, N) = DecodedBefore(stream, N)
    BY <1>1, <1>4 DEF DecodedUpTo, DecodedBefore, SameBefore
  <2> QED
    BY <2>1, <2>2
<1>8. RefsKept'
  <2>1. \A d \in LastOf(DecodedUpTo(stream, N)) : Marked(d)
    BY <1>6, <1>7 DEF RefsInv, RefsKept
  <2>2. \A d : Marked(d)' <=> Marked(d)
    BY <1>1 DEF Marked
  <2>3. DecodedUpTo(stream, Done)' = DecodedUpTo(stream, N)
    BY <1>1, <1>6
  <2> QED
    BY <1>6, <2>1, <2>2, <2>3 DEF RefsKept
<1> QED
  BY <1>1, <1>3, <1>8 DEF RefsInv, Fits

(* What preparing the reference picture set leaves of the buffer.          *)
LEMMA PreparedRefs ==
  ASSUME IInv, Reading, Counts, RefsInv, phase = "begin", ~New.skip,
         NEW unit, unit = Head(nalu),
         NEW d0, d0 = RefsReset(unit), NEW d, d = MarkRps(d0, Entries(unit), cur.poc),
         NEW refSets, refSets = RefPicSetsOf(d0, Entries(unit), cur.poc)
  PROVE  /\ Refs(d) = New.keep /\ Longs(d) = New.long /\ Recorded(d, stream) /\ DpbOk(d)
         /\ Referred(refSets) = New.keep
         /\ refSets.StCurrBefore \union refSets.StCurrAfter = New.curr \ New.long
         /\ \A k \in refSets.StCurrBefore : stream[k].poc < New.poc
         /\ refSets.LtCurr = New.curr \intersect New.long
         /\ unit.clear => New.starts
         /\ New.starts => New.keep = {} /\ New.long = {}
<1> DEFINE N == Len(stream)
<1>1. HasSlice /\ One /\ cur.id # 0 /\ cur.poc = New.poc
  <2>1. HasSlice /\ One /\ cur.id # 0
    BY PlacesRight DEF Places, InSlice, IInv, Current, Earlier, InUnit
  <2> QED
    BY <2>1 DEF Counts, CurrentCounts
<1>2. /\ N \in Nat \ {0} /\ Numbered(stream, N) /\ Refers(stream, N) /\ New = stream[N]
      /\ New.poc \in Int /\ New.msb \in BOOLEAN /\ \A k \in New.keep : stream[k].poc \in Int
  <2>1. New \in StreamPictures /\ New.keep \subseteq 1..N
    BY <1>1, NewIs
  <2>2. New.poc \in Int /\ New.msb \in BOOLEAN
    BY <2>1 DEF StreamPictures
  <2> QED
    BY <1>1, <2>1, <2>2, NewIs DEF Conforms, New
<1>3. /\ unit.header.type = New.type /\ unit.no_rasl = New.starts
      /\ unit.header.rps = EntriesOf(stream, New) /\ (unit.clear => New.starts)
  <2>1. NewSlice(unit)
    BY <1>1, SlicesAre DEF IInv, TypeOK, Units
  <2> QED
    BY <2>1, SliceHas
<1>4. New.starts => New.type \in IrapTypes /\ New.keep = {} /\ New.curr = {} /\ New.long = {}
  BY <1>2 DEF Numbered, Refers
<1>5. Entries(unit) = EntriesOf(stream, New)
  <2>1. CASE New.type = "IDR"
    <3>1. New.keep = {} /\ New.curr = {} /\ New.long = {}
      BY <1>2, <1>4, <2>1 DEF Numbered
    <3>2. EntriesOf(stream, New) = NoEntries
      BY <3>1 DEF EntriesOf, NoEntries
    <3> QED
      BY <1>3, <2>1, <3>2 DEF Entries
  <2>2. CASE New.type # "IDR"
    BY <1>3, <2>2 DEF Entries
  <2> QED
    BY <2>1, <2>2
<1>6. d0 = IF New.starts THEN MarkAllNonRef(dpb) ELSE dpb
  BY <1>3, <1>4 DEF RefsReset
<1>7. DpbOk(d0) /\ Recorded(d0, stream) /\ Distinct(d0) /\ Codes(d0, stream, New)
  <2>1. CASE New.starts
    <3>1. /\ DpbOk(d0) /\ Keeps(dpb, d0) /\ References(d0) = {}
          /\ Refs(d0) = {} /\ Longs(d0) = {}
      BY <1>6, <2>1, MarkAllNonRefOk, ResetRefs DEF IInv
    <3>2. Recorded(d0, stream)
      BY <3>1, KeepsRecorded DEF RefsInv
    <3> QED
      BY <1>2, <1>4, <2>1, <3>1, <3>2 DEF Distinct, Codes
  <2>2. CASE ~New.starts
    <3>1. PICK m \in DecodedBefore(stream, N) : LastOf(DecodedBefore(stream, N)) = {m}
      BY <1>1, <2>2, BeforeNew
    <3>2. ~Prepared /\ Continues /\ Done = N - 1
      BY <1>1, <2>2 DEF Prepared, Continues, Pending, Done
    <3>3. Marked(m)
      BY <1>1, <2>2, <3>1, <3>2, BeforeNew DEF RefsInv, RefsKept
    <3>4. d0 = dpb /\ DpbOk(dpb) /\ Recorded(dpb, stream)
      BY <1>6, <2>2 DEF IInv, RefsInv
    <3>5. Refs(dpb) \subseteq DecodedBefore(stream, N)
      <4>1. m \in 1..(N - 1) /\ stream[m].cvs = stream[N].cvs
        BY <3>1 DEF DecodedBefore, SameBefore
      <4>2. stream[m].keep \subseteq DecodedBefore(stream, m)
        BY <1>2, <4>1 DEF Reading, StreamConforms, Conforms, Refers
      <4>3. DecodedBefore(stream, m) \subseteq DecodedBefore(stream, N)
        BY <1>2, <4>1 DEF DecodedBefore, SameBefore
      <4> QED
        BY <3>1, <3>3, <4>2, <4>3 DEF Marked
    <3>6. Distinct(dpb)
      BY <1>1, <3>4, <3>5, RefsDistinct
    <3>7. Codes(dpb, stream, New)
      <4>1. /\ New.keep \subseteq Refs(dpb) /\ New.curr \subseteq New.keep
            /\ New.long \subseteq New.keep
            /\ Longs(dpb) \intersect New.keep \subseteq New.long
        BY <1>2, <3>1, <3>3 DEF Refers, Marked
      <4>2. ASSUME ~New.msb, NEW k \in New.long, NEW p \in References(dpb),
                   stream[k].poc % MaxLsb = p.lsb
            PROVE  p.id = k
        <5>1. p \in dpb.pic_list /\ p.id \in Refs(dpb)
          BY DEF References, Refs, Ids
        <5>2. p.lsb = stream[p.id].poc % MaxLsb
          BY <3>4, <5>1 DEF Recorded
        <5>3. p.id \in stream[m].keep \union {m}
          BY <3>3, <5>1 DEF Marked
        <5> QED
          BY <1>2, <3>1, <4>2, <5>2, <5>3 DEF Refers
      <4> QED
        BY <1>2, <4>1, <4>2 DEF Codes
    <3> QED
      BY <3>4, <3>6, <3>7
  <2> QED
    BY <2>1, <2>2
<1>8. Refs(d) = New.keep /\ Longs(d) = New.long /\ Keeps(d0, d)
  BY <1>1, <1>2, <1>5, <1>7, MarkRpsRight
<1>9. /\ refSets.StCurrBefore = {k \in New.curr \ New.long : stream[k].poc < New.poc}
      /\ refSets.StCurrAfter = {k \in New.curr \ New.long : stream[k].poc >= New.poc}
      /\ refSets.LtCurr = New.curr \intersect New.long
      /\ Referred(refSets) = New.keep
  BY <1>1, <1>2, <1>5, <1>7, SetsRight
<1>10. refSets.StCurrBefore \union refSets.StCurrAfter = New.curr \ New.long
  <2>1. \A k \in New.curr : stream[k].poc < New.poc \/ stream[k].poc >= New.poc
    BY <1>2 DEF Refers
  <2> QED
    BY <1>9, <2>1
<1>11. DpbOk(d) /\ Recorded(d, stream)
  BY <1>7, <1>8, MarkRpsOk, KeepsRecorded
<1> QED
  BY <1>3, <1>4, <1>8, <1>9, <1>10, <1>11

-----------------------------------------------------------------------------
(* Once the sets of the new picture are marked the buffer holds the        *)
(* references the stream announced for it.                                 *)
LEMMA PrepareRefs ==
  ASSUME IInv, Reading, Counts, RefsInv, PreparePicture
  PROVE  RefsInv'
<1> DEFINE unit == Head(nalu)
           d0 == RefsReset(unit)
           d == MarkRps(d0, Entries(unit), cur.poc)
           refSets == RefPicSetsOf(d0, Entries(unit), cur.poc)
<1>1. /\ phase = "begin" /\ phase' \in {"clear", "room", "start"} /\ ~Drops(Head(nalu))
      /\ sets' = refSets /\ UNCHANGED <<nalu, cur, data, stream, sps>>
      /\ dpb' = (IF unit.clear /\ unit.no_output THEN DpbClear(d) ELSE DeleteUnused(d))
  BY DEF PreparePicture, spsVars, streamVars
<1>2. ~New.skip
  BY <1>1, DropsTheSkipped
<1>3. /\ Refs(d) = New.keep /\ Longs(d) = New.long /\ Recorded(d, stream) /\ DpbOk(d)
      /\ Referred(refSets) = New.keep
      /\ refSets.StCurrBefore \union refSets.StCurrAfter = New.curr \ New.long
      /\ \A k \in refSets.StCurrBefore : stream[k].poc < New.poc
      /\ refSets.LtCurr = New.curr \intersect New.long
      /\ unit.clear => New.starts
      /\ New.starts => New.keep = {} /\ New.long = {}
  BY <1>1, <1>2, PreparedRefs
<1> HIDE DEF d, refSets, d0
<1>4. Refs(dpb') = New.keep /\ Longs(dpb') = New.long /\ Recorded(dpb', stream)
  <2>1. CASE unit.clear /\ unit.no_output
    <3>1. dpb'.pic_list = {}
      BY <1>1, <1>3, <2>1, DpbClearOk DEF DpbOk
    <3> QED
      BY <1>3, <2>1, <3>1, ClearedRefs
  <2>2. CASE ~(unit.clear /\ unit.no_output)
    <3>1. dpb' = DeleteUnused(d)
      BY <1>1, <2>2
    <3>2. Keeps(d, dpb') /\ Refs(dpb') = Refs(d) /\ Longs(dpb') = Longs(d)
      BY <1>3, <3>1, DeleteRefs
    <3> QED
      BY <1>3, <3>2, KeepsRecorded
  <2> QED
    BY <2>1, <2>2
<1>5. New' = New /\ (HasSlice' <=> HasSlice) /\ Prepared'
  BY <1>1, Standing DEF Prepared
<1>6. SetsAre(New)'
  BY <1>1, <1>3, <1>5 DEF SetsAre
<1>7. RefsKept'
  BY <1>2, <1>4, <1>5, <1>6 DEF RefsKept
<1>8. Fits'
  BY <1>1, <1>5 DEF RefsInv, Fits
<1> QED
  BY <1>1, <1>4, <1>7, <1>8 DEF RefsInv

LEMMA RefsCounted ==
  ASSUME NEW d, DpbOk(d)
  PROVE  /\ IsFiniteSet(References(d)) /\ IsFiniteSet(Refs(d))
         /\ Cardinality(References(d)) = Cardinality(Refs(d))
<1> DEFINE f == [p \in References(d) |-> p.id]
<1>1. IsFiniteSet(References(d)) /\ References(d) \subseteq d.pic_list
  <2>1. References(d) \subseteq d.pic_list /\ IsFiniteSet(d.pic_list)
    BY DEF References, DpbOk, Placed
  <2> QED
    BY <2>1, FS_Subset
<1>2. f \in Bijection(References(d), Refs(d))
  <2>1. f \in [References(d) -> Refs(d)]
    BY DEF Refs, Ids
  <2>2. \A k \in Refs(d) : \E p \in References(d) : f[p] = k
    BY DEF Refs, Ids
  <2>3. \A p, q \in References(d) : f[p] = f[q] => p = q
    BY <1>1 DEF DpbOk, Named
  <2> HIDE DEF f
  <2> QED
    BY <2>1, <2>2, <2>3 DEF Bijection, Injection, Surjection, IsInjective
<1> QED
  BY <1>1, <1>2, FS_Bijection DEF ExistsBijection

(* No SPS asks for more pictures than StartPicture can refer to, which is   *)
(* also the most the levels of H.265 allow.                                *)
SmallBuffers == \A s \in SpsSet : s.buffering <= 16

(* The place of a reference in the array is found by its order count.      *)
LEMMA RefPicsRight ==
  ASSUME IInv, Distinct(dpb), NEW S \in SUBSET Refs(dpb)
  PROVE  RefPicsOf(S) = S
<1>1. ASSUME NEW p \in dpb.pic_list, p.id \in S PROVE RefPic(p) = {p.id}
  <2>1. p \in References(dpb) /\ p.order \in Nat
    BY <1>1, IdsAreRefs DEF IInv
  <2>2. {q \in References(dpb) : q.poc = p.poc} = {p}
    BY <2>1 DEF Distinct
  <2>3. First({q \in References(dpb) : q.poc = p.poc}) = {p}
    BY <2>1, <2>2, FirstOne
  <2>4. Ids({p}) = {p.id}
    BY DEF Ids
  <2> QED
    BY <2>3, <2>4 DEF RefPic
<1>2. \A k \in S : \E p \in dpb.pic_list : p.id = k
  BY IdsAreRefs DEF IInv
<1>3. RefPicsOf(S) \subseteq S
  BY <1>1 DEF RefPicsOf
<1>4. S \subseteq RefPicsOf(S)
  BY <1>1, <1>2 DEF RefPicsOf
<1> QED
  BY <1>3, <1>4

LEMMA StartRefs ==
  ASSUME SmallBuffers, IInv, Reading, RefsInv, StartPicture
  PROVE  RefsInv'
<1>1. /\ phase = "start" /\ HasSlice /\ One /\ cur.id # 0 /\ Prepared
      /\ UNCHANGED <<cur, dpb, sets, stream, sps>>
  BY PlacesRight
     DEF StartPicture, picVars, spsVars, streamVars, Places, InSlice, IInv, Current, Earlier, InUnit,
         Prepared
<1>2. /\ ~New.skip /\ Refs(dpb) = New.keep /\ Longs(dpb) = New.long /\ SetsAre(New)
      /\ Recorded(dpb, stream) /\ Cardinality(New.keep) < sps.buffering
  BY <1>1 DEF RefsInv, RefsKept, Fits
<1>3. Refers(stream, Len(stream)) /\ New = stream[Len(stream)]
  BY <1>1, NewIs DEF Conforms, New
<1>4. Distinct(dpb)
  BY <1>1, <1>2, <1>3, RefsDistinct DEF Refers
<1>5. ~(Cardinality(References(dpb)) > 16)
  <2>1. Cardinality(References(dpb)) = Cardinality(New.keep) /\ Cardinality(New.keep) \in Nat
    BY <1>2, RefsCounted, FS_CardinalityType DEF IInv
  <2>2. sps.buffering \in Nat /\ sps.buffering <= 16
    <3>1. CASE sps = NoSps
      BY <3>1 DEF NoSps
    <3>2. CASE sps \in SpsSet
      BY <3>2, ConstantsAssumption DEF SmallBuffers
    <3> QED
      BY <3>1, <3>2 DEF IInv, TypeOK
  <2> QED
    BY <1>2, <2>1, <2>2
<1>6. /\ phase' = "decode" /\ nalu' = Tail(nalu)
      /\ data'.RefPics = Refs(dpb)
      /\ data'.StCurrBefore = RefPicsOf(sets.StCurrBefore)
      /\ data'.StCurrAfter = RefPicsOf(sets.StCurrAfter)
      /\ data'.LtCurr = RefPicsOf(sets.LtCurr)
      /\ data'.Long = Longs(dpb)
  BY <1>5 DEF StartPicture, Refs, Longs
<1>7. New' = New /\ Prepared'
  BY <1>1, <1>6 DEF New, Prepared
<1>8. DataAre(New)'
  <2>1. /\ sets.StCurrBefore \in SUBSET Refs(dpb) /\ sets.StCurrAfter \in SUBSET Refs(dpb)
        /\ sets.LtCurr \in SUBSET Refs(dpb)
    BY <1>2 DEF SetsAre, Referred
  <2>2. /\ data'.StCurrBefore = sets.StCurrBefore /\ data'.StCurrAfter = sets.StCurrAfter
        /\ data'.LtCurr = sets.LtCurr
    BY <1>4, <1>6, <2>1, RefPicsRight
  <2> QED
    BY <1>1, <1>2, <1>6, <1>7, <2>2 DEF DataAre, SetsAre
<1>9. RefsKept'
  BY <1>1, <1>2, <1>7 DEF RefsKept, SetsAre
<1>10. Fits'
  BY <1>1, <1>7 DEF RefsInv, Fits
<1> QED
  BY <1>1, <1>2, <1>6, <1>8, <1>9, <1>10 DEF RefsInv

LEMMA FinishRefs ==
  ASSUME IInv, Reading, Counts, RefsInv, FinishPicture
  PROVE  RefsInv'
<1> DEFINE N == Len(stream)
           d == DeleteUnused(dpb)
<1>1. /\ phase = "decode" /\ nalu = <<>> /\ cur.id # 0 /\ Prepared
      /\ phase' = "bump" /\ nalu' = <<>> /\ cur'.id = 0 /\ dpb' = DpbAdd(d, cur)
      /\ UNCHANGED <<sets, stream, sps, begin>>
  BY NoPictureType DEF FinishPicture, picVars, spsVars, streamVars, Prepared
<1>2. /\ ~New.skip /\ Refs(dpb) = New.keep /\ Longs(dpb) = New.long /\ SetsAre(New)
      /\ Recorded(dpb, stream)
  BY <1>1 DEF RefsInv, RefsKept
<1>3. /\ N \in Nat \ {0} /\ New = stream[N] /\ cur.id = N /\ Refers(stream, N)
      /\ cur.poc = New.poc /\ cur.lsb = New.poc % MaxLsb /\ cur.output_flag = New.out
      /\ cur \in Picture
  <2>1. N \in Nat \ {0} /\ New = stream[N] /\ N = aus /\ Refers(stream, N)
    BY <1>1, NewIs DEF New, Conforms
  <2> QED
    BY <1>1, <2>1 DEF Counts, CurrentCounts, IInv, Current, TypeOK
<1>4. DpbOk(d) /\ Keeps(dpb, d) /\ Refs(d) = New.keep /\ Longs(d) = New.long
  BY <1>2, DeleteUnusedOk, DeleteRefs DEF IInv
<1> HIDE DEF d
<1>5. N \notin Refs(d)
  BY <1>3, <1>4 DEF Refers, DecodedBefore, SameBefore
<1>6. Refs(dpb') = New.keep \union {N} /\ Longs(dpb') = New.long
  BY <1>1, <1>3, <1>4, <1>5, AddRefs
<1>7. Recorded(dpb', stream)
  <2>1. Recorded(d, stream)
    BY <1>2, <1>4, KeepsRecorded
  <2> SUFFICES ASSUME NEW q \in dpb'.pic_list
               PROVE  /\ q.poc = stream[q.id].poc /\ q.lsb = q.poc % MaxLsb
                      /\ ~stream[q.id].skip /\ (q.needed_for_output => stream[q.id].out)
    BY DEF Recorded
  <2>2. \/ \E r \in d.pic_list :
             /\ q.id = r.id /\ q.poc = r.poc /\ q.lsb = r.lsb
             /\ (q.needed_for_output => r.needed_for_output)
        \/ /\ q.id = cur.id /\ q.poc = cur.poc /\ q.lsb = cur.lsb
           /\ q.needed_for_output = cur.output_flag
    BY <1>1, <1>3, <1>4, AddRefs
  <2> QED
    BY <1>2, <1>3, <2>1, <2>2 DEF Recorded
<1>8. ~HasSlice' /\ New' = New /\ ~Prepared' /\ Done' = N
  BY <1>1 DEF HasSlice, New, Prepared, Done, Pending
<1>9. RefsKept'
  <2> SUFFICES ASSUME NEW m \in LastOf(DecodedUpTo(stream, N)) PROVE Marked(m)'
    BY <1>1, <1>8 DEF RefsKept
  <2>1. N \in DecodedUpTo(stream, N)
    BY <1>2, <1>3 DEF DecodedUpTo
  <2>2. m = N
    BY <1>3, <2>1 DEF LastOf, DecodedUpTo
  <2> QED
    BY <1>1, <1>2, <1>3, <1>6, <2>2 DEF Marked, SetsAre
<1> QED
  BY <1>1, <1>7, <1>8, <1>9 DEF RefsInv, Fits

LEMMA RefsInit == Init => RefsInv
<1> SUFFICES ASSUME Init PROVE RefsInv
  OBVIOUS
<1>1. /\ phase = "idle" /\ nalu = <<>> /\ cur.id = 0 /\ begin = "irap"
      /\ dpb.pic_list = {}
  BY NoPictureType, NewDpbOk DEF Init
<1>2. ~HasSlice /\ ~Prepared /\ ~Continues
  BY <1>1 DEF HasSlice, Prepared, Continues, Pending
<1> QED
  BY <1>1, <1>2, ClearedRefs DEF RefsInv, RefsKept, Fits

LEMMA RefsNext ==
  ASSUME Conforming, Accepting, SmallBuffers, IInv, IInv', Answered,
         Reading, Reading', Counts, RefsInv, [Next]_vars
  PROVE  RefsInv'
<1>1. CASE UNCHANGED vars
  <2>1. UNCHANGED <<phase, after, nalu, cur, data, dpb, sets, stream, sps, begin>>
    BY <1>1 DEF vars, callVars, picVars, spsVars, streamVars
  <2>2. (HasSlice' <=> HasSlice) /\ New' = New
    BY <2>1, Standing
  <2>3. (Prepared' <=> Prepared) /\ (Continues' <=> Continues) /\ Done' = Done
    BY <2>1, <2>2 DEF Prepared, Continues, Pending, Done
  <2>4. /\ Recorded(dpb', stream) /\ phase' # "fail"
        /\ phase' = "drain" /\ after' = "idle" => begin' # "any"
    BY <2>1 DEF RefsInv
  <2> QED
    BY <2>1, <2>2, <2>3, <2>4, RefsQuiet
<1>2. CASE Parsing
  BY <1>2, ParsingRefs, NextPictureRefs DEF Parsing
<1>3. CASE KeepSps \/ ChangeSps \/ NewSequence
  BY <1>3, SpsRefs
<1>4. CASE MoreSlice \/ NewPictureFails \/ NewPicture \/ InitOver \/ FailFrame
           \/ NoPictureInFrame \/ FrameDone
  BY <1>4, StepsRefs
<1>5. CASE DropPicture \/ PreparePicture \/ StartPicture \/ FinishPicture
  BY <1>5, DropRefs, PrepareRefs, StartRefs, FinishRefs
<1>6. CASE ClearTurn \/ RoomTurn \/ FinishTurn
  BY <1>6, BumpRefsInv DEF ClearTurn, RoomTurn, FinishTurn
<1>7. CASE DrainTurn
  BY <1>7, BumpRefsInv DEF DrainTurn
<1>8. CASE DrainOver
  BY <1>8, DrainOverRefs
<1>9. CASE Calls
  BY <1>9, CallsRefs
<1> QED
  BY <1>1, <1>2, <1>3, <1>4, <1>5, <1>6, <1>7, <1>8, <1>9 DEF Next, Work, Decoding, Bumping

(* What holds of the decoder on a conforming stream.                       *)
ConformingInv == IInv /\ ClientInv /\ Answered /\ Reading /\ Counts /\ RefsInv

LEMMA ConformingInvariance ==
  ASSUME Conforming, Accepting, SmallBuffers
  PROVE  Spec => []ConformingInv
<1>1. Init => Reading /\ Counts /\ Answered /\ RefsInv
  BY ReadingInit, RefsInit
<1>2. /\ IInv /\ IInv' /\ ClientInv /\ Answered /\ Reading /\ Counts /\ RefsInv /\ [Next]_vars
      => Answered' /\ Reading' /\ Counts' /\ RefsInv'
  BY AnsweredKept, ReadingNext, RefsNext
<1>3. IInv /\ ClientInv /\ Answered /\ Reading /\ Counts /\ RefsInv => ConformingInv
  BY DEF ConformingInv
<1> QED
  BY <1>1, <1>2, <1>3, Invariance, ClientInvariance, PTL DEF Spec

(* The references start_picture hands to the client are, on a conforming   *)
(* stream, the pictures the encoder referred to: prepare_rps finds every   *)
(* one of them in the DPB, by its whole order count or by its lowest bits, *)
(* takes none for another and drops none too early.                        *)
THEOREM ReferencesAsMeantCorrect ==
  ASSUME Conforming, Accepting, SmallBuffers
  PROVE  Spec => []ReferencesAsMeant
<1>1. ConformingInv => ReferencesAsMeant
  BY CurrentIsNew DEF ConformingInv, ReferencesAsMeant, RefsInv, DataAre
<1> QED
  BY <1>1, ConformingInvariance, PTL

-----------------------------------------------------------------------------
(* The pictures that reached the client: those of the stream up to the one *)
(* in progress.                                                            *)
InProgress == HasSlice \/ cur.id # 0
Reached == IF InProgress THEN Len(stream) - 1 ELSE Len(stream)
DecodedInv == submitted = {n \in 1..Reached : ~stream[n].skip}

LEMMA DecodedQuiet ==
  ASSUME DecodedInv, UNCHANGED <<submitted, stream>>, InProgress' <=> InProgress
  PROVE  DecodedInv'
BY DEF DecodedInv, Reached

LEMMA DecodedNext ==
  ASSUME Conforming, Accepting, IInv, IInv', Reading, Reading', Answered, Counts, RefsInv,
         RefsInv', DecodedInv, [Next]_vars
  PROVE  DecodedInv'
<1>0. Places /\ Places' /\ nalu \in Seq(Units)
  <2>1. IInv' /\ Reading' => Places'
    BY PlacesRight, PTL
  <2> QED
    BY <2>1, PlacesRight DEF IInv, TypeOK, Units
<1>1. ASSUME UNCHANGED <<submitted, stream, nalu, cur>> PROVE DecodedInv'
  BY <1>1, DecodedQuiet, Standing DEF InProgress
<1>2. CASE UNCHANGED vars \/ InitOver \/ ClearTurn \/ RoomTurn \/ FinishTurn \/ DrainTurn
           \/ ChangeSps \/ PreparePicture \/ HandleFrame \/ Drain \/ Flush \/ Stop \/ Start
           \/ ParseOver \/ (\E end \in Ends : ParseEnd(end))
  <2>1. ASSUME NEW drain, BumpTurn(drain) PROVE UNCHANGED <<submitted, stream, nalu, cur>>
    BY <2>1 DEF BumpTurn, streamVars
  <2>2. CASE ClearTurn \/ RoomTurn \/ FinishTurn \/ DrainTurn
    BY <1>1, <2>1, <2>2 DEF ClearTurn, RoomTurn, FinishTurn, DrainTurn
  <2>3. CASE UNCHANGED vars \/ InitOver \/ ChangeSps \/ PreparePicture
    BY <1>1, <2>3 DEF vars, callVars, clientVars, streamVars, InitOver, ChangeSps, PreparePicture
  <2>4. CASE HandleFrame \/ Drain \/ Flush \/ Stop \/ Start
             \/ ParseOver \/ (\E end \in Ends : ParseEnd(end))
    BY <1>1, <2>4 DEF HandleFrame, Drain, Flush, Stop, Start, Interrupted, ParseOver, ParseEnd,
                      callVars, clientVars, streamVars
  <2> QED
    BY <1>2, <2>2, <2>3, <2>4
<1>3. CASE ParseNextPicture
  <2>1. /\ ~HasSlice /\ HasSlice' /\ cur.id = 0 /\ cur' = cur
        /\ Len(stream) \in Nat /\ Len(stream') = Len(stream) + 1
        /\ \A n \in 1..Len(stream) : stream'[n] = stream[n]
    BY <1>3, NextPictureIs
  <2>2. submitted' = submitted
    <3>1. ASSUME NEW h, NEW first, ParseSlice(h, first) PROVE submitted' = submitted
      BY <3>1 DEF ParseSlice, clientVars
    <3> HIDE DEF ParseSlice
    <3> QED
      BY <1>3, <3>1 DEF ParseNextPicture, ParsePicture
  <2>3. Reached = Len(stream) /\ Reached' = Len(stream)
    BY <2>1 DEF Reached, InProgress
  <2> QED
    BY <2>1, <2>2, <2>3 DEF DecodedInv
<1>4. CASE \E s \in SpsSet : ParseSps(s)
  <2>1. PICK s \in SpsSet : ParseSps(s)
    BY <1>4
  <2>2. /\ nalu = <<>> /\ nalu' = Append(nalu, [kind |-> "sps", sps |-> s])
        /\ UNCHANGED <<submitted, stream, cur>>
    BY <2>1 DEF ParseSps, clientVars, streamVars
  <2>3. nalu' = <<[kind |-> "sps", sps |-> s]>>
    BY <2>2
  <2>4. ~HasSlice' /\ ~HasSlice
    BY <2>2, <2>3 DEF HasSlice
  <2> QED
    BY <2>2, <2>4, DecodedQuiet DEF InProgress
<1>5. CASE KeepSps \/ NewSequence
  <2>1. /\ UNCHANGED <<submitted, stream, cur>> /\ phase' = "decode"
        /\ nalu' = Tail(nalu) /\ ((NextIs("sps") /\ phase = "decode") \/ phase = "newseq")
    BY <1>5 DEF KeepSps, NewSequence, NextIs, clientVars, streamVars
  <2>2. Two
    <3>1. CASE NextIs("sps") /\ phase = "decode"
      <4>1. ~Empty /\ ~One
        BY <1>0, <3>1, SlicesAre DEF NextIs, Empty
      <4> QED
        BY <3>1, <4>1 DEF Reading, Shape, Empty
    <3>2. CASE phase = "newseq"
      BY <3>2 DEF Reading, Shape, InSps
    <3> QED
      BY <2>1, <3>1, <3>2
  <2>3. Len(nalu') = 1
    BY <1>0, <2>1, <2>2, SlicesAre
  <2>4. nalu' # <<>>
    BY <2>3
  <2>5. HasSlice /\ HasSlice'
    BY <1>0, <2>1, <2>2, <2>4 DEF Places
  <2> QED
    BY <2>1, <2>5, DecodedQuiet DEF InProgress
<1>6. CASE NewPicture
  <2>1. /\ UNCHANGED <<submitted, stream, nalu>> /\ phase = "decode" /\ nalu # <<>>
    BY <1>6 DEF NewPicture, NextIs, streamVars
  <2>2. HasSlice /\ HasSlice'
    BY <1>0, <2>1, Standing DEF Places
  <2> QED
    BY <2>1, <2>2, DecodedQuiet DEF InProgress
<1>7. CASE StartPicture
  <2>1. /\ UNCHANGED <<submitted, stream, cur>> /\ phase = "start"
    BY <1>7 DEF StartPicture, clientVars, streamVars
  <2>2. cur.id # 0 /\ cur'.id # 0
    BY <2>1 DEF IInv, Current, Earlier, InSlice, InUnit
  <2> QED
    BY <2>1, <2>2, DecodedQuiet DEF InProgress
<1>8. CASE DropPicture
  <2>1. /\ phase = "begin" /\ nalu' = Tail(nalu) /\ cur'.id = 0 /\ New.skip
        /\ UNCHANGED <<submitted, stream>>
    BY <1>8, DropsTheSkipped, NoPictureType DEF DropPicture, streamVars
  <2>2. HasSlice /\ nalu' = <<>>
    BY <1>0, <2>1, SlicesAre DEF Places, InSlice
  <2>3. ~HasSlice'
    BY <2>2 DEF HasSlice
  <2>4. Len(stream) \in Nat \ {0} /\ New = stream[Len(stream)]
    BY <2>2, NewIs DEF New
  <2>5. Reached = Len(stream) - 1 /\ Reached' = Len(stream)
    BY <2>1, <2>2, <2>3 DEF Reached, InProgress
  <2> QED
    BY <2>1, <2>4, <2>5 DEF DecodedInv
<1>9. CASE FinishPicture
  <2>1. /\ phase = "decode" /\ nalu = <<>> /\ nalu' = nalu /\ cur.id # 0 /\ cur'.id = 0
        /\ submitted' = submitted \union {cur.id} /\ stream' = stream
    BY <1>9, NoPictureType DEF FinishPicture, streamVars
  <2>2. /\ Len(stream) \in Nat \ {0} /\ New = stream[Len(stream)] /\ cur.id = Len(stream)
        /\ ~New.skip
    BY <2>1, NewIs, CurrentIsNew DEF New, RefsInv, RefsKept, Prepared
  <2>3. ~HasSlice'
    BY <2>1 DEF HasSlice
  <2>4. Reached = Len(stream) - 1 /\ Reached' = Len(stream)
    BY <2>1, <2>3 DEF Reached, InProgress
  <2> QED
    BY <2>1, <2>2, <2>4 DEF DecodedInv
<1>10. CASE NoPictureInFrame \/ FrameDone
  <2>1. /\ nalu = <<>> /\ nalu' = <<>> /\ cur.id = 0 /\ cur'.id = 0
        /\ UNCHANGED <<submitted, stream>>
    BY <1>0, <1>10, NoPictureType
       DEF NoPictureInFrame, FrameDone, Return, clientVars, streamVars, Places, InUnit
  <2>2. ~HasSlice /\ ~HasSlice'
    BY <2>1 DEF HasSlice
  <2> QED
    BY <2>1, <2>2, DecodedQuiet DEF InProgress
<1>11. CASE DrainOver
  <2>1. UNCHANGED <<submitted, stream>> /\ phase = "drain" /\ after \in {"idle", "newseq"}
    BY <1>11 DEF DrainOver, streamVars, IInv, TypeOK
  <2>2. CASE after = "idle"
    <3>1. /\ nalu = <<>> /\ nalu' = <<>> /\ cur.id = 0 /\ cur'.id = 0
      BY <1>0, <1>11, <2>1, <2>2, NoPictureType DEF DrainOver, Return, Places, InUnit
    <3>2. ~HasSlice /\ ~HasSlice'
      BY <3>1 DEF HasSlice
    <3> QED
      BY <2>1, <3>1, <3>2, DecodedQuiet DEF InProgress
  <2>3. CASE after = "newseq"
    BY <1>1, <1>11, <2>1, <2>3 DEF DrainOver
  <2> QED
    BY <2>1, <2>2, <2>3
<1>12. CASE MoreSlice \/ NewPictureFails \/ FailFrame \/ ParseAnySlice \/ BadSlice
  BY <1>0, <1>12 DEF MoreSlice, NewPictureFails, FailFrame, ParseAnySlice, BadSlice, NextIs,
                     Accepting, Places, RefsInv
<1> QED
  BY <1>2, <1>3, <1>4, <1>5, <1>6, <1>7, <1>8, <1>9, <1>10, <1>11, <1>12
     DEF Next, Work, Parsing, Decoding, Bumping, Calls

(* Whenever no call is in progress, the client has received for decoding   *)
(* every picture of a conforming stream but the RASL pictures whose        *)
(* references are not in it, and no other.                                 *)
THEOREM DecodedAsMeantCorrect ==
  ASSUME Conforming, Accepting, SmallBuffers
  PROVE  Spec => []DecodedAsMeant
<1>1. Init => DecodedInv
  <2> SUFFICES ASSUME Init PROVE DecodedInv
    OBVIOUS
  <2>1. nalu = <<>> /\ cur.id = 0 /\ stream = <<>> /\ submitted = {}
    BY NoPictureType DEF Init
  <2>2. Reached = 0
    BY <2>1 DEF Reached, InProgress, HasSlice
  <2> QED
    BY <2>1, <2>2 DEF DecodedInv
<1>2. ConformingInv /\ ConformingInv' /\ DecodedInv /\ [Next]_vars => DecodedInv'
  BY DecodedNext DEF ConformingInv
<1>3. ConformingInv /\ DecodedInv => DecodedAsMeant
  <2> SUFFICES ASSUME ConformingInv, DecodedInv, phase = "idle"
               PROVE  submitted = {n \in 1..Len(stream) : ~stream[n].skip}
    BY DEF DecodedAsMeant
  <2>1. nalu = <<>> /\ cur.id = 0
    BY PlacesRight DEF ConformingInv, Places, InUnit
  <2>2. Reached = Len(stream)
    BY <2>1 DEF Reached, InProgress, HasSlice
  <2> QED
    BY <2>2 DEF DecodedInv
<1> QED
  BY <1>1, <1>2, <1>3, ConformingInvariance, PTL DEF Spec

-----------------------------------------------------------------------------
(* The pictures stored, those the RefPicSets name included. Settled are    *)
(* the moments at which they are all of the sequence of the SPS in force.  *)
Settled ==
    \/ phase \in {"idle", "stopped", "bump"} \/ (phase = "drain" /\ after = "idle")
    \/ phase \in {"nals", "decode"} /\ nalu = <<>> /\ cur.id = 0
    \/ (Pending \/ phase = "room") /\ ~New.starts
Started == phase = "start" \/ (phase = "decode" /\ cur.id # 0)
SizeInv ==
    /\ Settled => Cardinality(Stored) <= sps.buffering
    /\ Started => Cardinality(Stored) < sps.buffering
    /\ Prepared => Unused(dpb) = {}
    /\ phase = "clear" => New.starts

LEMMA StoredFinite ==
  ASSUME IInv
  PROVE  /\ IsFiniteSet(Stored) /\ Cardinality(Stored) \in Nat
         /\ IsFiniteSet(dpb.pic_list) /\ Cardinality(dpb.pic_list) <= Cardinality(Stored)
         /\ Referred(sets) \subseteq Ids(dpb.pic_list) =>
              Cardinality(dpb.pic_list) = Cardinality(Stored)
         /\ Cardinality(dpb.pic_list) \in Nat
<1> DEFINE I == Ids(dpb.pic_list)
           f == [p \in dpb.pic_list |-> p.id]
<1>1. Stored \subseteq 0..aus /\ aus \in Nat
  <2>1. \A p \in dpb.pic_list : p.id \in Nat
    BY DEF IInv, DpbOk, Dpb, Picture
  <2>2. Referred(sets) \subseteq Nat
    BY DEF IInv, TypeOK, RefPicSets, Referred
  <2>3. aus \in Nat /\ \A n \in Stored : n <= aus
    BY DEF IInv, TypeOK, Earlier, ConstantsAssumption
  <2> QED
    BY <2>1, <2>2, <2>3 DEF Stored, Ids
<1>2. IsFiniteSet(Stored) /\ Cardinality(Stored) \in Nat
  <2>1. IsFiniteSet(0..aus)
    BY <1>1, FS_Interval
  <2>2. IsFiniteSet(Stored)
    BY <1>1, <2>1, FS_Subset
  <2> QED
    BY <2>2, FS_CardinalityType
<1>3. IsFiniteSet(dpb.pic_list) /\ Cardinality(dpb.pic_list) \in Nat
  BY FS_CardinalityType DEF IInv, DpbOk, Placed
<1>4. I \subseteq Stored /\ IsFiniteSet(I) /\ Cardinality(I) \in Nat
      /\ Cardinality(I) <= Cardinality(Stored)
  <2>1. I \subseteq Stored
    BY DEF Stored
  <2> HIDE DEF I
  <2> QED
    BY <1>2, <2>1, FS_Subset, FS_CardinalityType
<1>5. Cardinality(dpb.pic_list) = Cardinality(I)
  <2>1. f \in [dpb.pic_list -> I]
    BY DEF Ids
  <2>2. \A p, q \in dpb.pic_list : f[p] = f[q] => p = q
    BY DEF IInv, DpbOk, Named
  <2>3. \A i \in I : \E p \in dpb.pic_list : f[p] = i
    BY DEF Ids
  <2> HIDE DEF f, I
  <2>4. f \in Bijection(dpb.pic_list, I)
    BY <2>1, <2>2, <2>3 DEF Bijection, Injection, Surjection, IsInjective
  <2> QED
    BY <1>3, <2>4, FS_Bijection DEF ExistsBijection
<1>6. Referred(sets) \subseteq I => Stored = I
  BY DEF Stored
<1> HIDE DEF I
<1> QED
  BY <1>2, <1>3, <1>4, <1>5, <1>6 DEF I

LEMMA SpsBuffering ==
  ASSUME IInv
  PROVE  sps.buffering \in Nat
BY ConstantsAssumption DEF IInv, TypeOK, NoSps

(* Nothing is stored, and the moment is none the limits begin to hold at.  *)
LEMMA SizeQuiet ==
  ASSUME IInv, IInv', SizeInv, Stored' \subseteq Stored,
         Settled' => Settled /\ sps' = sps,
         Started' => Started /\ sps' = sps,
         Prepared' => Unused(dpb') = {},
         phase' = "clear" => New'.starts
  PROVE  SizeInv'
<1>1. Cardinality(Stored') <= Cardinality(Stored) /\ Cardinality(Stored') \in Nat
  BY StoredFinite, FS_Subset, FS_CardinalityType
<1>2. Cardinality(Stored) \in Nat /\ sps.buffering \in Nat
  BY StoredFinite, SpsBuffering
<1>3. Settled' => Cardinality(Stored') <= sps'.buffering
  BY <1>1, <1>2 DEF SizeInv
<1>4. Started' => Cardinality(Stored') < sps'.buffering
  BY <1>1, <1>2 DEF SizeInv
<1> QED
  BY <1>3, <1>4 DEF SizeInv

LEMMA BumpUnused ==
  ASSUME NEW d, DpbOk(d), NEW p \in NeededForOutput(d), Unused(d) = {},
         NEW d2, d2 = Bump(d, p, FALSE)
  PROVE  Unused(d2) = {}
<1>1. \A q \in d.pic_list : q \in Picture /\ (q.needed_for_output \/ q.ref)
  BY DEF DpbOk, Dpb, Unused
<1>2. p \in d.pic_list
  BY DEF NeededForOutput
<1>3. CASE p.ref
  <2>1. d2.pic_list = (d.pic_list \ {p}) \union {[p EXCEPT !.needed_for_output = FALSE]}
    BY <1>3 DEF Bump, Leaves, DpbOk, Dpb
  <2> QED
    BY <1>1, <1>2, <1>3, <2>1 DEF Unused, Picture
<1>4. CASE ~p.ref
  <2>1. d2.pic_list = RemoveFast(d.pic_list, p)
    BY <1>4 DEF Bump, Leaves, DpbOk, Dpb
  <2> QED
    BY <1>1, <2>1 DEF Unused, Picture, RemoveFast
<1> QED
  BY <1>3, <1>4

LEMMA BumpSize ==
  ASSUME IInv, IInv', Reading, RefsInv, SizeInv, NEW drain \in BOOLEAN, BumpTurn(drain),
         drain => phase = "drain"
  PROVE  SizeInv'
<1> PICK low \in NeededForOutput(dpb) : dpb' = Bump(dpb, low, drain)
  BY DEF BumpTurn
<1>1. UNCHANGED <<phase, after, nalu, cur, data, sets, stream, begin, sps>>
  BY DEF BumpTurn, picVars, spsVars, streamVars
<1>2. Ids(dpb'.pic_list) \subseteq Ids(dpb.pic_list)
  <2>1. Ids(Bump(dpb, low, drain).pic_list) =
          IF Leaves(low, drain) THEN Ids(dpb.pic_list) \ {low.id} ELSE Ids(dpb.pic_list)
    BY BumpOk DEF IInv
  <2> QED
    BY <2>1
<1>3. Stored' \subseteq Stored
  BY <1>1, <1>2 DEF Stored
<1>4. /\ (HasSlice' <=> HasSlice) /\ New' = New
  BY <1>1, Standing
<1>5. /\ Settled' => Settled
      /\ Started' => Started
      /\ Prepared' => Prepared
  BY <1>1, <1>4 DEF Settled, Started, Prepared, Pending
<1>6. drain => ~Prepared
  BY DEF Prepared
<1>7. Prepared' => Unused(dpb') = {}
  BY <1>5, <1>6, BumpUnused DEF SizeInv, IInv
<1>8. phase' = "clear" => New'.starts
  BY <1>1, <1>4 DEF SizeInv
<1> QED
  BY <1>1, <1>3, <1>5, <1>7, <1>8, SizeQuiet

LEMMA ParsingSize ==
  ASSUME Conforming, IInv, IInv', Reading, RefsInv, SizeInv, Parsing
  PROVE  SizeInv'
<1>0. Places
  BY PlacesRight
<1>1. ASSUME NEW s \in SpsSet, ParseSps(s) PROVE SizeInv'
  <2>1. /\ phase = "nals" /\ phase' = phase /\ nalu = <<>> /\ cur' = cur /\ cur.id = 0
        /\ nalu' = Append(nalu, [kind |-> "sps", sps |-> s])
        /\ UNCHANGED <<dpb, sets, stream>>
    BY <1>0, <1>1 DEF ParseSps, picVars, streamVars, Places
  <2>2. nalu' = <<[kind |-> "sps", sps |-> s]>> /\ nalu' # <<>>
    BY <2>1
  <2>3. ~HasSlice'
    BY <2>2 DEF HasSlice
  <2>4. ~Settled' /\ ~Prepared' /\ ~Started'
    BY <2>1, <2>2, <2>3 DEF Settled, Prepared, Started, Pending
  <2> QED
    BY <2>1, <2>4 DEF SizeInv
<1>2. CASE (\E end \in Ends : ParseEnd(end)) \/ ParseOver
  <2>1. /\ phase = "nals" /\ phase' \in {"nals", "decode"} /\ HasSlice /\ cur.id = 0
        /\ UNCHANGED <<nalu, cur, data, dpb, sets, stream, sps>>
    BY <1>0, <1>2 DEF ParseEnd, ParseOver, callVars, picVars, spsVars, streamVars, Places
  <2>2. HasSlice' /\ New' = New /\ nalu # <<>>
    BY <1>0, <2>1, Standing DEF Places
  <2>3. ~Prepared' /\ ~Started' /\ (Settled' => Settled)
    BY <2>1, <2>2 DEF Prepared, Started, Settled, Pending
  <2>4. Stored' = Stored
    BY <2>1 DEF Stored
  <2> QED
    BY <2>1, <2>3, <2>4, SizeQuiet
<1>3. CASE ParseNextPicture
  <2>1. /\ phase = "nals" /\ phase' = phase /\ ~HasSlice /\ HasSlice' /\ cur.id = 0
        /\ UNCHANGED <<cur, dpb, sets, sps, data>>
        /\ ~New'.starts => begin = "any" /\ nalu = <<>>
    BY <1>3, NextPictureIs
  <2>2. ~Prepared' /\ ~Started'
    BY <2>1 DEF Prepared, Started
  <2>3. nalu' # <<>>
    BY <2>1 DEF HasSlice
  <2>4. Settled' => Settled
    BY <2>1, <2>3 DEF Settled
  <2>5. Stored' = Stored
    BY <2>1 DEF Stored
  <2> QED
    BY <2>1, <2>2, <2>4, <2>5, SizeQuiet
<1> QED
  BY <1>1, <1>2, <1>3 DEF Parsing, ParseAnySlice, BadSlice

LEMMA SpsUnitsAre ==
  ASSUME IInv, Reading, KeepSps \/ ChangeSps \/ NewSequence
  PROVE  nalu \in Seq(Units) /\ Two /\ cur' = cur /\ cur.id = 0
<1>1. nalu \in Seq(Units)
  BY DEF IInv, TypeOK, Units
<1>2. ASSUME NextIs("sps") PROVE cur.id = 0 /\ Two
  <2>1. ~Empty /\ ~One
    BY <1>1, <1>2, SlicesAre DEF NextIs, Empty
  <2> QED
    BY <1>2, <2>1 DEF NextIs, Reading, Shape, Empty
<1>3. ASSUME phase = "newseq" PROVE cur.id = 0 /\ Two
  BY <1>3 DEF Reading, Shape, InSps
<1> QED
  BY <1>1, <1>2, <1>3 DEF KeepSps, ChangeSps, NewSequence

LEMMA SpsSize ==
  ASSUME IInv, IInv', Reading, Reading', RefsInv, SizeInv, KeepSps \/ ChangeSps \/ NewSequence
  PROVE  SizeInv'
<1>1. Places' /\ RefsInv'
  <2>1. IInv' /\ Reading' => Places'
    BY PlacesRight, PTL
  <2> QED
    BY <2>1, SpsRefs
<1>2. nalu \in Seq(Units) /\ Two /\ cur' = cur /\ cur.id = 0
  BY SpsUnitsAre
<1>3. /\ phase' = "decode" \/ InSps'
      /\ phase' = "drain" => after' # "idle"
      /\ phase' = "decode" => nalu' # <<>>
  <2>1. CASE KeepSps \/ NewSequence
    <3>1. phase' = "decode" /\ nalu' = Tail(nalu)
      BY <2>1 DEF KeepSps, NewSequence, NextIs
    <3>2. Len(nalu') = 1
      BY <1>2, <3>1, SlicesAre
    <3>3. nalu' # <<>>
      BY <3>2
    <3> QED
      BY <3>1, <3>3
  <2>2. CASE ChangeSps
    BY <2>2 DEF ChangeSps, InSps
  <2> QED
    BY <2>1, <2>2
<1>4. HasSlice' /\ New'.starts
  <2>1. HasSlice'
    BY <1>1, <1>2, <1>3 DEF Places
  <2>2. Two => New.starts
    BY DEF Two
  <2>3. New' = New
    BY DEF New, KeepSps, ChangeSps, NewSequence, streamVars
  <2> QED
    BY <1>2, <2>1, <2>2, <2>3
<1>5. ~Settled' /\ ~Prepared' /\ ~Started' /\ phase' # "clear"
  BY <1>2, <1>3, <1>4 DEF Settled, Prepared, Started, Pending, InSps
<1> QED
  BY <1>5 DEF SizeInv

LEMMA InitOverSize ==
  ASSUME Answered, IInv, IInv', Reading, RefsInv, SizeInv, InitOver
  PROVE  SizeInv'
<1>1. /\ phase \in {"clear", "room"} /\ phase' = "start"
      /\ UNCHANGED <<nalu, cur, dpb, sets, stream, sps>>
  BY DEF InitOver, Answered, callVars, picVars, spsVars, streamVars
<1>2. HasSlice /\ Prepared /\ Unused(dpb) = {} /\ Refs(dpb) = New.keep
      /\ Referred(sets) = New.keep
  BY <1>1, PlacesRight DEF Places, InSlice, Prepared, RefsInv, RefsKept, SetsAre, SizeInv
<1>3. Cardinality(Refs(dpb)) < sps.buffering /\ sps.buffering \in Nat
  BY <1>2, SpsBuffering DEF RefsInv, Fits
<1>4. Referred(sets) \subseteq Ids(dpb.pic_list)
  BY <1>2 DEF Refs, References, Ids
<1>5. Cardinality(dpb.pic_list) < sps.buffering
  <2>1. CASE NeededForOutput(dpb) = {}
    <3>1. dpb.pic_list = References(dpb)
      BY <1>2, <2>1 DEF Unused, NeededForOutput, References
    <3> QED
      BY <1>3, <3>1, RefsCounted DEF IInv
  <2>2. CASE phase = "room" /\ ~MakesRoom
    <3>1. Cardinality(Refs(dpb)) \in Nat
      BY RefsCounted, FS_CardinalityType DEF IInv
    <3>2. sps.buffering > 0 /\ Cardinality(dpb.pic_list) \in Nat
      BY <1>3, <3>1, StoredFinite
    <3> QED
      BY <1>3, <2>2, <3>2 DEF MakesRoom, NeedsBump
  <2> QED
    BY <2>1, <2>2 DEF InitOver
<1>6. Cardinality(Stored) < sps.buffering
  BY <1>4, <1>5, StoredFinite
<1>7. ~Settled' /\ phase' # "clear" /\ Stored' = Stored
  <2>1. ~Pending' /\ phase' \notin {"idle", "stopped", "bump", "drain", "nals", "decode", "room"}
    BY <1>1 DEF Pending
  <2> QED
    BY <1>1, <2>1 DEF Settled, Stored
<1>8. Unused(dpb') = {} /\ Cardinality(Stored') < sps'.buffering
  BY <1>1, <1>2, <1>6, <1>7
<1> QED
  BY <1>7, <1>8 DEF SizeInv

LEMMA PrepareSize ==
  ASSUME IInv, IInv', Reading, Counts, RefsInv, RefsInv', SizeInv, PreparePicture
  PROVE  SizeInv'
<1> DEFINE unit == Head(nalu)
           d == MarkRps(RefsReset(unit), Entries(unit), cur.poc)
           refSets == RefPicSetsOf(RefsReset(unit), Entries(unit), cur.poc)
<1>1. /\ phase = "begin" /\ ~Drops(Head(nalu))
      /\ sets' = refSets /\ UNCHANGED <<nalu, cur, data, stream, sps>>
      /\ phase' = (IF unit.clear /\ unit.no_output THEN "start"
                   ELSE IF unit.clear THEN "clear" ELSE "room")
      /\ dpb' = (IF unit.clear /\ unit.no_output THEN DpbClear(d) ELSE DeleteUnused(d))
  BY DEF PreparePicture, spsVars, streamVars
<1>2. HasSlice /\ New' = New /\ One /\ nalu \in Seq(Units)
  BY <1>1, PlacesRight, Standing DEF Places, InSlice, IInv, TypeOK, Units
<1>3. unit.clear => New.starts
  BY <1>2, SlicesAre, SliceHas
<1>4. /\ DpbOk(d) /\ Ids(d.pic_list) = Ids(dpb.pic_list)
      /\ Referred(refSets) \subseteq Ids(dpb.pic_list)
  BY PreparedOk DEF IInv
<1> HIDE DEF d, refSets
<1>5. Ids(dpb'.pic_list) \subseteq Ids(dpb.pic_list) /\ Unused(dpb') = {}
  <2>1. CASE unit.clear /\ unit.no_output
    <3>1. dpb'.pic_list = {}
      BY <1>1, <1>4, <2>1, DpbClearOk DEF DpbOk
    <3> QED
      BY <3>1 DEF Ids, Unused
  <2>2. CASE ~(unit.clear /\ unit.no_output)
    <3>1. dpb' = DeleteUnused(d) /\ d \in Dpb
      BY <1>1, <1>4, <2>2 DEF DpbOk
    <3>2. dpb'.pic_list = d.pic_list \ Unused(d)
      BY <3>1 DEF DeleteUnused, Dpb
    <3> QED
      BY <1>4, <3>2 DEF Ids, Unused
  <2> QED
    BY <2>1, <2>2
<1>6. Stored' \subseteq Stored
  BY <1>1, <1>4, <1>5 DEF Stored
<1>7. CASE ~(unit.clear /\ unit.no_output)
  <2>1. phase' = (IF unit.clear THEN "clear" ELSE "room")
    BY <1>1, <1>7
  <2>2. Settled' => Settled
    BY <1>1, <1>2, <2>1 DEF Settled, Pending
  <2> QED
    BY <1>1, <1>2, <1>3, <1>5, <1>6, <2>1, <2>2, SizeQuiet DEF Started
<1>8. CASE unit.clear /\ unit.no_output
  <2>1. phase' = "start" /\ dpb'.pic_list = {} /\ Prepared'
    BY <1>1, <1>4, <1>8, DpbClearOk DEF DpbOk, Prepared
  <2>2. Refs(dpb') = {} /\ Referred(sets)' = Refs(dpb')
    BY <2>1, ClearedRefs DEF RefsInv, RefsKept, SetsAre
  <2>3. Stored' = {}
    BY <2>1, <2>2 DEF Stored, Ids
  <2>4. 0 < sps'.buffering
    <3>1. Cardinality(New.keep) < sps.buffering /\ New.keep = {}
      BY <1>1, <1>2, <2>1, <2>2 DEF RefsInv, RefsKept, Fits
    <3> QED
      BY <1>1, <3>1, FS_EmptySet
  <2>5. ~Settled' /\ phase' # "clear"
    BY <2>1 DEF Settled, Pending
  <2>6. Cardinality(Stored') = 0
    BY <2>3, FS_EmptySet
  <2> QED
    BY <1>5, <2>4, <2>5, <2>6 DEF SizeInv
<1> QED
  BY <1>7, <1>8

LEMMA SlicesSize ==
  ASSUME Conforming, Accepting, Answered, IInv, IInv', Reading, Counts, RefsInv, RefsInv',
         SizeInv,
         \/ MoreSlice \/ NewPictureFails \/ NewPicture \/ DropPicture \/ StartPicture
         \/ FailFrame \/ NoPictureInFrame \/ FrameDone
  PROVE  SizeInv'
<1>0. Places
  BY PlacesRight
<1>1. CASE MoreSlice \/ NewPictureFails \/ FailFrame
  BY <1>0, <1>1 DEF MoreSlice, NewPictureFails, FailFrame, NextIs, Accepting, Places, RefsInv
<1>2. CASE NewPicture
  <2>1. /\ phase = "decode" /\ phase' = "begin" /\ nalu # <<>> /\ cur.id = 0
        /\ UNCHANGED <<nalu, dpb, sets, stream, sps, begin>>
    BY <1>2 DEF NewPicture, NextIs, spsVars, streamVars
  <2>2. HasSlice /\ HasSlice' /\ New' = New /\ Stored' = Stored
    BY <1>0, <2>1, Standing DEF Places, Stored
  <2>3. ~Prepared' /\ ~Started' /\ (Settled' => Settled)
    BY <2>1, <2>2 DEF Prepared, Started, Settled, Pending
  <2> QED
    BY <2>1, <2>2, <2>3, SizeQuiet
<1>3. CASE DropPicture
  <2>1. /\ phase = "begin" /\ phase' = "decode" /\ cur'.id = 0
        /\ UNCHANGED <<dpb, sets, stream, sps>> /\ New.skip
    BY <1>3, DropsTheSkipped, NoPictureType
       DEF DropPicture, picVars, spsVars, streamVars
  <2>2. HasSlice
    BY <1>0, <2>1 DEF Places, InSlice
  <2>3. ~New.starts
    BY <2>1, <2>2, NewIs DEF Conforms, Numbered, New
  <2>4. Settled /\ Stored' = Stored /\ ~Prepared' /\ ~Started'
    BY <2>1, <2>2, <2>3 DEF Settled, Pending, Stored, Prepared, Started
  <2> QED
    BY <2>1, <2>4, SizeQuiet
<1>4. CASE StartPicture
  <2>1. /\ phase = "start" /\ phase' = "decode" /\ cur' = cur
        /\ UNCHANGED <<dpb, sets, stream, sps>>
    BY <1>4 DEF StartPicture, picVars, spsVars, streamVars, RefsInv
  <2>2. cur.id # 0 /\ nalu' = Tail(nalu) /\ One /\ nalu \in Seq(Units)
    BY <1>0, <1>4, <2>1
       DEF StartPicture, Places, InSlice, InUnit, IInv, Current, Earlier, TypeOK, Units
  <2>3. nalu' = <<>>
    BY <2>2, SlicesAre
  <2>4. ~HasSlice'
    BY <2>3 DEF HasSlice
  <2>5. ~Settled' /\ Started /\ Prepared /\ Stored' = Stored
    BY <2>1, <2>2, <2>4 DEF Settled, Pending, Started, Prepared, Stored
  <2>6. Unused(dpb') = {}
    BY <2>1, <2>5 DEF SizeInv
  <2> QED
    BY <2>1, <2>5, <2>6, SizeQuiet
<1>5. CASE NoPictureInFrame \/ FrameDone
  <2>1. /\ phase \in {"decode", "bump"} /\ cur.id = 0 /\ nalu = <<>> /\ phase' = "idle"
        /\ UNCHANGED <<dpb, sets, stream, sps>>
    BY <1>0, <1>5
       DEF NoPictureInFrame, FrameDone, Return, picVars, spsVars, streamVars, Places, InUnit
  <2>2. Settled /\ Stored' = Stored /\ ~Prepared' /\ ~Started'
    BY <2>1 DEF Settled, Stored, Prepared, Started
  <2> QED
    BY <2>1, <2>2, SizeQuiet
<1> QED
  BY <1>1, <1>2, <1>3, <1>4, <1>5

LEMMA FinishSize ==
  ASSUME IInv, IInv', Reading, RefsInv, SizeInv, FinishPicture
  PROVE  SizeInv'
<1>1. /\ phase = "decode" /\ cur.id # 0 /\ Started /\ phase' = "bump"
      /\ dpb' = DpbAdd(DeleteUnused(dpb), cur) /\ UNCHANGED <<sets, sps>>
  BY DEF FinishPicture, picVars, spsVars, Started
<1>2. Ids(dpb'.pic_list) = Ids(DeleteUnused(dpb).pic_list) \union {cur.id}
  <2>1. DpbOk(DeleteUnused(dpb)) /\ Ids(DeleteUnused(dpb).pic_list) \subseteq Ids(dpb.pic_list)
    BY DeleteUnusedOk DEF IInv
  <2>2. cur \in Picture /\ cur.id \notin Ids(dpb.pic_list)
    BY <1>1 DEF IInv, TypeOK, Current, Earlier, InUnit, Stored
  <2> QED
    BY <1>1, <2>1, <2>2, DpbAddOk
<1>3. Stored' \subseteq Stored \union {cur.id}
  <2>1. Ids(DeleteUnused(dpb).pic_list) \subseteq Ids(dpb.pic_list)
    BY DeleteUnusedOk DEF IInv
  <2> QED
    BY <1>1, <1>2, <2>1 DEF Stored
<1>4. Cardinality(Stored') <= Cardinality(Stored) + 1 /\ Cardinality(Stored') \in Nat
  <2>1. IsFiniteSet(Stored \union {cur.id})
        /\ Cardinality(Stored \union {cur.id}) \in Nat
        /\ Cardinality(Stored \union {cur.id}) <= Cardinality(Stored) + 1
    <3>1. IsFiniteSet(Stored) /\ Cardinality(Stored) \in Nat
      BY StoredFinite
    <3>2. /\ IsFiniteSet(Stored \union {cur.id})
          /\ Cardinality(Stored \union {cur.id}) =
               (IF cur.id \in Stored THEN Cardinality(Stored) ELSE Cardinality(Stored) + 1)
      BY <3>1, FS_AddElement
    <3> QED
      BY <3>1, <3>2
  <2>2. Cardinality(Stored') <= Cardinality(Stored \union {cur.id}) /\ Cardinality(Stored') \in Nat
    BY <1>3, <2>1, FS_Subset, FS_CardinalityType
  <2> QED
    BY <2>1, <2>2, StoredFinite
<1>5. Cardinality(Stored') <= sps'.buffering
  <2>1. /\ Cardinality(Stored) < sps.buffering /\ sps.buffering \in Nat
        /\ Cardinality(Stored) \in Nat
    BY <1>1, StoredFinite, SpsBuffering DEF SizeInv
  <2> QED
    BY <1>1, <1>4, <2>1
<1>6. ~Started' /\ ~Prepared' /\ phase' # "clear"
  BY <1>1 DEF Started, Prepared
<1> QED
  BY <1>5, <1>6 DEF SizeInv

LEMMA DrainOverSize ==
  ASSUME Answered, IInv, IInv', Reading, Reading', RefsInv, SizeInv, DrainOver
  PROVE  SizeInv'
<1>0. Places'
  <2>1. IInv' /\ Reading' => Places'
    BY PlacesRight, PTL
  <2> QED
    BY <2>1
<1>1. /\ phase = "drain" /\ UNCHANGED <<sets, stream, sps>>
      /\ dpb'.pic_list = {} /\ after \in {"idle", "newseq"}
  BY DpbClearOk DEF DrainOver, IInv, TypeOK, DpbOk, picVars, spsVars, streamVars
<1>2. Stored' \subseteq Stored
  BY <1>1 DEF Stored, Ids
<1>3. CASE after = "idle"
  <2>1. phase' = "idle" /\ Settled
    BY <1>1, <1>3 DEF DrainOver, Return, Settled
  <2>2. ~Prepared' /\ ~Started'
    BY <2>1 DEF Prepared, Started
  <2> QED
    BY <1>1, <1>2, <2>1, <2>2, SizeQuiet
<1>4. CASE after = "newseq"
  <2>1. phase' = "newseq"
    BY <1>4 DEF DrainOver, Answered
  <2>2. HasSlice' /\ New'.starts
    BY <1>0, <2>1 DEF Places, InSps
  <2>3. ~Settled' /\ ~Prepared' /\ ~Started'
    BY <2>1, <2>2 DEF Settled, Prepared, Started, Pending
  <2> QED
    BY <2>1, <2>3 DEF SizeInv
<1> QED
  BY <1>1, <1>3, <1>4

LEMMA CallsSize ==
  ASSUME IInv, IInv', Reading, SizeInv, Calls
  PROVE  SizeInv'
<1>1. /\ phase \in {"idle", "stopped"} /\ Settled
      /\ phase' \in {"idle", "stopped", "drain", "nals"}
  BY DEF Calls, HandleFrame, Drain, Flush, Stop, Start, Interrupted, Settled
<1>2. ~Prepared' /\ ~Started'
  BY <1>1 DEF Prepared, Started
<1>3. CASE Stop
  <2>1. dpb' = NewDpb /\ sets' = NoRefPicSets
    BY <1>3 DEF Stop
  <2>2. Stored' = {}
    BY <2>1, NewDpbOk, NoReferences DEF Stored, Ids
  <2>3. Cardinality(Stored') = 0 /\ sps'.buffering = 0
    BY <1>3, <2>2, FS_EmptySet DEF Stop, NoSps
  <2> QED
    BY <1>1, <1>2, <2>3 DEF SizeInv
<1>4. CASE HandleFrame \/ Drain \/ Flush \/ Start
  <2>1. sets' = sets /\ sps' = sps /\ (dpb' = dpb \/ dpb'.pic_list = {})
    BY <1>4, DpbClearOk
       DEF HandleFrame, Drain, Flush, Start, picVars, spsVars, ClearDpb, IInv, DpbOk
  <2>2. Stored' \subseteq Stored
    BY <2>1 DEF Stored, Ids
  <2> QED
    BY <1>1, <1>2, <2>1, <2>2, SizeQuiet
<1> QED
  BY <1>3, <1>4 DEF Calls

LEMMA SizeInit == Init => SizeInv
<1> SUFFICES ASSUME Init PROVE SizeInv
  OBVIOUS
<1>1. Stored = {}
  BY NewDpbOk, NoReferences DEF Init, Stored, Ids
<1>2. phase = "idle" /\ sps.buffering = 0 /\ Cardinality(Stored) = 0
  BY <1>1, FS_EmptySet DEF Init, NoSps
<1> QED
  BY <1>2 DEF SizeInv, Started, Prepared

LEMMA SizeNext ==
  ASSUME Conforming, Accepting, ConformingInv, ConformingInv', SizeInv, [Next]_vars
  PROVE  SizeInv'
<1> USE DEF ConformingInv
<1>1. CASE UNCHANGED vars
  <2>1. UNCHANGED <<phase, after, nalu, cur, dpb, sets, sps, stream>>
    BY <1>1 DEF vars, callVars, picVars, spsVars, streamVars
  <2>2. (HasSlice' <=> HasSlice) /\ New' = New
    BY <2>1, Standing
  <2>3. (Settled' <=> Settled) /\ (Started' <=> Started) /\ (Prepared' <=> Prepared)
    BY <2>1, <2>2 DEF Settled, Started, Prepared, Pending
  <2>4. Stored' = Stored /\ Unused(dpb') = Unused(dpb)
    BY <2>1 DEF Stored
  <2> QED
    BY <2>1, <2>2, <2>3, <2>4 DEF SizeInv
<1>2. CASE ClearTurn \/ RoomTurn \/ FinishTurn \/ DrainTurn
  BY <1>2, BumpSize DEF ClearTurn, RoomTurn, FinishTurn, DrainTurn
<1>3. CASE KeepSps \/ ChangeSps \/ NewSequence
  BY <1>3, SpsSize
<1>4. CASE \/ MoreSlice \/ NewPictureFails \/ NewPicture \/ DropPicture \/ StartPicture
           \/ FailFrame \/ NoPictureInFrame \/ FrameDone
  BY <1>4, SlicesSize
<1>5. CASE InitOver \/ PreparePicture \/ FinishPicture \/ DrainOver
  BY <1>5, InitOverSize, PrepareSize, FinishSize, DrainOverSize
<1>6. CASE Parsing \/ Calls
  BY <1>6, ParsingSize, CallsSize
<1> QED
  BY <1>1, <1>2, <1>3, <1>4, <1>5, <1>6 DEF Next, Work, Decoding, Bumping

LEMMA SizeInvariance ==
  ASSUME Conforming, Accepting, SmallBuffers
  PROVE  Spec => [](ConformingInv /\ SizeInv)
<1>1. ConformingInv /\ ConformingInv' /\ SizeInv /\ [Next]_vars => SizeInv'
  BY SizeNext
<1> QED
  BY <1>1, SizeInit, ConformingInvariance, PTL DEF Spec

(* On a conforming stream the bumping of dpb_init, before a picture, and   *)
(* of finish_picture, after it, keep the DPB within the                    *)
(* sps_max_dec_pic_buffering of the sequence, and leave a free place for   *)
(* the picture that is decoded.                                            *)
THEOREM DpbWithinSizeCorrect ==
  ASSUME Conforming, Accepting, SmallBuffers
  PROVE  Spec => []DpbWithinSize
<1>1. ConformingInv /\ SizeInv => DpbWithinSize
  <2> SUFFICES ASSUME ConformingInv, SizeInv PROVE DpbWithinSize
    OBVIOUS
  <2>1. /\ Cardinality(dpb.pic_list) <= Cardinality(Stored)
        /\ Cardinality(dpb.pic_list) \in Nat /\ Cardinality(Stored) \in Nat
        /\ sps.buffering \in Nat
    BY StoredFinite, SpsBuffering DEF ConformingInv
  <2> QED
    BY <2>1 DEF SizeInv, Settled, Started, DpbWithinSize
<1> QED
  BY <1>1, SizeInvariance, PTL

(* The client buffers the decoder holds on a conforming stream, for the    *)
(* DPB, the reference picture sets and the picture in progress, are at     *)
(* most one more than the SPS in force asks for, but while the first       *)
(* picture of a sequence waits for the room it has been promised.          *)
THEOREM BuffersWithinSequenceCorrect ==
  ASSUME Conforming, Accepting, SmallBuffers
  PROVE  Spec => []BuffersWithinSequence
<1>1. ConformingInv /\ SizeInv => BuffersWithinSequence
  <2> SUFFICES ASSUME ConformingInv, SizeInv, cur.id # 0 \/ phase = "idle", ~Renewing
               PROVE  Cardinality(held) <= sps.buffering + 1
    BY DEF BuffersWithinSequence
  <2> USE DEF ConformingInv
  <2>1. Cardinality(Stored) \in Nat /\ IsFiniteSet(Stored) /\ sps.buffering \in Nat
    BY StoredFinite, SpsBuffering
  <2>2. held \subseteq Stored \union {cur.id}
    BY DEF ClientInv, BuffersAccounted, Stored
  <2>3. /\ IsFiniteSet(Stored \union {cur.id})
        /\ Cardinality(Stored \union {cur.id}) \in Nat
        /\ Cardinality(Stored \union {cur.id}) <= Cardinality(Stored) + 1
    BY <2>1, FS_AddElement, FS_CardinalityType
  <2>4. Cardinality(held) <= Cardinality(Stored) + 1
    <3>1. /\ Cardinality(held) \in Nat
          /\ Cardinality(held) <= Cardinality(Stored \union {cur.id})
      BY <2>2, <2>3, FS_Subset, FS_CardinalityType
    <3> QED
      BY <2>1, <2>3, <3>1
  <2>5. Settled \/ Started
    <3>1. Places
      BY PlacesRight
    <3>2. CASE phase = "idle"
      BY <3>2 DEF Settled
    <3>3. CASE cur.id # 0
      <4>1. stream[cur.id] = New
        BY <3>3, CurrentIsNew
      <4>2. phase \in {"decode", "begin", "clear", "room", "start"}
        BY <3>1, <3>3 DEF Places, Reading, Shape, InUnit, InSps, RefsInv
      <4>3. phase \in {"begin", "clear", "room"} => HasSlice /\ ~New.starts
        BY <3>1, <3>3, <4>1 DEF Renewing, Places, InSlice
      <4> QED
        BY <3>3, <4>2, <4>3 DEF Settled, Started, Pending, SizeInv
    <3> QED
      BY <3>2, <3>3
  <2>6. Cardinality(Stored) <= sps.buffering
    BY <2>1, <2>5 DEF SizeInv
  <2>7. Cardinality(held) \in Nat
    BY <2>2, <2>3, FS_Subset, FS_CardinalityType
  <2> QED
    BY <2>1, <2>4, <2>6, <2>7
<1> QED
  BY <1>1, SizeInvariance, PTL

-----------------------------------------------------------------------------
(* What the order of output needs beside a conforming stream. The SPS set  *)
(* no latency limit: gst_h265_dpb_add ages pictures that the standard does *)
(* not, and forces them out early. The buffer holds what they ask for, as  *)
(* every level guarantees. No end of bitstream comes before the end of the *)
(* stream: the IRAP picture after it does not clear the buffer.            *)
PlainSps == \A s \in SpsSet : s.latency = 0 /\ s.buffering <= s.size
PlainEnds == Ends \subseteq {"eos"}

-----------------------------------------------------------------------------
(* What the order of output rests on: the size in force, and that nothing  *)
(* waits where the buffer is not cleared for a new sequence.               *)
FullSize == (begin = "any" /\ nalu = <<>>) \/ One \/ cur.id # 0 \/ phase = "bump"
FreshInv ==
    /\ max_latency = 0
    /\ FullSize => dpb.max_num_pics = sps.size
    /\ new_bitstream => ~InProgress
    /\ new_bitstream \/ phase = "stopped" => Waiting = {}
    /\ Pending /\ New.starts /\ ~nalu[Len(nalu)].clear => Waiting = {}

LEMMA FreshQuiet ==
  ASSUME FreshInv, max_latency' = 0,
         FullSize' => FullSize /\ sps' = sps /\ dpb'.max_num_pics = dpb.max_num_pics,
         new_bitstream' => new_bitstream /\ ~InProgress',
         phase' = "stopped" => phase = "stopped",
         Waiting' \subseteq Waiting,
         Pending' /\ New'.starts =>
             /\ Pending /\ New.starts
             /\ nalu'[Len(nalu')] = nalu[Len(nalu)]
  PROVE  FreshInv'
BY DEF FreshInv

LEMMA SizesKept ==
  ASSUME NEW d, DpbOk(d)
  PROVE  /\ DpbClear(d).max_num_pics = d.max_num_pics
         /\ DeleteUnused(d).max_num_pics = d.max_num_pics
         /\ MarkAllNonRef(d).max_num_pics = d.max_num_pics
         /\ \A p, drain : Bump(d, p, drain).max_num_pics = d.max_num_pics
         /\ \A p : DpbAdd(d, p).max_num_pics = d.max_num_pics
         /\ \A rps, poc : MarkRps(d, rps, poc).max_num_pics = d.max_num_pics
<1>1. d \in [pic_list: SUBSET Picture, tail: Nat, max_num_pics: Nat, num_output_needed: Int]
  BY DEF DpbOk, Dpb
<1>2. \A S, n : [d EXCEPT !.num_output_needed = n, !.pic_list = S].max_num_pics = d.max_num_pics
  BY <1>1
<1>3. \A S : [d EXCEPT !.pic_list = S].max_num_pics = d.max_num_pics
  BY <1>1
<1>4. \A S, n, t : [d EXCEPT !.pic_list = S, !.tail = t, !.num_output_needed = n].max_num_pics
                     = d.max_num_pics
  BY <1>1
<1>5. \A p, drain : Bump(d, p, drain).max_num_pics = d.max_num_pics
  BY <1>1, <1>2 DEF Bump
<1>6. \A p : DpbAdd(d, p).max_num_pics = d.max_num_pics
  BY <1>1, <1>4 DEF DpbAdd
<1>7. \A rps, poc : MarkRps(d, rps, poc).max_num_pics = d.max_num_pics
  BY <1>3 DEF MarkRps
<1>8. DpbClear(d).max_num_pics = d.max_num_pics
  BY <1>4 DEF DpbClear
<1>9. /\ DeleteUnused(d).max_num_pics = d.max_num_pics
      /\ MarkAllNonRef(d).max_num_pics = d.max_num_pics
  BY <1>3 DEF DeleteUnused, MarkAllNonRef
<1> QED
  BY <1>5, <1>6, <1>7, <1>8, <1>9

LEMMA LatencyNone ==
  ASSUME PlainSps, max_latency = 0, NEW s \in SpsSet
  PROVE  Latency(s) = 0
BY DEF PlainSps, Latency

IrapStarts == New.starts => New.type \in IrapTypes
LEMMA StartsWithIrap == IInv /\ Reading /\ HasSlice => IrapStarts
BY NewIs DEF Conforms, Numbered, New, IrapStarts

LEMMA BumpFresh ==
  ASSUME IInv, FreshInv, NEW drain \in BOOLEAN, BumpTurn(drain)
  PROVE  FreshInv'
<1> PICK low \in NeededForOutput(dpb) : dpb' = Bump(dpb, low, drain)
  BY DEF BumpTurn
<1>1. UNCHANGED <<phase, after, nalu, cur, stream, begin, sps, max_latency, new_bitstream>>
  BY DEF BumpTurn, spsVars, streamVars, endVars
<1>2. dpb'.max_num_pics = dpb.max_num_pics /\ Waiting' \subseteq Waiting
  <2>1. Ids(NeededForOutput(Bump(dpb, low, drain))) = Ids(NeededForOutput(dpb)) \ {low.id}
    BY BumpOk DEF IInv
  <2> QED
    BY <2>1, SizesKept DEF IInv, Waiting
<1>3. (HasSlice' <=> HasSlice) /\ New' = New /\ (One' <=> One)
  BY <1>1, UnitsSame
<1>4. (InProgress' <=> InProgress) /\ (Pending' <=> Pending) /\ (FullSize' <=> FullSize)
  BY <1>1, <1>3 DEF InProgress, Pending, FullSize
<1> QED
  BY <1>1, <1>2, <1>3, <1>4, FreshQuiet DEF FreshInv

LEMMA ParsingFresh ==
  ASSUME Conforming, PlainEnds, IInv, IInv', Reading, Reading', RefsInv, FreshInv, Parsing
  PROVE  FreshInv'
<1>0. Places
  BY PlacesRight
<1>1. ASSUME NEW s \in SpsSet, ParseSps(s) PROVE FreshInv'
  <2>1. /\ phase = "nals" /\ phase' = phase /\ nalu = <<>> /\ cur' = cur /\ cur.id = 0
        /\ nalu' = Append(nalu, [kind |-> "sps", sps |-> s])
        /\ UNCHANGED <<dpb, max_latency, new_bitstream>>
    BY <1>0, <1>1 DEF ParseSps, endVars, Places
  <2>2. nalu' = <<[kind |-> "sps", sps |-> s]>> /\ nalu' # <<>>
        /\ nalu'[1].kind = "sps"
    BY <2>1
  <2>3. ~HasSlice'
    BY <2>2 DEF HasSlice
  <2>4. ~One'
    <3>1. \A u : NewSlice(u)' => u.kind = "slice"
      BY DEF NewSlice, SliceUnit
    <3> QED
      BY <2>2, <3>1 DEF One
  <2>5. ~Pending' /\ ~InProgress' /\ ~FullSize'
    BY <2>1, <2>2, <2>3, <2>4 DEF Pending, InProgress, FullSize
  <2> QED
    BY <2>1, <2>5, FreshQuiet DEF FreshInv, Waiting
<1>2. CASE (\E end \in Ends : ParseEnd(end)) \/ ParseOver
  <2>1. /\ phase = "nals" /\ phase' \in {"nals", "decode"} /\ HasSlice /\ cur.id = 0
        /\ UNCHANGED <<nalu, cur, dpb, stream, sps, max_latency, new_bitstream>>
    BY <1>0, <1>2
       DEF ParseEnd, ParseOver, callVars, spsVars, streamVars, endVars, Places, PlainEnds
  <2>2. HasSlice' /\ New' = New /\ nalu # <<>> /\ (One' <=> One)
    BY <1>0, <2>1, UnitsSame DEF Places
  <2>3. /\ Pending /\ Pending' /\ InProgress /\ InProgress' /\ (FullSize' => FullSize)
    BY <2>1, <2>2 DEF Pending, InProgress, FullSize
  <2> QED
    BY <2>1, <2>2, <2>3, FreshQuiet DEF FreshInv, Waiting
<1>3. CASE ParseNextPicture
  <2>1. /\ phase = "nals" /\ phase' = phase /\ ~HasSlice /\ HasSlice' /\ cur.id = 0
        /\ UNCHANGED <<cur, dpb, sets, sps, data>>
        /\ ~New'.starts => begin = "any" /\ nalu = <<>>
    BY <1>3, NextPictureIs
  <2>2. /\ UNCHANGED max_latency /\ ~new_bitstream'
        /\ \E u : /\ nalu' = Append(nalu, u) /\ u.kind = "slice"
                  /\ (u.clear <=> u.header.type \in IrapTypes /\ u.no_rasl /\ ~new_bitstream)
    <3>1. PICK h, first : ParseSlice(h, first)
      BY <1>3 DEF ParseNextPicture, ParsePicture
    <3> DEFINE clear == h.type \in IrapTypes /\ NoRaslOutput(h.type) /\ ~new_bitstream
               noOutput == clear /\ (h.type = "CRA" \/ h.no_output_of_prior_pics)
               u == SliceUnit(h, first, NoRaslOutput(h.type), clear, noOutput)
    <3>2. UNCHANGED max_latency /\ ~new_bitstream' /\ nalu' = Append(nalu, u)
      BY <3>1 DEF ParseSlice, spsVars
    <3>3. u.kind = "slice" /\ u.header = h /\ u.no_rasl = NoRaslOutput(h.type) /\ u.clear = clear
      BY DEF SliceUnit
    <3> QED
      BY <3>2, <3>3
  <2>3. PICK u : /\ nalu' = Append(nalu, u) /\ u.kind = "slice"
                 /\ (u.clear <=> u.header.type \in IrapTypes /\ u.no_rasl /\ ~new_bitstream)
    BY <2>2
  <2>4. nalu \in Seq(Units) /\ nalu'[Len(nalu')] = u /\ Len(nalu') = Len(nalu) + 1
        /\ nalu' # <<>>
    BY <2>3 DEF IInv, TypeOK, Units
  <2>5. One' => ~New'.starts
    BY <2>1, <2>4 DEF Reading, Shape, Empty, SetOnly, One, Two, HasSlice
  <2>6. FullSize' => FullSize
    BY <2>1, <2>4, <2>5 DEF FullSize
  <2>7. NewSlice(u)'
    <3>1. One' \/ Two'
      BY <2>1 DEF Reading, Shape, Empty, SetOnly, HasSlice
    <3>2. nalu'[Len(nalu')] = u
      BY <2>4
    <3> QED
      BY <3>1, <3>2 DEF One, Two
  <2>8. New'.starts => (u.clear <=> ~new_bitstream)
    <3>1. u.no_rasl = New'.starts /\ u.header.type = New'.type
      BY <2>7 DEF NewSlice, SliceUnit, SliceOf
    <3>2. New'.starts => New'.type \in IrapTypes
      <4>1. IInv' /\ Reading' /\ HasSlice' => IrapStarts'
        BY StartsWithIrap, PTL
      <4> QED
        BY <2>1, <4>1 DEF IrapStarts
    <3> QED
      BY <2>3, <3>1, <3>2
  <2>9. Waiting' = Waiting
    BY <2>1 DEF Waiting
  <2> QED
    BY <2>1, <2>2, <2>4, <2>6, <2>8, <2>9 DEF FreshInv
<1> QED
  BY <1>1, <1>2, <1>3 DEF Parsing, ParseAnySlice, BadSlice

LEMMA SpsFresh ==
  ASSUME PlainSps, IInv, IInv', Reading, Reading', RefsInv, FreshInv,
         KeepSps \/ ChangeSps \/ NewSequence
  PROVE  FreshInv'
<1>0. Places /\ Places'
  <2>1. IInv' /\ Reading' => Places'
    BY PlacesRight, PTL
  <2> QED
    BY <2>1, PlacesRight
<1>1. nalu \in Seq(Units) /\ Two /\ cur' = cur /\ cur.id = 0
  BY SpsUnitsAre
<1>2. /\ UNCHANGED <<stream, begin, sps, new_bitstream>> /\ New' = New /\ New.starts
      /\ phase \in {"decode", "newseq"} /\ phase' \in {"decode", "newseq", "drain"}
      /\ HasSlice /\ Head(nalu).sps = sps /\ nalu # <<>> /\ Len(nalu) = 2
  <2>1. /\ UNCHANGED <<stream, begin, sps, new_bitstream>>
        /\ phase \in {"decode", "newseq"} /\ phase' \in {"decode", "newseq", "drain"}
    BY DEF KeepSps, ChangeSps, NewSequence, NextIs, spsVars, endVars, streamVars
  <2> QED
    BY <1>1, <2>1, SlicesAre DEF New, Two
<1>3. Pending
  BY <1>2 DEF Pending
<1>5. CASE ChangeSps
  <2>1. nalu' = nalu /\ UNCHANGED max_latency
        /\ phase' # "decode" /\ (dpb' = dpb \/ dpb' = DpbClear(dpb))
    BY <1>5 DEF ChangeSps, spsVars, ClearDpb
  <2>2. Waiting' \subseteq Waiting
    BY <2>1, DpbClearOk DEF Waiting, IInv, DpbOk, Ids
  <2>3. ~FullSize'
    <3>1. phase' \in {"newseq", "drain"}
      BY <1>2, <2>1
    <3>2. nalu' # <<>> /\ ~One'
      BY <1>2, <2>1 DEF One
    <3> QED
      BY <1>1, <3>1, <3>2 DEF FullSize
  <2>4. phase' # "stopped" /\ ~new_bitstream'
    BY <1>2, <1>3 DEF FreshInv, InProgress
  <2> QED
    BY <1>2, <1>3, <2>1, <2>2, <2>3, <2>4, FreshQuiet DEF FreshInv
<1>6. CASE KeepSps \/ NewSequence
  <2>1. nalu' = Tail(nalu) /\ dpb'.pic_list = dpb.pic_list /\ max_latency' = Latency(sps)
        /\ dpb'.max_num_pics = sps.size /\ phase' = "decode"
    <3>1. CASE KeepSps
      <4>1. /\ phase = "decode" /\ phase' = phase /\ dpb' = dpb /\ nalu' = Tail(nalu)
            /\ max_latency' = Latency(Head(nalu).sps) /\ ~Changes(Head(nalu).sps)
        BY <3>1 DEF KeepSps, NextIs
      <4> QED
        BY <1>2, <4>1 DEF Changes
    <3>2. CASE NewSequence
      BY <1>2, <3>2 DEF NewSequence, IInv, DpbOk, Dpb
    <3> QED
      BY <1>6, <3>1, <3>2
  <2>2. sps \in SpsSet
    BY <1>1, <1>2, HeadType DEF IInv, TypeOK, SpsUnits, NextIs, Two
  <2>3. max_latency' = 0
    BY <2>1, <2>2, LatencyNone DEF FreshInv
  <2>4. nalu'[Len(nalu')] = nalu[Len(nalu)]
    <3>1. Len(nalu') = 1 /\ nalu'[1] = nalu[2]
      BY <1>1, <2>1, SlicesAre
    <3> QED
      BY <1>2, <3>1
  <2>5. Waiting' = Waiting
    BY <2>1 DEF Waiting, NeededForOutput
  <2>6. ~new_bitstream'
    BY <1>2 DEF FreshInv, InProgress
  <2> QED
    BY <1>2, <1>3, <2>1, <2>3, <2>4, <2>5, <2>6 DEF FreshInv
<1> QED
  BY <1>5, <1>6

LEMMA PrepareFresh ==
  ASSUME IInv, IInv', Reading, RefsInv, FreshInv, PreparePicture
  PROVE  FreshInv'
<1> DEFINE unit == Head(nalu)
           d0 == RefsReset(unit)
           d == MarkRps(d0, Entries(unit), cur.poc)
<1>1. /\ phase = "begin" /\ phase' \in {"clear", "room", "start"}
      /\ UNCHANGED <<nalu, cur, stream, sps, begin, max_latency, new_bitstream>>
      /\ dpb' = (IF unit.clear /\ unit.no_output THEN DpbClear(d) ELSE DeleteUnused(d))
  BY DEF PreparePicture, spsVars, streamVars, endVars
<1>2. /\ DpbOk(d) /\ Ids(NeededForOutput(d)) = Ids(NeededForOutput(dpb))
  BY PreparedOk DEF IInv
<1>3. d.max_num_pics = dpb.max_num_pics
  <2>1. DpbOk(d0) /\ d0.max_num_pics = dpb.max_num_pics
    BY MarkAllNonRefOk, SizesKept DEF RefsReset, IInv
  <2> HIDE DEF d0
  <2> QED
    BY <2>1, SizesKept
<1> HIDE DEF d
<1>4. dpb'.max_num_pics = dpb.max_num_pics /\ Waiting' \subseteq Waiting
  <2>1. CASE unit.clear /\ unit.no_output
    <3>1. dpb' = DpbClear(d) /\ d \in Dpb
      BY <1>1, <1>2, <2>1 DEF DpbOk
    <3>2. NeededForOutput(dpb') = {}
      BY <3>1, DpbClearOk
    <3> QED
      BY <1>2, <1>3, <3>1, <3>2, SizesKept DEF Waiting, Ids
  <2>2. CASE ~(unit.clear /\ unit.no_output)
    <3>1. dpb' = DeleteUnused(d)
      BY <1>1, <2>2
    <3>2. NeededForOutput(dpb') = NeededForOutput(d)
      BY <1>2, <3>1, DeleteUnusedOk
    <3> QED
      BY <1>2, <1>3, <3>1, <3>2, SizesKept DEF Waiting
  <2> QED
    BY <2>1, <2>2
<1>5. HasSlice /\ HasSlice' /\ One
  BY <1>1, PlacesRight, Standing DEF Places, InSlice
<1>6. FullSize /\ ~new_bitstream' /\ ~Pending' /\ phase' # "stopped"
  BY <1>1, <1>5 DEF FullSize, FreshInv, InProgress, Pending
<1> QED
  BY <1>1, <1>4, <1>6, FreshQuiet DEF FreshInv

LEMMA FinishFresh ==
  ASSUME IInv, IInv', Reading, RefsInv, FreshInv, FinishPicture
  PROVE  FreshInv'
<1>1. /\ phase = "decode" /\ nalu = <<>> /\ cur.id # 0 /\ phase' = "bump" /\ nalu' = <<>>
      /\ dpb' = DpbAdd(DeleteUnused(dpb), cur)
      /\ UNCHANGED <<sps, max_latency, new_bitstream>>
  BY DEF FinishPicture, spsVars, endVars
<1>2. dpb'.max_num_pics = dpb.max_num_pics
  <2>1. DpbOk(DeleteUnused(dpb)) /\ DeleteUnused(dpb).max_num_pics = dpb.max_num_pics
    BY DeleteUnusedOk, SizesKept DEF IInv
  <2> QED
    BY <1>1, <2>1, SizesKept
<1>3. FullSize /\ ~new_bitstream'
  BY <1>1 DEF FullSize, FreshInv, InProgress
<1>4. ~Pending'
  BY <1>1 DEF Pending, HasSlice
<1> QED
  BY <1>1, <1>2, <1>3, <1>4 DEF FreshInv

LEMMA StepsFresh ==
  ASSUME Conforming, Accepting, Answered, IInv, IInv', Reading, Reading', Counts,
         RefsInv, RefsInv', FreshInv,
         \/ MoreSlice \/ NewPictureFails \/ NewPicture \/ DropPicture \/ InitOver
         \/ StartPicture \/ FailFrame \/ NoPictureInFrame \/ FrameDone
  PROVE  FreshInv'
<1>0. Places /\ nalu \in Seq(Units)
  BY PlacesRight DEF IInv, TypeOK, Units
<1>1. CASE MoreSlice \/ NewPictureFails \/ FailFrame
  BY <1>0, <1>1 DEF MoreSlice, NewPictureFails, FailFrame, NextIs, Accepting, Places, RefsInv
<1>2. UNCHANGED <<dpb, stream, sps, begin, max_latency, new_bitstream>>
      /\ Waiting' = Waiting /\ New' = New
  <2>1. UNCHANGED <<dpb, stream, sps, begin, max_latency, new_bitstream>>
    BY DEF MoreSlice, NewPictureFails, NewPicture, DropPicture, InitOver, StartPicture,
           FailFrame, NoPictureInFrame, FrameDone, spsVars, streamVars, endVars
  <2> QED
    BY <2>1 DEF Waiting, New
<1>3. CASE NewPicture
  <2>1. /\ phase = "decode" /\ phase' = "begin" /\ nalu # <<>> /\ cur.id = 0
        /\ nalu' = nalu /\ Head(nalu).kind = "slice"
    BY <1>3 DEF NewPicture, NextIs
  <2>2. HasSlice /\ HasSlice'
    BY <1>0, <1>2, <2>1, Standing DEF Places
  <2>3. One
    <3>1. ~Two
      BY <1>0, <2>1, SlicesAre
    <3> QED
      BY <2>1, <3>1 DEF Reading, Shape, Empty
  <2>4. FullSize /\ Pending /\ Pending' /\ ~new_bitstream'
    BY <1>2, <2>1, <2>2, <2>3 DEF FullSize, Pending, FreshInv, InProgress
  <2> QED
    BY <1>2, <2>1, <2>4, FreshQuiet DEF FreshInv
<1>4. CASE DropPicture \/ StartPicture \/ InitOver
  <2>1. InSlice /\ phase' \in {"decode", "start"} /\ (nalu' = Tail(nalu) \/ phase' = "start")
    BY <1>4 DEF DropPicture, StartPicture, InitOver, Answered, InSlice, RefsInv
  <2>2. HasSlice /\ One
    BY <1>0, <2>1 DEF Places
  <2>3. FullSize /\ ~new_bitstream'
    BY <1>2, <2>2 DEF FullSize, FreshInv, InProgress
  <2>4. ~Pending'
    <3>1. CASE phase' = "start"
      BY <3>1 DEF Pending
    <3>2. CASE nalu' = Tail(nalu)
      BY <1>0, <2>2, <3>2, SlicesAre DEF Pending, HasSlice
    <3> QED
      BY <2>1, <3>1, <3>2
  <2> QED
    BY <1>2, <2>1, <2>3, <2>4, FreshQuiet DEF FreshInv
<1>5. CASE NoPictureInFrame \/ FrameDone
  <2>1. /\ phase \in {"decode", "bump"} /\ nalu = <<>> /\ phase' = "idle"
        /\ nalu' = <<>> /\ cur'.id = 0 /\ cur.id = 0
    BY <1>0, <1>5, NoPictureType
       DEF NoPictureInFrame, FrameDone, Return, Places, InUnit
  <2>2. ~Pending' /\ ~InProgress' /\ (FullSize' => FullSize)
    BY <1>2, <2>1 DEF Pending, InProgress, HasSlice, FullSize, One
  <2> QED
    BY <1>2, <2>1, <2>2, FreshQuiet DEF FreshInv
<1> QED
  BY <1>1, <1>3, <1>4, <1>5

LEMMA DrainOverFresh ==
  ASSUME Answered, IInv, IInv', Reading, Reading', RefsInv, RefsInv', FreshInv, DrainOver
  PROVE  FreshInv'
<1>0. Places
  BY PlacesRight
<1>1. /\ phase = "drain" /\ after \in {"idle", "newseq"} /\ dpb' = DpbClear(dpb)
      /\ UNCHANGED <<stream, sps, begin, max_latency, new_bitstream>>
  BY DEF DrainOver, IInv, TypeOK, spsVars, streamVars, endVars
<1>2. Waiting' = {} /\ dpb'.max_num_pics = dpb.max_num_pics /\ New' = New
  BY <1>1, DpbClearOk, SizesKept DEF Waiting, Ids, IInv, DpbOk, New
<1>3. CASE after = "idle"
  <2>1. /\ phase' = "idle" /\ nalu' = <<>> /\ cur'.id = 0 /\ begin' # "any"
    BY <1>1, <1>3, NoPictureType DEF DrainOver, Return, RefsInv
  <2>2. ~Pending' /\ ~InProgress' /\ ~FullSize'
    BY <2>1 DEF Pending, InProgress, HasSlice, FullSize, One
  <2> QED
    BY <1>1, <1>2, <2>1, <2>2, FreshQuiet DEF FreshInv
<1>4. CASE after = "newseq"
  <2>1. phase' = "newseq" /\ UNCHANGED <<nalu, cur>>
    BY <1>4 DEF DrainOver, Answered
  <2>2. HasSlice /\ HasSlice' /\ (One' <=> One)
    BY <1>0, <1>1, <1>4, <2>1, UnitsSame DEF Places, InSps
  <2>3. Pending /\ Pending' /\ InProgress /\ (FullSize' => FullSize)
    BY <1>1, <2>1, <2>2 DEF Pending, InProgress, FullSize
  <2>4. ~new_bitstream'
    BY <1>1, <2>3 DEF FreshInv
  <2> QED
    BY <1>1, <1>2, <2>1, <2>3, <2>4, FreshQuiet DEF FreshInv
<1> QED
  BY <1>1, <1>3, <1>4

LEMMA CallsFresh ==
  ASSUME Conforming, IInv, IInv', Reading, Reading', FreshInv, Calls
  PROVE  FreshInv'
<1>0. Places
  BY PlacesRight
<1>1. /\ nalu = <<>> /\ nalu' = nalu /\ cur' = cur /\ cur.id = 0
      /\ phase \in {"idle", "stopped"} /\ max_latency' = max_latency
      /\ phase' \in {"idle", "stopped", "drain", "nals"} /\ stream' = stream
  <2>1. /\ nalu' = nalu /\ cur' = cur /\ phase \in {"idle", "stopped"}
        /\ phase' \in {"idle", "stopped", "drain", "nals"} /\ stream' = stream
        /\ max_latency' = max_latency
    BY DEF Calls, HandleFrame, Drain, Flush, Stop, Start, Interrupted, callVars, spsVars,
           streamVars
  <2> QED
    BY <1>0, <2>1 DEF Places, InUnit
<1>2. ~Pending' /\ ~InProgress'
  BY <1>1 DEF Pending, InProgress, HasSlice
<1>3. CASE HandleFrame
  <2>1. /\ UNCHANGED <<dpb, sps, begin, new_bitstream>> /\ phase' = "nals"
    BY <1>3 DEF HandleFrame, spsVars, endVars, streamVars
  <2>2. FullSize' => FullSize
    BY <1>1, <2>1 DEF FullSize, One
  <2> QED
    BY <1>1, <1>2, <2>1, <2>2, FreshQuiet DEF FreshInv, Waiting
<1>4. CASE Drain \/ Flush
  <2>1. /\ UNCHANGED new_bitstream /\ phase' # "stopped" /\ phase' # "bump" /\ begin' # "any"
        /\ (dpb' = dpb \/ dpb' = DpbClear(dpb))
    BY <1>1, <1>4 DEF Drain, Flush, Interrupted, ClearDpb, endVars
  <2>2. Waiting' \subseteq Waiting
    BY <2>1, DpbClearOk DEF Waiting, Ids, IInv, DpbOk
  <2>3. ~FullSize'
    BY <1>1, <2>1 DEF FullSize, One
  <2> QED
    BY <1>1, <1>2, <2>1, <2>2, <2>3, FreshQuiet DEF FreshInv
<1>5. CASE Stop
  <2>1. dpb' = NewDpb /\ begin' # "any" /\ phase' = "stopped"
    BY <1>5 DEF Stop, Interrupted
  <2>2. Waiting' = {} /\ ~FullSize'
    BY <1>1, <2>1, NewDpbOk DEF Waiting, Ids, FullSize, One
  <2> QED
    BY <1>1, <1>2, <2>2 DEF FreshInv
<1>6. CASE Start
  <2>1. phase = "stopped" /\ phase' = "idle" /\ UNCHANGED <<dpb, begin>>
    BY <1>6 DEF Start, streamVars
  <2>2. begin # "any" /\ Waiting' = {}
    BY <2>1 DEF Reading, Beginning, FreshInv, Waiting
  <2>3. ~FullSize'
    BY <1>1, <2>1, <2>2 DEF FullSize, One
  <2> QED
    BY <1>1, <1>2, <2>2, <2>3 DEF FreshInv
<1> QED
  BY <1>3, <1>4, <1>5, <1>6 DEF Calls

LEMMA FreshInit == Init => FreshInv
<1> SUFFICES ASSUME Init PROVE FreshInv
  OBVIOUS
<1>1. Waiting = {} /\ ~InProgress /\ ~Pending
  BY NewDpbOk, NoPictureType DEF Init, Waiting, Ids, InProgress, HasSlice, Pending
<1>2. ~FullSize
  BY NoPictureType DEF Init, FullSize, One
<1> QED
  BY <1>1, <1>2 DEF Init, FreshInv

LEMMA FreshNext ==
  ASSUME Conforming, Accepting, PlainSps, PlainEnds,
         ConformingInv, ConformingInv', FreshInv, [Next]_vars
  PROVE  FreshInv'
<1> USE DEF ConformingInv
<1>1. CASE UNCHANGED vars
  <2>1. /\ UNCHANGED <<phase, after, nalu, cur, dpb, sps, stream, begin, new_bitstream>>
        /\ UNCHANGED max_latency
    BY <1>1 DEF vars, callVars, picVars, spsVars, streamVars, endVars
  <2>2. (HasSlice' <=> HasSlice) /\ New' = New /\ (One' <=> One)
    BY <2>1, UnitsSame
  <2>3. (FullSize' <=> FullSize) /\ (InProgress' <=> InProgress) /\ (Pending' <=> Pending)
        /\ Waiting' = Waiting
    BY <2>1, <2>2 DEF FullSize, InProgress, Pending, Waiting
  <2> QED
    BY <2>1, <2>2, <2>3 DEF FreshInv
<1>2. CASE ClearTurn \/ RoomTurn \/ FinishTurn \/ DrainTurn
  BY <1>2, BumpFresh DEF ClearTurn, RoomTurn, FinishTurn, DrainTurn
<1>3. CASE KeepSps \/ ChangeSps \/ NewSequence
  BY <1>3, SpsFresh
<1>4. CASE \/ MoreSlice \/ NewPictureFails \/ NewPicture \/ DropPicture \/ InitOver
           \/ StartPicture \/ FailFrame \/ NoPictureInFrame \/ FrameDone
  BY <1>4, StepsFresh
<1>5. CASE PreparePicture \/ FinishPicture \/ DrainOver
  BY <1>5, PrepareFresh, FinishFresh, DrainOverFresh
<1>6. CASE Parsing \/ Calls
  BY <1>6, ParsingFresh, CallsFresh
<1> QED
  BY <1>1, <1>2, <1>3, <1>4, <1>5, <1>6 DEF Next, Work, Decoding, Bumping

-----------------------------------------------------------------------------
(* Output order, as the stream states it. A picture has been "passed" when *)
(* the pictures that follow it in output order exceed a limit of the       *)
(* sequence: no picture that precedes it can come any more.                *)
Behind(s, m) ==
    {k \in 1..Len(s) : s[k].cvs = s[m].cvs /\ s[k].out /\ s[k].poc >= s[m].poc}
Later(s, n) ==
    {k \in 1..(n - 1) : s[k].cvs = s[n].cvs /\ s[k].out /\ s[k].poc > s[n].poc}
Holding(s, d, S) == Cardinality(s[d].keep \union S)
PassedIn(s, ps, m) ==
    \/ \E S \in SUBSET Behind(s, m) : Cardinality(S) > ps.reorder
    \/ \E d \in 1..Len(s) :
          /\ s[d].cvs = s[m].cvs /\ ~s[d].skip
          /\ \E S \in SUBSET {q \in Behind(s, m) : q < d} : Holding(s, d, S) >= ps.buffering
OutputFits(s, n, ps) ==
    s[n].out =>
        /\ Cardinality(Later(s, n)) <= ps.reorder
        /\ \A d \in DecodedUpTo(s, n) : Holding(s, d, {q \in Later(s, n) : q < d}) < ps.buffering

LEMMA PocsDiffer ==
  ASSUME NEW s, NEW n \in Nat, NEW m \in 1..(n - 1), Conforms(s, n), s[m].cvs = s[n].cvs
  PROVE  s[m].poc # s[n].poc
BY DEF Conforms, Numbered, Ordered, SameBefore

LEMMA SmallerSet ==
  ASSUME NEW n \in Nat, NEW S, NEW T, S \subseteq T, T \subseteq 1..n
  PROVE  /\ Cardinality(S) \in Nat /\ Cardinality(T) \in Nat
         /\ Cardinality(S) <= Cardinality(T)
<1>1. IsFiniteSet(1..n)
  BY FS_Interval
<1>2. IsFiniteSet(T)
  BY <1>1, FS_Subset
<1>3. IsFiniteSet(S) /\ Cardinality(S) <= Cardinality(T)
  BY <1>2, FS_Subset
<1> QED
  BY <1>2, <1>3, FS_CardinalityType

LEMMA PassedPrecedes ==
  ASSUME NEW s, Len(s) \in Nat, NEW ps, ps.reorder \in Nat, ps.buffering \in Nat,
         \A k \in 1..Len(s) : s[k].poc \in Int /\ s[k].keep \subseteq 1..Len(s),
         OutputFits(s, Len(s), ps), s[Len(s)].out,
         NEW m \in 1..(Len(s) - 1), s[m].cvs = s[Len(s)].cvs, PassedIn(s, ps, m)
  PROVE  s[m].poc <= s[Len(s)].poc
<1> DEFINE n == Len(s)
           L == Later(s, n)
<1> SUFFICES ASSUME s[m].poc > s[n].poc PROVE FALSE
  BY DEF n
<1>1. Behind(s, m) \subseteq L /\ L \subseteq 1..n
  BY DEF Behind, Later
<1>2. Cardinality(L) <= ps.reorder
  BY DEF OutputFits
<1>3. \A d \in 1..n : s[d].cvs = s[m].cvs /\ ~s[d].skip =>
         Holding(s, d, {q \in L : q < d}) < ps.buffering
  BY DEF OutputFits, DecodedUpTo
<1>4. CASE \E S \in SUBSET Behind(s, m) : Cardinality(S) > ps.reorder
  <2>1. PICK S \in SUBSET Behind(s, m) : Cardinality(S) > ps.reorder
    BY <1>4
  <2>2. Cardinality(S) <= Cardinality(L) /\ Cardinality(S) \in Nat /\ Cardinality(L) \in Nat
    BY <1>1, SmallerSet
  <2> QED
    BY <1>2, <2>1, <2>2
<1>5. CASE \E d \in 1..Len(s) :
              /\ s[d].cvs = s[m].cvs /\ ~s[d].skip
              /\ \E S \in SUBSET {q \in Behind(s, m) : q < d} : Holding(s, d, S) >= ps.buffering
  <2>0. PICK d \in 1..n :
           /\ s[d].cvs = s[m].cvs /\ ~s[d].skip
           /\ \E S \in SUBSET {q \in Behind(s, m) : q < d} : Holding(s, d, S) >= ps.buffering
    BY <1>5
  <2>1. PICK S \in SUBSET {q \in Behind(s, m) : q < d} : Holding(s, d, S) >= ps.buffering
    BY <2>0
  <2> DEFINE A == s[d].keep \union S
             B == s[d].keep \union {q \in L : q < d}
  <2>2. A \subseteq B /\ B \subseteq 1..n
    BY <1>1
  <2>3. Cardinality(A) <= Cardinality(B) /\ Cardinality(A) \in Nat /\ Cardinality(B) \in Nat
    BY <2>2, SmallerSet
  <2>4. Cardinality(A) >= ps.buffering /\ Cardinality(B) < ps.buffering
    BY <1>3, <2>0, <2>1 DEF Holding
  <2> HIDE DEF A, B
  <2> QED
    BY <2>3, <2>4
<1> QED
  BY <1>4, <1>5 DEF PassedIn

LEMMA PassedGrows ==
  ASSUME NEW s, NEW t, Len(s) \in Nat, Len(t) \in Nat, Len(s) <= Len(t),
         \A k \in 1..Len(s) : t[k] = s[k],
         NEW ps, NEW m \in 1..Len(s), PassedIn(s, ps, m)
  PROVE  PassedIn(t, ps, m)
<1>1. Behind(s, m) \subseteq Behind(t, m)
  BY DEF Behind
<1>2. \A d \in 1..Len(s) : d \in 1..Len(t) /\ t[d] = s[d]
  OBVIOUS
<1>3. \A d \in 1..Len(s) : \A S : Holding(s, d, S) = Holding(t, d, S)
  BY <1>2 DEF Holding
<1>4. CASE \E S \in SUBSET Behind(s, m) : Cardinality(S) > ps.reorder
  BY <1>1, <1>4 DEF PassedIn
<1>5. CASE \E d \in 1..Len(s) :
              /\ s[d].cvs = s[m].cvs /\ ~s[d].skip
              /\ \E S \in SUBSET {q \in Behind(s, m) : q < d} : Holding(s, d, S) >= ps.buffering
  <2>0. PICK d \in 1..Len(s) :
           /\ s[d].cvs = s[m].cvs /\ ~s[d].skip
           /\ \E S \in SUBSET {q \in Behind(s, m) : q < d} : Holding(s, d, S) >= ps.buffering
    BY <1>5
  <2>1. PICK S \in SUBSET {q \in Behind(s, m) : q < d} : Holding(s, d, S) >= ps.buffering
    BY <2>0
  <2>2. S \in SUBSET {q \in Behind(t, m) : q < d} /\ Holding(t, d, S) >= ps.buffering
    BY <1>1, <1>3, <2>1
  <2>3. d \in 1..Len(t) /\ t[d].cvs = t[m].cvs /\ ~t[d].skip
    BY <1>2, <2>0
  <2> QED
    BY <2>2, <2>3 DEF PassedIn
<1> QED
  BY <1>4, <1>5 DEF PassedIn

LEMMA NewFits ==
  ASSUME NEW s, NEW x, NEW ps, NEW S, s \in Seq(S), x \in S, OutputConforms(s, x, ps),
         NEW t, Len(t) = Len(s) + 1, \A k \in 1..Len(s) : t[k] = s[k], t[Len(t)] = x
  PROVE  OutputFits(t, Len(t), ps)
<1> DEFINE n == Len(t)
           u == Append(s, x)
<1>0. Len(s) \in Nat /\ n - 1 = Len(s) /\ Len(u) = n /\ \A k \in 1..n : u[k] = t[k]
  OBVIOUS
<1> SUFFICES ASSUME x.out PROVE OutputFits(t, n, ps)
  BY DEF OutputFits
<1>1. OutputAfter(s, x) = Later(t, n)
  BY <1>0 DEF OutputAfter, InSequence, Later
<1>2. Decodable(u, x) = DecodedUpTo(t, n)
  BY <1>0 DEF Decodable, InSequence, DecodedUpTo
<1>3. /\ Cardinality(OutputAfter(s, x)) <= ps.reorder
      /\ \A d \in Decodable(u, x) :
            Cardinality(u[d].keep \union {q \in OutputAfter(s, x) : q < d}) < ps.buffering
  BY DEF OutputConforms
<1>4. \A d \in DecodedUpTo(t, n) : u[d] = t[d]
  BY <1>0 DEF DecodedUpTo
<1> HIDE DEF u, n
<1>5. \A d \in DecodedUpTo(t, n) : 
          Cardinality(t[d].keep \union {q \in Later(t, n) : q < d}) < ps.buffering
  BY <1>1, <1>2, <1>3, <1>4
<1>6. Cardinality(Later(t, n)) <= ps.reorder
  BY <1>1, <1>3
<1> QED
  BY <1>5, <1>6 DEF OutputFits, Holding

-----------------------------------------------------------------------------
(* What has been shown precedes what waits for its output and the picture  *)
(* in progress; while the sequence goes on, it is of an earlier one or has *)
(* been passed.                                                            *)
Passed(m) == PassedIn(stream, sps, m)
Latest == IF Pending \/ phase = "clear" THEN Len(stream) - 1 ELSE Len(stream)
Continuing == begin = "any" /\ (HasSlice \/ nalu = <<>>)
ShownBefore(n) == \A m \in shown : Precedes(m, n)
OrderInv ==
    /\ \A m \in shown : m \in 1..Len(stream)
    /\ \A n \in Waiting : ShownBefore(n)
    /\ InProgress /\ New.out => ShownBefore(Len(stream))
    /\ Continuing => \A m \in shown : stream[m].cvs < New.cvs \/ Passed(m)
    /\ \A n \in Waiting : stream[n].cvs = stream[Latest].cvs
    /\ InProgress => OutputFits(stream, Len(stream), sps)
    /\ phase = "room" /\ New.starts => Waiting = {}

LEMMA WaitingPlaced ==
  ASSUME IInv, Reading, RefsInv, NEW n \in Waiting
  PROVE  /\ n \in 1..Len(stream) /\ (InProgress => n < Len(stream)) /\ stream[n].out
         /\ \E p \in NeededForOutput(dpb) : p.id = n /\ p.poc = stream[n].poc
<1>1. PICK p \in NeededForOutput(dpb) : p.id = n
  BY DEF Waiting, Ids
<1>2. p \in dpb.pic_list /\ p.needed_for_output /\ p \in Picture
  BY DEF NeededForOutput, IInv, DpbOk, Dpb
<1>3. p.poc = stream[n].poc /\ stream[n].out
  BY <1>1, <1>2 DEF RefsInv, Recorded
<1>4. n \in Stored /\ n \in Nat /\ n # 0
  BY <1>1, <1>2 DEF Stored, Ids, IInv, DpbOk, Named, Picture
<1>5. n <= aus /\ (InUnit => n # aus) /\ aus \in Nat
  BY <1>4 DEF IInv, Earlier, TypeOK, Frames
<1>6. Len(stream) = IF phase = "nals" /\ ~HasSlice THEN aus - 1 ELSE aus
  BY DEF Reading, Aligned
<1>7. Places
  BY PlacesRight
<1>8. InProgress => InUnit /\ ~(phase = "nals" /\ ~HasSlice)
  BY <1>7 DEF InProgress, Places
<1>9. phase = "nals" => InUnit
  BY DEF InUnit
<1>10. n \in 1..Len(stream) /\ (InProgress => n < Len(stream))
  BY <1>4, <1>5, <1>6, <1>8, <1>9
<1> QED
  BY <1>1, <1>3, <1>10

LEMMA PrecedesSame ==
  ASSUME NEW m, NEW n, stream'[m] = stream[m], stream'[n] = stream[n]
  PROVE  Precedes(m, n)' <=> Precedes(m, n)
BY DEF Precedes

LEMMA OrderQuiet ==
  ASSUME OrderInv, shown' = shown, stream' = stream, Waiting' \subseteq Waiting,
         Waiting' = {} \/ stream[Latest'].cvs = stream[Latest].cvs,
         Continuing' => Continuing /\ sps' = sps,
         InProgress' => InProgress /\ sps' = sps,
         phase' = "room" /\ New.starts => Waiting' = {}
  PROVE  OrderInv'
<1>1. New' = New
  BY DEF New
<1>2. \A n : ShownBefore(n)' <=> ShownBefore(n)
  BY DEF ShownBefore, Precedes
<1>3. sps' = sps => \A m : Passed(m)' <=> Passed(m)
  BY DEF Passed, PassedIn, Behind, Holding
<1>4. sps' = sps => (OutputFits(stream, Len(stream), sps)' <=> OutputFits(stream, Len(stream), sps))
  BY DEF OutputFits, Later, Holding, DecodedUpTo
<1>5. Continuing' => \A m \in shown' : stream'[m].cvs < New'.cvs \/ Passed(m)'
  BY <1>1, <1>3 DEF OrderInv
<1>6. InProgress' => OutputFits(stream, Len(stream), sps)'
  BY <1>4 DEF OrderInv
<1>7. \A n \in Waiting' : stream'[n].cvs = stream'[Latest'].cvs
  BY DEF OrderInv
<1>8. /\ \A n \in Waiting' : ShownBefore(n)'
      /\ InProgress' /\ New'.out => ShownBefore(Len(stream))'
  BY <1>1, <1>2 DEF OrderInv
<1>9. /\ \A m \in shown' : m \in 1..Len(stream')
      /\ phase' = "room" /\ New'.starts => Waiting' = {}
  BY <1>1 DEF OrderInv
<1> QED
  BY <1>5, <1>6, <1>7, <1>8, <1>9 DEF OrderInv

LEMMA NeededCounted ==
  ASSUME NEW d, DpbOk(d)
  PROVE  /\ IsFiniteSet(Ids(NeededForOutput(d)))
         /\ Cardinality(Ids(NeededForOutput(d))) = d.num_output_needed
<1> DEFINE N == NeededForOutput(d)
           f == [p \in N |-> p.id]
<1>1. IsFiniteSet(N) /\ d.num_output_needed = Cardinality(N) /\ N \subseteq d.pic_list
  BY NeededFinite DEF DpbOk, Counted, NeededForOutput
<1>2. f \in Bijection(N, Ids(N))
  <2>1. f \in [N -> Ids(N)]
    BY DEF Ids
  <2>2. \A k \in Ids(N) : \E p \in N : f[p] = k
    BY DEF Ids
  <2>3. \A p, q \in N : f[p] = f[q] => p = q
    BY <1>1 DEF DpbOk, Named
  <2> HIDE DEF f, N
  <2> QED
    BY <2>1, <2>2, <2>3 DEF Bijection, Injection, Surjection, IsInjective
<1> HIDE DEF f, N
<1>3. IsFiniteSet(Ids(N)) /\ Cardinality(Ids(N)) = Cardinality(N)
  BY <1>1, <1>2, FS_Bijection DEF ExistsBijection
<1> QED
  BY <1>1, <1>3 DEF N

LEMMA BumpPasses ==
  ASSUME PlainSps, IInv, Reading, RefsInv, SizeInv, FreshInv, OrderInv,
         (phase = "room" /\ MakesRoom) \/ (phase = "bump" /\ BumpsMore),
         NEW low \in NeededForOutput(dpb), IsLowestOutputNeeded(dpb, low)
  PROVE  Passed(low.id) /\ stream[low.id].cvs = New.cvs
<1> DEFINE m == low.id
<1>0. Places /\ DpbOk(dpb) /\ m \in Waiting
  BY PlacesRight DEF IInv, Waiting, Ids
<1>1. Latest = Len(stream) /\ \A n \in Waiting : stream[n].cvs = New.cvs
  <2>1. ~Pending /\ phase # "clear"
    BY <1>0 DEF Pending, Places, InUnit
  <2> QED
    BY <2>1 DEF Latest, OrderInv, New
<1>2. Waiting \subseteq Behind(stream, m)
  <2> SUFFICES ASSUME NEW n \in Waiting PROVE n \in Behind(stream, m)
    OBVIOUS
  <2>1. PICK p \in NeededForOutput(dpb) : p.id = n /\ p.poc = stream[n].poc
    BY WaitingPlaced
  <2>2. low.poc = stream[m].poc /\ low.poc \in Int /\ p.poc \in Int
    BY DEF RefsInv, Recorded, NeededForOutput, IInv, DpbOk, Dpb, Picture
  <2>3. low.poc <= p.poc
    BY <2>1, <2>2 DEF IsLowestOutputNeeded
  <2>4. n \in 1..Len(stream) /\ stream[n].out
    BY WaitingPlaced
  <2> QED
    BY <1>0, <1>1, <2>1, <2>2, <2>3, <2>4 DEF Behind
<1>3. /\ dpb.max_num_pics = sps.size /\ max_latency = 0 /\ sps.buffering <= sps.size
      /\ sps.buffering \in Nat /\ sps.size \in Nat
  <2>1. FullSize
    BY <1>0 DEF FullSize, Places, InSlice
  <2>2. sps \in SpsSet \union {NoSps}
    BY DEF IInv, TypeOK
  <2>3. sps.buffering <= sps.size
    BY <2>2 DEF PlainSps, NoSps
  <2> QED
    BY <2>1, <2>2, <2>3, SpsTypes, SpsBuffering DEF FreshInv, IInv, TypeOK
<1>4. ~(Cardinality(dpb.pic_list) > dpb.max_num_pics)
  <2>1. Settled
    BY <1>0 DEF Settled, OrderInv
  <2>2. Cardinality(Stored) <= sps.buffering
    BY <2>1 DEF SizeInv
  <2> QED
    BY <1>3, <2>2, StoredFinite
<1>5. CASE dpb.num_output_needed > sps.reorder
  <2>1. Cardinality(Waiting) > sps.reorder
    BY <1>0, <1>5, NeededCounted DEF Waiting
  <2>2. Passed(m)
    BY <1>2, <2>1 DEF Passed, PassedIn
  <2> QED
    BY <1>0, <1>1, <2>2
<1>6. CASE phase = "room" /\ Cardinality(dpb.pic_list) >= sps.buffering
  <2>1. ~New.skip /\ Refs(dpb) = New.keep /\ Referred(sets) = New.keep /\ Unused(dpb) = {}
    BY <1>6 DEF Prepared, RefsInv, RefsKept, SetsAre, SizeInv
  <2>2. Ids(dpb.pic_list) = New.keep \union Waiting
    BY <2>1 DEF Unused, Refs, References, Waiting, NeededForOutput, Ids
  <2>3. Stored = New.keep \union Waiting /\ Cardinality(dpb.pic_list) = Cardinality(Stored)
    BY <2>1, <2>2, StoredFinite DEF Stored
  <2>4. InProgress
    BY <1>0, <1>6 DEF InProgress, Places, InSlice
  <2>5. Waiting \in SUBSET {q \in Behind(stream, m) : q < Len(stream)}
    BY <1>2, <2>4, WaitingPlaced
  <2>6. Len(stream) \in 1..Len(stream) /\ stream[Len(stream)] = New
    <3>1. Len(stream) \in Nat \ {0}
      BY <2>4, NewIs DEF InProgress
    <3> QED
      BY <3>1 DEF New
  <2>7. Holding(stream, Len(stream), Waiting) >= sps.buffering
    BY <1>6, <2>3, <2>6 DEF Holding
  <2> QED
    BY <1>0, <1>1, <2>1, <2>5, <2>6, <2>7 DEF Passed, PassedIn
<1>7. NeedsBump(dpb, sps.reorder, max_latency, IF phase = "room" THEN sps.buffering ELSE 0)
  BY DEF MakesRoom, BumpsMore
<1>8. Passed(m)
  BY <1>3, <1>4, <1>5, <1>6, <1>7 DEF NeedsBump, TooLate
<1> QED
  BY <1>0, <1>1, <1>8

LEMMA SpsLimits ==
  ASSUME IInv
  PROVE  sps.reorder \in Nat /\ sps.buffering \in Nat /\ sps.size \in Nat
<1>1. sps \in SpsSet \union {NoSps}
  BY DEF IInv, TypeOK
<1> QED
  BY <1>1, ConstantsAssumption DEF NoSps

LEMMA StartsLater ==
  ASSUME IInv, Reading, InProgress, New.starts, NEW m \in 1..(Len(stream) - 1)
  PROVE  stream[m].cvs < New.cvs
<1>1. Len(stream) \in Nat \ {0} /\ Conforms(stream, Len(stream)) /\ New \in StreamPictures
      /\ \A k \in 1..Len(stream) : stream[k] \in StreamPictures
  BY NewIs DEF InProgress
<1>2. stream[m].cvs <= New.cvs /\ stream[m].cvs # New.cvs
  BY <1>1 DEF Conforms, Numbered, New
<1>3. stream[m].cvs \in Nat /\ New.cvs \in Nat
  BY <1>1 DEF StreamPictures
<1> QED
  BY <1>2, <1>3

LEMMA PassedBeforeNew ==
  ASSUME IInv, Reading, OrderInv, InProgress, New.out,
         NEW m \in 1..(Len(stream) - 1), Passed(m), stream[m].cvs = New.cvs
  PROVE  Precedes(m, Len(stream))
<1>1. /\ Len(stream) \in Nat \ {0} /\ Conforms(stream, Len(stream))
      /\ \A k \in 1..Len(stream) : stream[k].poc \in Int
      /\ \A k \in 1..Len(stream) : stream[k].keep \subseteq 1..Len(stream)
  BY NewIs DEF InProgress, IInv, StreamOk
<1>2. stream[m].poc # New.poc
  BY <1>1, PocsDiffer DEF New
<1>3. OutputFits(stream, Len(stream), sps)
  BY DEF OrderInv
<1>4. stream[m].poc <= New.poc
  BY <1>1, <1>3, SpsLimits, PassedPrecedes DEF Passed, New
<1> QED
  BY <1>1, <1>2, <1>4 DEF Precedes, New

LEMMA LowestPrecedes ==
  ASSUME IInv, Reading, RefsInv, OrderInv,
         NEW low \in NeededForOutput(dpb), IsLowestOutputNeeded(dpb, low),
         NEW n \in Waiting, n # low.id
  PROVE  Precedes(low.id, n)
<1> DEFINE m == low.id
<1>1. m \in Waiting
  BY DEF Waiting, Ids
<1>2. /\ m \in 1..Len(stream) /\ n \in 1..Len(stream) /\ Len(stream) \in Nat
      /\ stream[m].cvs = stream[n].cvs
  BY <1>1, WaitingPlaced DEF OrderInv, IInv, StreamOk
<1>3. PICK p \in NeededForOutput(dpb) : p.id = n /\ p.poc = stream[n].poc
  BY WaitingPlaced
<1>4. low.poc = stream[m].poc /\ low.poc \in Int /\ p.poc \in Int
  BY DEF RefsInv, Recorded, NeededForOutput, IInv, DpbOk, Dpb, Picture
<1>5. low.poc <= p.poc
  BY <1>3, <1>4 DEF IsLowestOutputNeeded
<1>6. stream[m].poc # stream[n].poc
  <2>1. m \in 1..(n - 1) \/ n \in 1..(m - 1)
    BY <1>2
  <2>2. Conforms(stream, m) /\ Conforms(stream, n)
    BY <1>2 DEF Reading, StreamConforms
  <2> QED
    BY <1>2, <2>1, <2>2, PocsDiffer
<1> QED
  BY <1>2, <1>3, <1>4, <1>5, <1>6 DEF Precedes

LEMMA BumpOrder ==
  ASSUME PlainSps, IInv, Reading, RefsInv, SizeInv, FreshInv, OrderInv,
         NEW drain \in BOOLEAN, BumpTurn(drain), drain => phase = "drain",
         ~drain => \/ phase = "clear" \/ (phase = "room" /\ MakesRoom)
                   \/ (phase = "bump" /\ BumpsMore)
  PROVE  OrderInv'
<1>0. PICK low \in NeededForOutput(dpb) :
         /\ IsLowestOutputNeeded(dpb, low) /\ dpb' = Bump(dpb, low, drain)
         /\ shown' \subseteq shown \union {low.id}
  BY DEF BumpTurn, OutputPicture
<1> DEFINE m == low.id
<1>1. UNCHANGED <<phase, after, nalu, cur, stream, begin, sps>>
  BY DEF BumpTurn, spsVars, streamVars
<1>2. Places /\ m \in Waiting /\ Waiting' = Waiting \ {m}
  <2>1. Ids(NeededForOutput(Bump(dpb, low, drain))) = Ids(NeededForOutput(dpb)) \ {m}
    BY BumpOk DEF IInv
  <2> QED
    BY <1>0, <2>1, PlacesRight DEF Waiting, Ids
<1>3. m \in 1..Len(stream) /\ Len(stream) \in Nat /\ (InProgress => m \in 1..(Len(stream) - 1))
  BY <1>2, WaitingPlaced DEF IInv, StreamOk
<1>4. \/ stream[m].cvs < New.cvs
      \/ Passed(m) /\ stream[m].cvs = New.cvs
      \/ ~Continuing /\ ~InProgress
  <2>1. CASE phase = "drain" /\ after = "idle"
    <3>1. ~InUnit /\ begin # "any"
      BY <2>1 DEF InUnit, RefsInv
    <3> QED
      BY <1>2, <3>1 DEF Places, Continuing, InProgress
  <2>2. CASE InSps \/ phase = "clear"
    <3>1. New.starts /\ InProgress
      BY <1>2, <2>2 DEF Places, SizeInv, InSlice, InProgress
    <3> QED
      BY <1>3, <3>1, StartsLater
  <2>3. CASE (phase = "room" /\ MakesRoom) \/ (phase = "bump" /\ BumpsMore)
    BY <1>0, <2>3, BumpPasses
  <2>4. after \in {"idle", "newseq"}
    BY DEF IInv, TypeOK
  <2>5. \/ phase = "drain" \/ phase = "clear"
        \/ (phase = "room" /\ MakesRoom) \/ (phase = "bump" /\ BumpsMore)
    BY Zenon
  <2>6. phase = "drain" => (phase = "drain" /\ after = "idle") \/ InSps
    BY <2>4 DEF InSps
  <2> QED
    BY <2>1, <2>2, <2>3, <2>5, <2>6
<1>5. (HasSlice' <=> HasSlice) /\ New' = New
  BY <1>1, Standing
<1>6. /\ (InProgress' <=> InProgress) /\ Latest' = Latest /\ (Continuing' <=> Continuing)
      /\ \A k : Passed(k)' <=> Passed(k)
      /\ OutputFits(stream, Len(stream), sps)' <=> OutputFits(stream, Len(stream), sps)
  BY <1>1, <1>5
     DEF InProgress, Latest, Pending, Continuing, Passed, PassedIn, Behind, Holding, OutputFits,
         Later, DecodedUpTo
<1>7. \A n \in Waiting' : ShownBefore(n)'
  <2> SUFFICES ASSUME NEW n \in Waiting', NEW k \in shown' PROVE Precedes(k, n)'
    BY DEF ShownBefore
  <2>1. CASE k \in shown
    BY <1>1, <1>2, <2>1 DEF OrderInv, ShownBefore, Precedes
  <2>2. CASE k = m
    <3>1. Precedes(m, n)
      BY <1>0, <1>2, LowestPrecedes
    <3> QED
      BY <1>1, <2>2, <3>1 DEF Precedes
  <2> QED
    BY <1>0, <2>1, <2>2
<1>8. InProgress' /\ New'.out => ShownBefore(Len(stream))'
  <2> SUFFICES ASSUME InProgress, New.out, NEW k \in shown' PROVE Precedes(k, Len(stream))'
    BY <1>5, <1>6 DEF ShownBefore
  <2>1. CASE k \in shown
    BY <1>1, <2>1 DEF OrderInv, ShownBefore, Precedes
  <2>2. CASE k = m
    <3>1. Precedes(m, Len(stream))
      BY <1>3, <1>4, PassedBeforeNew DEF Precedes, New
    <3> QED
      BY <1>1, <2>2, <3>1 DEF Precedes
  <2> QED
    BY <1>0, <2>1, <2>2
<1>9. Continuing' => \A k \in shown' : stream'[k].cvs < New'.cvs \/ Passed(k)'
  BY <1>0, <1>1, <1>4, <1>5, <1>6 DEF OrderInv
<1>10. /\ \A k \in shown' : k \in 1..Len(stream')
       /\ \A n \in Waiting' : stream'[n].cvs = stream'[Latest'].cvs
       /\ phase' = "room" /\ New'.starts => Waiting' = {}
  BY <1>0, <1>1, <1>2, <1>3, <1>5, <1>6 DEF OrderInv
<1>11. InProgress' => OutputFits(stream, Len(stream), sps)'
  BY <1>6 DEF OrderInv
<1> QED
  BY <1>7, <1>8, <1>9, <1>10, <1>11 DEF OrderInv

LEMMA ParsingOrder ==
  ASSUME Conforming, IInv, Reading, RefsInv, OrderInv,
         \/ \E s \in SpsSet : ParseSps(s)
         \/ ParseAnySlice \/ \E end \in Ends : ParseEnd(end)
         \/ ParseOver \/ BadSlice
  PROVE  OrderInv'
<1>0. Places
  BY PlacesRight
<1>1. ASSUME NEW s \in SpsSet, ParseSps(s) PROVE OrderInv'
  <2>1. /\ phase = "nals" /\ phase' = phase /\ nalu = <<>> /\ cur' = cur /\ cur.id = 0
        /\ nalu' = Append(nalu, [kind |-> "sps", sps |-> s])
        /\ UNCHANGED <<dpb, stream, shown>>
    BY <1>0, <1>1 DEF ParseSps, Places, clientVars, streamVars
  <2>2. nalu' = <<[kind |-> "sps", sps |-> s]>> /\ nalu' # <<>> /\ nalu'[1].kind = "sps"
    BY <2>1
  <2>3. ~HasSlice' /\ ~HasSlice
    BY <1>0, <2>1, <2>2 DEF HasSlice, Places
  <2>4. ~Continuing' /\ ~InProgress' /\ Latest' = Latest
    BY <2>1, <2>2, <2>3 DEF Continuing, InProgress, Latest, Pending
  <2> QED
    BY <2>1, <2>4, OrderQuiet DEF Waiting
<1>2. CASE (\E end \in Ends : ParseEnd(end)) \/ ParseOver
  <2>1. /\ phase = "nals" /\ phase' \in {"nals", "decode"} /\ HasSlice
        /\ UNCHANGED <<nalu, cur, dpb, stream, sps, shown>>
        /\ (begin' = "any" => begin = "any")
    BY <1>2 DEF ParseEnd, ParseOver, callVars, spsVars, streamVars, clientVars
  <2>2. HasSlice'
    BY <2>1, Standing
  <2>3. /\ InProgress /\ (Continuing' => Continuing) /\ Latest' = Latest
    BY <2>1, <2>2 DEF Continuing, InProgress, Latest, Pending
  <2> QED
    BY <2>1, <2>3, OrderQuiet DEF Waiting
<1> QED
  BY <1>1, <1>2 DEF ParseAnySlice, BadSlice

LEMMA SpsOrder ==
  ASSUME IInv, Reading, RefsInv, OrderInv, KeepSps \/ ChangeSps \/ NewSequence
  PROVE  OrderInv'
<1>1. nalu \in Seq(Units) /\ Two /\ cur' = cur /\ cur.id = 0 /\ HasSlice /\ Places
  BY SpsUnitsAre, SlicesAre, PlacesRight
<1>2. /\ UNCHANGED <<stream, begin, sps, shown>>
      /\ phase \in {"decode", "newseq"} /\ phase' \in {"decode", "newseq", "drain"}
      /\ nalu' = nalu \/ nalu' = Tail(nalu)
      /\ dpb'.pic_list = dpb.pic_list \/ dpb' = DpbClear(dpb)
  <2>1. /\ UNCHANGED <<stream, begin, sps, shown>>
        /\ phase \in {"decode", "newseq"} /\ phase' \in {"decode", "newseq", "drain"}
        /\ nalu' = nalu \/ nalu' = Tail(nalu)
    BY DEF KeepSps, ChangeSps, NewSequence, NextIs, spsVars, streamVars, clientVars
  <2>2. dpb'.pic_list = dpb.pic_list \/ dpb' = DpbClear(dpb)
    <3>1. CASE KeepSps \/ ChangeSps
      BY <3>1 DEF KeepSps, ChangeSps, ClearDpb
    <3>2. CASE NewSequence
      BY <3>2 DEF NewSequence, IInv, DpbOk, Dpb
    <3> QED
      BY <3>1, <3>2
  <2> QED
    BY <2>1, <2>2
<1>3. HasSlice'
  <2>1. nalu'[Len(nalu')].kind = "slice" /\ Len(nalu') \in DOMAIN nalu'
    <3>1. Len(nalu) = 2 /\ NewSlice(nalu[2])
      BY <1>1 DEF Two
    <3>2. nalu[2].kind = "slice"
      BY <3>1, SliceHas
    <3>3. CASE nalu' = nalu
      <4>1. Len(nalu') = 2 /\ nalu'[2] = nalu[2] /\ nalu' \in Seq(Units)
        BY <1>1, <3>1, <3>3
      <4> QED
        BY <3>2, <4>1
    <3>4. CASE nalu' = Tail(nalu)
      <4>1. Len(nalu') = 1 /\ nalu'[1] = nalu[2] /\ nalu' \in Seq(Units)
        BY <1>1, <3>1, <3>4, SlicesAre, HeadTailProperties
      <4> QED
        BY <3>2, <4>1
    <3> QED
      BY <1>2, <3>3, <3>4
  <2> QED
    BY <2>1 DEF HasSlice
<1>4. Latest' = Latest /\ InProgress /\ (Continuing' => Continuing)
  BY <1>1, <1>2, <1>3 DEF Latest, Pending, InProgress, Continuing
<1>5. Waiting' \subseteq Waiting
  BY <1>2, DpbClearOk DEF Waiting, Ids, NeededForOutput, IInv, DpbOk
<1> QED
  BY <1>2, <1>4, <1>5, OrderQuiet

LEMMA SameSequence ==
  ASSUME IInv, Reading, InProgress, ~New.starts
  PROVE  /\ Len(stream) - 1 \in 1..Len(stream)
         /\ stream[Len(stream) - 1].cvs = stream[Len(stream)].cvs
<1>1. /\ Len(stream) \in Nat \ {0} /\ Conforms(stream, Len(stream)) /\ New \in StreamPictures
      /\ \A k \in 1..Len(stream) : stream[k] \in StreamPictures
  BY NewIs DEF InProgress
<1>2. Len(stream) - 1 \in 1..Len(stream)
  BY BeforeNew DEF InProgress
<1>3. stream[Len(stream) - 1].cvs \in Nat
  BY <1>1, <1>2 DEF StreamPictures
<1> QED
  BY <1>1, <1>2, <1>3 DEF Conforms, Numbered, New

LEMMA PrepareOrder ==
  ASSUME IInv, Reading, RefsInv, FreshInv, OrderInv, PreparePicture
  PROVE  OrderInv'
<1> DEFINE unit == Head(nalu)
           d == MarkRps(RefsReset(unit), Entries(unit), cur.poc)
<1>1. /\ phase = "begin"
      /\ phase' = IF unit.clear /\ unit.no_output THEN "start"
                  ELSE IF unit.clear THEN "clear" ELSE "room"
      /\ UNCHANGED <<nalu, cur, stream, sps, begin, shown>>
      /\ dpb' = (IF unit.clear /\ unit.no_output THEN DpbClear(d) ELSE DeleteUnused(d))
  BY DEF PreparePicture, spsVars, streamVars
<1>2. DpbOk(d) /\ Ids(NeededForOutput(d)) = Waiting
  BY PreparedOk DEF IInv, Waiting
<1> HIDE DEF d
<1>3. Waiting' \subseteq Waiting /\ (unit.clear /\ unit.no_output => Waiting' = {})
  <2>1. CASE unit.clear /\ unit.no_output
    <3>1. dpb' = DpbClear(d) /\ d \in Dpb
      BY <1>1, <1>2, <2>1 DEF DpbOk
    <3>2. NeededForOutput(dpb') = {}
      BY <3>1, DpbClearOk
    <3> QED
      BY <3>2 DEF Waiting, Ids
  <2>2. CASE ~(unit.clear /\ unit.no_output)
    <3>1. dpb' = DeleteUnused(d)
      BY <1>1, <2>2
    <3>2. NeededForOutput(dpb') = NeededForOutput(d)
      BY <1>2, <3>1, DeleteUnusedOk
    <3> QED
      BY <1>2, <2>2, <3>2 DEF Waiting
  <2> QED
    BY <2>1, <2>2
<1>4. HasSlice /\ HasSlice' /\ One /\ New' = New
  BY <1>1, PlacesRight, Standing DEF Places, InSlice
<1>5. Pending /\ InProgress /\ Latest = Len(stream) - 1 /\ (Continuing' => Continuing)
  BY <1>1, <1>4 DEF Pending, InProgress, Latest, Continuing
<1>6. nalu[Len(nalu)] = unit
  BY <1>4, SlicesAre DEF One, IInv, TypeOK, Units
<1>7. CASE unit.clear /\ unit.no_output
  BY <1>1, <1>3, <1>4, <1>5, <1>7, OrderQuiet
<1>8. CASE unit.clear /\ ~unit.no_output
  <2>1. phase' = "clear"
    BY <1>1, <1>8
  <2>2. Latest' = Latest
    BY <1>1, <1>5, <2>1 DEF Latest
  <2> QED
    BY <1>1, <1>3, <1>4, <1>5, <2>1, <2>2, OrderQuiet
<1>9. CASE ~unit.clear
  <2>1. phase' = "room" /\ Latest' = Len(stream)
    BY <1>1, <1>4, <1>9 DEF Latest, Pending
  <2>2. New.starts => Waiting = {}
    BY <1>5, <1>6, <1>9 DEF FreshInv
  <2>3. ~New.starts => stream[Latest'].cvs = stream[Latest].cvs
    BY <1>5, <2>1, SameSequence
  <2>4. Waiting' = {} \/ stream[Latest'].cvs = stream[Latest].cvs
    BY <1>3, <2>2, <2>3
  <2>5. phase' = "room" /\ New.starts => Waiting' = {}
    BY <1>3, <2>2
  <2> QED
    BY <1>1, <1>3, <1>4, <1>5, <2>4, <2>5, OrderQuiet
<1> QED
  BY <1>7, <1>8, <1>9

LEMMA StepsOrder ==
  ASSUME Conforming, Accepting, Answered, IInv, Reading, Counts, RefsInv, RefsInv',
         OrderInv,
         \/ MoreSlice \/ NewPictureFails \/ NewPicture \/ DropPicture \/ InitOver
         \/ StartPicture \/ FailFrame \/ NoPictureInFrame \/ FrameDone
  PROVE  OrderInv'
<1>0. Places /\ nalu \in Seq(Units)
  BY PlacesRight DEF IInv, TypeOK, Units
<1>1. CASE MoreSlice \/ NewPictureFails \/ FailFrame
  BY <1>0, <1>1 DEF MoreSlice, NewPictureFails, FailFrame, NextIs, Accepting, Places, RefsInv
<1>2. UNCHANGED <<dpb, stream, sps, begin, shown>> /\ Waiting' = Waiting /\ New' = New
  <2>1. UNCHANGED <<dpb, stream, sps, begin, shown>>
    BY <1>1 DEF MoreSlice, NewPictureFails, NewPicture, DropPicture, InitOver, StartPicture,
           FailFrame, NoPictureInFrame, FrameDone, spsVars, streamVars, clientVars
  <2> QED
    BY <2>1 DEF Waiting, New
<1>3. CASE NewPicture
  <2>1. /\ phase = "decode" /\ phase' = "begin" /\ nalu # <<>> /\ nalu' = nalu
    BY <1>3 DEF NewPicture, NextIs
  <2>2. HasSlice /\ HasSlice'
    BY <1>0, <1>2, <2>1, Standing DEF Places
  <2>3. InProgress /\ Latest' = Latest /\ (Continuing' => Continuing)
    BY <1>2, <2>1, <2>2 DEF InProgress, Latest, Pending, Continuing
  <2> QED
    BY <1>2, <2>1, <2>3, OrderQuiet
<1>4. CASE DropPicture
  <2>1. /\ phase = "begin" /\ phase' = "decode" /\ nalu' = Tail(nalu) /\ cur'.id = 0
        /\ Drops(Head(nalu))
    BY <1>4, NoPictureType DEF DropPicture
  <2>2. HasSlice /\ nalu' = <<>> /\ ~HasSlice' /\ New.skip
    BY <1>0, <2>1, SlicesAre, DropsTheSkipped DEF Places, InSlice, HasSlice
  <2>3. InProgress /\ ~InProgress' /\ (Continuing' => Continuing)
    BY <1>2, <2>1, <2>2 DEF InProgress, Continuing
  <2>4. ~New.starts
    <3>1. Conforms(stream, Len(stream)) /\ Len(stream) \in Nat \ {0}
      BY <2>3, NewIs DEF InProgress
    <3> QED
      BY <2>2, <3>1 DEF Conforms, Numbered, New
  <2>5. Latest = Len(stream) - 1 /\ Latest' = Len(stream)
    BY <1>2, <2>1, <2>2 DEF Latest, Pending
  <2> QED
    BY <1>2, <2>1, <2>3, <2>4, <2>5, SameSequence, OrderQuiet
<1>5. CASE InitOver
  <2>1. /\ phase \in {"clear", "room"} /\ phase' = "start" /\ UNCHANGED <<nalu, cur>>
        /\ (phase = "clear" => NeededForOutput(dpb) = {})
    BY <1>5 DEF InitOver, callVars, Answered
  <2>2. HasSlice /\ HasSlice'
    BY <1>0, <1>2, <2>1, Standing DEF Places, InSlice
  <2>3. InProgress /\ (Continuing' => Continuing)
    BY <1>2, <2>1, <2>2 DEF InProgress, Continuing
  <2>4. Waiting' = {} \/ Latest' = Latest
    BY <1>2, <2>1 DEF Latest, Pending, Waiting, Ids
  <2> QED
    BY <1>2, <2>1, <2>3, <2>4, OrderQuiet
<1>6. CASE StartPicture
  <2>1. /\ phase = "start" /\ phase' = "decode" /\ nalu' = Tail(nalu)
    BY <1>6 DEF StartPicture, RefsInv
  <2>2. HasSlice /\ nalu' = <<>> /\ ~HasSlice'
    BY <1>0, <2>1, SlicesAre DEF Places, InSlice, HasSlice
  <2>3. InProgress /\ Latest' = Latest /\ (Continuing' => Continuing)
    BY <1>2, <2>1, <2>2 DEF InProgress, Latest, Pending, Continuing
  <2> QED
    BY <1>2, <2>1, <2>3, OrderQuiet
<1>7. CASE NoPictureInFrame \/ FrameDone
  <2>1. /\ phase \in {"decode", "bump"} /\ nalu = <<>> /\ phase' = "idle"
        /\ nalu' = <<>> /\ cur'.id = 0
    BY <1>0, <1>7, NoPictureType DEF NoPictureInFrame, FrameDone, Return, Places, InUnit
  <2>2. ~HasSlice /\ ~InProgress' /\ Latest' = Latest /\ (Continuing' => Continuing)
    BY <1>2, <2>1 DEF HasSlice, InProgress, Latest, Pending, Continuing
  <2> QED
    BY <1>2, <2>1, <2>2, OrderQuiet
<1> QED
  BY <1>1, <1>3, <1>4, <1>5, <1>6, <1>7

LEMMA FinishOrder ==
  ASSUME IInv, IInv', Reading, Reading', Counts, RefsInv, RefsInv', OrderInv, FinishPicture
  PROVE  OrderInv'
<1>0. Places
  BY PlacesRight
<1>1. /\ phase = "decode" /\ nalu = <<>> /\ cur.id # 0 /\ phase' = "bump" /\ nalu' = <<>>
      /\ cur'.id = 0 /\ dpb' = DpbAdd(DeleteUnused(dpb), cur)
      /\ UNCHANGED <<stream, sps, begin, shown>>
  BY NoPictureType DEF FinishPicture, spsVars, streamVars
<1>2. cur.id = Len(stream) /\ stream[Len(stream)] = New /\ cur.output_flag = New.out
  BY <1>1, CurrentIsNew DEF New, Counts, CurrentCounts
<1>3. ~HasSlice /\ InProgress /\ ~InProgress' /\ (Continuing' => Continuing)
  BY <1>1 DEF HasSlice, InProgress, Continuing
<1>4. Latest = Len(stream) /\ Latest' = Len(stream)
  BY <1>1, <1>3 DEF Latest, Pending, HasSlice
<1>5. Waiting' = Waiting \union (IF New.out THEN {Len(stream)} ELSE {})
  <2>1. DpbOk(DeleteUnused(dpb)) /\ NeededForOutput(DeleteUnused(dpb)) = NeededForOutput(dpb)
        /\ Ids(DeleteUnused(dpb).pic_list) = Ids(dpb.pic_list) \ Ids(Unused(dpb))
    BY DeleteUnusedOk DEF IInv
  <2>2. cur \in Picture /\ cur.id \notin Ids(DeleteUnused(dpb).pic_list)
    <3>1. cur.id = aus /\ InUnit
      BY <1>1 DEF IInv, Current, InUnit
    <3> QED
      BY <2>1, <3>1 DEF IInv, Earlier, Stored, TypeOK
  <2> QED
    BY <1>1, <1>2, <2>1, <2>2, DpbAddOk DEF Waiting
<1>6. \A n : ShownBefore(n)' <=> ShownBefore(n)
  BY <1>1 DEF ShownBefore, Precedes
<1>7. \A n \in Waiting' : ShownBefore(n)' /\ stream'[n].cvs = stream'[Latest'].cvs
  BY <1>1, <1>3, <1>4, <1>5, <1>6 DEF OrderInv
<1>8. Continuing' => \A m \in shown' : stream'[m].cvs < New'.cvs \/ Passed(m)'
  <2>1. New' = New
    BY <1>1 DEF New
  <2>2. \A m : Passed(m)' <=> Passed(m)
    BY <1>1 DEF Passed, PassedIn, Behind, Holding
  <2> QED
    BY <1>1, <1>3, <2>1, <2>2 DEF OrderInv
<1> QED
  BY <1>1, <1>3, <1>7, <1>8 DEF OrderInv

LEMMA DrainOverOrder ==
  ASSUME Answered, IInv, Reading, RefsInv, OrderInv, DrainOver
  PROVE  OrderInv'
<1>0. Places
  BY PlacesRight
<1>1. /\ phase = "drain" /\ after \in {"idle", "newseq"} /\ dpb' = DpbClear(dpb)
      /\ UNCHANGED <<stream, sps, begin, shown>>
  BY DEF DrainOver, IInv, TypeOK, spsVars, streamVars
<1>2. Waiting' = {}
  BY <1>1, DpbClearOk DEF Waiting, Ids, IInv, DpbOk
<1>3. CASE after = "idle"
  <2>1. /\ phase' = "idle" /\ nalu' = <<>> /\ cur'.id = 0 /\ begin' # "any"
    BY <1>1, <1>3, NoPictureType DEF DrainOver, Return, RefsInv
  <2>2. ~Continuing' /\ ~InProgress'
    BY <2>1 DEF Continuing, InProgress, HasSlice
  <2> QED
    BY <1>1, <1>2, <2>1, <2>2, OrderQuiet
<1>4. CASE after = "newseq"
  <2>1. phase' = "newseq" /\ UNCHANGED <<nalu, cur>>
    BY <1>4 DEF DrainOver, Answered
  <2>2. HasSlice /\ HasSlice'
    BY <1>0, <1>1, <1>4, <2>1, Standing DEF Places, InSps
  <2>3. InProgress /\ (Continuing' => Continuing)
    BY <1>1, <2>1, <2>2 DEF InProgress, Continuing
  <2> QED
    BY <1>1, <1>2, <2>1, <2>3, OrderQuiet
<1> QED
  BY <1>1, <1>3, <1>4

LEMMA CallsOrder ==
  ASSUME Conforming, IInv, Reading, RefsInv, OrderInv, Calls
  PROVE  OrderInv'
<1>0. Places
  BY PlacesRight
<1>1. /\ nalu = <<>> /\ nalu' = nalu /\ cur' = cur /\ cur.id = 0 /\ shown' = shown
      /\ phase \in {"idle", "stopped"} /\ stream' = stream
      /\ phase' \in {"idle", "stopped", "drain", "nals"}
  <2>1. /\ nalu' = nalu /\ cur' = cur /\ phase \in {"idle", "stopped"}
        /\ phase' \in {"idle", "stopped", "drain", "nals"} /\ stream' = stream
        /\ shown' = shown
    BY DEF Calls, HandleFrame, Drain, Flush, Stop, Start, Interrupted, callVars, clientVars,
           streamVars
  <2> QED
    BY <1>0, <2>1 DEF Places, InUnit
<1>2. ~InProgress' /\ Latest' = Latest
  BY <1>1 DEF Latest, Pending, InProgress, HasSlice
<1>3. CASE HandleFrame
  <2>1. UNCHANGED <<dpb, sps, begin>>
    BY <1>3 DEF HandleFrame, spsVars, streamVars
  <2>2. Continuing' => Continuing
    BY <1>1, <2>1 DEF Continuing
  <2> QED
    BY <1>1, <1>2, <2>1, <2>2, OrderQuiet DEF Waiting
<1>4. CASE Drain \/ Flush \/ Stop \/ Start
  <2>1. begin' # "any" /\ (dpb' = dpb \/ dpb' = DpbClear(dpb) \/ dpb' = NewDpb)
    BY <1>1, <1>4
       DEF Drain, Flush, Stop, Start, Interrupted, ClearDpb, streamVars, Reading, Beginning
  <2>2. Waiting' \subseteq Waiting
    BY <2>1, DpbClearOk, NewDpbOk DEF Waiting, Ids, IInv, DpbOk
  <2>3. ~Continuing'
    BY <2>1 DEF Continuing
  <2> QED
    BY <1>1, <1>2, <2>2, <2>3, OrderQuiet
<1> QED
  BY <1>3, <1>4 DEF Calls

LEMMA OrderInit == Init => OrderInv
<1> SUFFICES ASSUME Init PROVE OrderInv
  OBVIOUS
<1>1. Waiting = {} /\ ~InProgress /\ shown = {}
  BY NewDpbOk, NoPictureType DEF Init, Waiting, Ids, InProgress, HasSlice
<1> QED
  BY <1>1 DEF Init, OrderInv

(* NewIs, as a formula of the state.                                       *)
NewFacts ==
    /\ Len(stream) \in Nat \ {0} /\ New \in StreamPictures
    /\ Conforms(stream, Len(stream))
    /\ \A k \in 1..Len(stream) : stream[k] \in StreamPictures /\ stream[k].poc \in Int
    /\ \A k \in 1..Len(stream) : stream[k].keep \subseteq 1..Len(stream)

LEMMA NewFactsHold == IInv /\ Reading /\ InProgress => NewFacts
BY NewIs DEF NewFacts, InProgress, IInv, StreamOk

LEMMA NextPictureOrder ==
  ASSUME IInv, IInv', Reading, Reading', RefsInv, RefsInv', OrderInv, ParseNextPicture
  PROVE  OrderInv'
<1> DEFINE n == Len(stream)
           t == stream'
<1>1. /\ phase = "nals" /\ phase' = phase /\ ~HasSlice /\ HasSlice' /\ cur.id = 0
      /\ UNCHANGED <<cur, dpb, sps>>
      /\ n \in Nat /\ Len(t) = n + 1 /\ \A k \in 1..n : t[k] = stream[k]
      /\ ~New'.starts => begin = "any" /\ nalu = <<>>
      /\ OutputConforms(stream, New', sps)
  BY NextPictureIs
<1>2. shown' = shown
  BY DEF ParseNextPicture, ParsePicture, ParseSlice, clientVars
<1>3. InProgress' /\ Pending' /\ Waiting' = Waiting /\ Latest = n /\ Latest' = n
  BY <1>1 DEF InProgress, Pending, Waiting, Latest
<1>4. /\ New' \in StreamPictures /\ Conforms(t, n + 1)
      /\ \A k \in 1..(n + 1) : t[k] \in StreamPictures /\ t[k].poc \in Int
      /\ \A k \in 1..(n + 1) : t[k].keep \subseteq 1..(n + 1)
  <2>1. IInv' /\ Reading' /\ InProgress' => NewFacts'
    BY NewFactsHold, PTL
  <2>2. NewFacts'
    BY <1>3, <2>1
  <2> QED
    BY <1>1, <2>2 DEF NewFacts
<1>5. New' = t[n + 1]
  BY <1>1 DEF New
<1>6. OutputFits(t, Len(t), sps)
  <2>1. stream \in Seq(StreamPictures)
    BY DEF IInv, StreamOk
  <2> QED
    BY <1>1, <1>4, <1>5, <2>1, NewFits
<1>7. \A m \in shown : m \in 1..n
  BY DEF OrderInv
<1>8. \A m \in shown : \/ t[m].cvs < New'.cvs
                       \/ t[m].cvs = New'.cvs /\ PassedIn(t, sps, m)
  <2> SUFFICES ASSUME NEW m \in shown
               PROVE  t[m].cvs < New'.cvs \/ (t[m].cvs = New'.cvs /\ PassedIn(t, sps, m))
    OBVIOUS
  <2>1. m \in 1..n /\ t[m] = stream[m] /\ t[m].cvs \in Nat /\ New'.cvs \in Nat
    BY <1>1, <1>4, <1>7 DEF StreamPictures
  <2>2. t[m].cvs <= New'.cvs /\ (New'.starts => t[m].cvs # New'.cvs)
    BY <1>4, <1>5, <2>1 DEF Conforms, Numbered
  <2>3. CASE New'.starts
    BY <2>1, <2>2, <2>3
  <2>4. CASE ~New'.starts
    <3>1. Continuing
      BY <1>1, <2>4 DEF Continuing
    <3>2. stream[m].cvs < New.cvs \/ Passed(m)
      BY <3>1 DEF OrderInv
    <3>3. New.cvs = New'.cvs
      <4>1. n \in 1..n /\ t[n].cvs \in Nat
        BY <1>1, <1>4, <2>1 DEF StreamPictures
      <4> QED
        BY <1>1, <1>4, <1>5, <2>4, <4>1 DEF Conforms, Numbered, New
    <3>4. Passed(m) => PassedIn(t, sps, m)
      BY <1>1, <2>1, PassedGrows DEF Passed
    <3> QED
      BY <2>1, <2>2, <3>2, <3>3, <3>4
  <2> QED
    BY <2>3, <2>4
<1>9. New'.out => ShownBefore(Len(stream))'
  <2> SUFFICES ASSUME New'.out, NEW m \in shown PROVE Precedes(m, Len(stream))'
    BY <1>2 DEF ShownBefore
  <2>1. m \in 1..n
    BY <1>7
  <2>2. CASE t[m].cvs < New'.cvs
    BY <1>1, <1>5, <2>2 DEF Precedes
  <2>3. CASE t[m].cvs = New'.cvs /\ PassedIn(t, sps, m)
    <3>0. /\ Len(t) \in Nat /\ m \in 1..(Len(t) - 1) /\ t[Len(t)].out
          /\ t[m].cvs = t[Len(t)].cvs /\ t[Len(t)] = t[n + 1]
          /\ \A k \in 1..Len(t) : t[k].poc \in Int /\ t[k].keep \subseteq 1..Len(t)
      BY <1>1, <1>4, <1>5, <2>1, <2>3
    <3>1. t[m].poc <= t[n + 1].poc
      <4>1. t[m].poc <= t[Len(t)].poc
        BY <1>6, <2>3, <3>0, SpsLimits, PassedPrecedes
      <4> QED
        BY <3>0, <4>1
    <3>2. t[m].poc # t[n + 1].poc
      BY <1>1, <1>4, <1>5, <2>1, <2>3, PocsDiffer
    <3>3. t[m].poc \in Int /\ t[n + 1].poc \in Int
      BY <1>1, <1>4, <2>1
    <3> QED
      BY <1>1, <1>5, <2>3, <3>1, <3>2, <3>3 DEF Precedes
  <2> QED
    BY <1>8, <2>2, <2>3
<1>10. \A k \in Waiting' : ShownBefore(k)' /\ t[k].cvs = t[Latest'].cvs
  <2> SUFFICES ASSUME NEW k \in Waiting PROVE ShownBefore(k)' /\ t[k].cvs = t[Latest'].cvs
    BY <1>3
  <2>1. k \in 1..n /\ n \in 1..n
    BY <1>1, WaitingPlaced
  <2>2. ShownBefore(k) /\ stream[k].cvs = stream[n].cvs
    BY <1>3 DEF OrderInv
  <2>3. ShownBefore(k)'
    BY <1>1, <1>2, <1>7, <2>1, <2>2 DEF ShownBefore, Precedes
  <2> QED
    BY <1>1, <1>3, <2>1, <2>2, <2>3
<1>11. \A m \in shown' : m \in 1..Len(t) /\ (t[m].cvs < New'.cvs \/ Passed(m)')
  BY <1>1, <1>2, <1>7, <1>8 DEF Passed
<1>12. OutputFits(stream, Len(stream), sps)' /\ phase' # "room"
  BY <1>1, <1>6
<1> QED
  BY <1>3, <1>9, <1>10, <1>11, <1>12 DEF OrderInv

LEMMA OrderNext ==
  ASSUME Conforming, Accepting, PlainSps, ConformingInv, ConformingInv', SizeInv, FreshInv,
         OrderInv, [Next]_vars
  PROVE  OrderInv'
<1> USE DEF ConformingInv
<1>1. CASE UNCHANGED vars
  <2>1. /\ UNCHANGED <<phase, nalu, cur, dpb, sps, stream, begin, shown>>
    BY <1>1 DEF vars, callVars, spsVars, clientVars, streamVars
  <2>2. HasSlice' <=> HasSlice
    BY <2>1, Standing
  <2>3. (InProgress' <=> InProgress) /\ (Continuing' <=> Continuing) /\ Waiting' = Waiting
        /\ Latest' = Latest
    BY <2>1, <2>2 DEF InProgress, Continuing, Waiting, Latest, Pending
  <2>4. phase' = "room" /\ New.starts => Waiting' = {}
    BY <2>1, <2>3 DEF OrderInv
  <2> QED
    BY <2>1, <2>3, <2>4, OrderQuiet
<1>2. CASE ClearTurn \/ RoomTurn \/ FinishTurn \/ DrainTurn
  <2>1. CASE DrainTurn
    BY <2>1, BumpOrder DEF DrainTurn
  <2>2. CASE ClearTurn \/ RoomTurn \/ FinishTurn
    BY <2>2, BumpOrder DEF ClearTurn, RoomTurn, FinishTurn
  <2> QED
    BY <1>2, <2>1, <2>2
<1>3. CASE KeepSps \/ ChangeSps \/ NewSequence
  BY <1>3, SpsOrder
<1>4. CASE \/ MoreSlice \/ NewPictureFails \/ NewPicture \/ DropPicture \/ InitOver
           \/ StartPicture \/ FailFrame \/ NoPictureInFrame \/ FrameDone
  BY <1>4, StepsOrder
<1>5. CASE PreparePicture \/ FinishPicture \/ DrainOver
  BY <1>5, PrepareOrder, FinishOrder, DrainOverOrder
<1>6. CASE Parsing \/ Calls
  <2>1. CASE ParseNextPicture
    BY <2>1, NextPictureOrder
  <2>2. CASE Parsing /\ ~ParseNextPicture
    BY <2>2, ParsingOrder DEF Parsing
  <2> QED
    BY <1>6, <2>1, <2>2, CallsOrder
<1> QED
  BY <1>1, <1>2, <1>3, <1>4, <1>5, <1>6 DEF Next, Work, Decoding, Bumping

(* A conforming stream is shown to the client in output order: by coded    *)
(* video sequence, and by picture order count within one. Whether bumping  *)
(* makes room before a picture, keeps to sps_num_reorder_pics after it, or *)
(* empties the DPB between two sequences, it shows no picture that one     *)
(* still waiting or still to come precedes.                                *)
THEOREM ShownInOrderCorrect ==
  ASSUME Conforming, Accepting, SmallBuffers, PlainSps, PlainEnds
  PROVE  Spec => ShownInOrder
<1>1. Init => FreshInv /\ OrderInv
  BY FreshInit, OrderInit
<1>2. ConformingInv /\ ConformingInv' /\ SizeInv /\ FreshInv /\ OrderInv /\ [Next]_vars
        => FreshInv' /\ OrderInv'
  BY FreshNext, OrderNext
<1>3. ConformingInv /\ OrderInv /\ [Next]_vars =>
        [Conforming => \A n \in shown' \ shown, m \in shown : Precedes(m, n)]_vars
  <2> SUFFICES ASSUME ConformingInv, OrderInv, Next
               PROVE  \A n \in shown' \ shown, m \in shown : Precedes(m, n)
    OBVIOUS
  <2>1. CASE ClearTurn \/ RoomTurn \/ FinishTurn \/ DrainTurn
    <3>1. PICK low \in NeededForOutput(dpb) : shown' \subseteq shown \union {low.id}
      BY <2>1 DEF ClearTurn, RoomTurn, FinishTurn, DrainTurn, BumpTurn, OutputPicture
    <3>2. low.id \in Waiting
      BY DEF Waiting, Ids
    <3> QED
      BY <3>1, <3>2 DEF OrderInv, ShownBefore
  <2>2. CASE ~(ClearTurn \/ RoomTurn \/ FinishTurn \/ DrainTurn)
    <3>1. CASE Parsing
      <4>1. shown' = shown
        <5>0. \A h, first : ParseSlice(h, first) => shown' = shown
          BY DEF ParseSlice, clientVars
        <5>1. CASE ParseNextPicture \/ ParseAnySlice
          BY <5>0, <5>1 DEF ParseNextPicture, ParseAnySlice, ParsePicture
        <5>2. CASE \/ \E s \in SpsSet : ParseSps(s)
                   \/ \E end \in Ends : ParseEnd(end)
                   \/ ParseOver \/ BadSlice
          BY <5>2 DEF ParseSps, ParseEnd, ParseOver, BadSlice, clientVars
        <5> QED
          BY <3>1, <5>1, <5>2 DEF Parsing
      <4> QED
        BY <4>1
    <3>2. CASE KeepSps \/ ChangeSps \/ NewSequence \/ MoreSlice \/ NewPictureFails
               \/ NewPicture \/ DropPicture \/ PreparePicture
      BY <3>2 DEF KeepSps, ChangeSps, NewSequence, MoreSlice, NewPictureFails, NewPicture,
                  DropPicture, PreparePicture, clientVars
    <3>3. CASE InitOver \/ StartPicture \/ FailFrame \/ NoPictureInFrame \/ FinishPicture
               \/ FrameDone \/ DrainOver
      BY <3>3 DEF InitOver, StartPicture, FailFrame, NoPictureInFrame, FinishPicture,
                  FrameDone, DrainOver, clientVars
    <3>4. CASE Calls
      BY <3>4 DEF Calls, HandleFrame, Drain, Flush, Stop, Start, clientVars
    <3> QED
      BY <2>2, <3>1, <3>2, <3>3, <3>4 DEF Next, Work, Decoding, Bumping
  <2> QED
    BY <2>1, <2>2
<1>4. Spec => [](ConformingInv /\ SizeInv)
  BY SizeInvariance
<1> QED
  BY <1>1, <1>2, <1>3, <1>4, PTL DEF Spec, ShownInOrder
=============================================================================
