-------------------------- MODULE DemuxerESProofs --------------------------
(***************************************************************************)
(* Proofs about DemuxerES: nothing is freed while it is used, the client   *)
(* sees all streams, and the packets it reads are those of the file in     *)
(* order.                                                                  *)
(***************************************************************************)
EXTENDS DemuxerES, SequenceTheorems, TLAPS

-----------------------------------------------------------------------------
(* Sample numbers lo..hi, each once and in order, are those of q.          *)
Ordered(q, lo, hi) ==
    /\ \A i \in DOMAIN q : q[i].kind = "sample" => q[i].n \in lo..hi
    /\ \A i, j \in DOMAIN q :
         q[i].kind = "sample" /\ q[j].kind = "sample" /\ i < j => q[i].n < q[j].n
    /\ \A k \in lo..hi : \E i \in DOMAIN q : q[i] = Sample(k)

(* After the first i objects of q the reader is at pad p, when it is at    *)
(* pad c before them.                                                      *)
Serves(q, c, i, p) ==
    \/ \E j \in 1..i :
         /\ q[j].kind = "stream-start" /\ q[j].pad = p
         /\ \A k \in (j + 1)..i : q[k].kind # "stream-start"
    \/ c = p /\ \A k \in 1..i : q[k].kind # "stream-start"

Labelled(q, c, s) ==
    \A i \in DOMAIN q : q[i].kind = "sample" => Serves(q, c, i, s[q[i].n])

(* No sample of q follows a STREAM_GROUP_DONE.                             *)
DoneIsLast(q) ==
    \A i, j \in DOMAIN q :
        q[i].kind = "stream-group-done" /\ q[j].kind = "sample" => j < i

-----------------------------------------------------------------------------
CurrentPad == IF current + 1 \in DOMAIN streams THEN streams[current + 1] ELSE "unknown"

Taken == Len(received) + (IF packet = NoPacket THEN 0 ELSE 1)
                       + (IF pending = NoSample THEN 0 ELSE 1)

HasEos == popped["app"] = "eos" \/ popped["bus"] = "eos"
          \/ \E i \in DOMAIN bus : bus[i] = "eos"

(* Who may do what: a thread that has not started or has ended holds       *)
(* nothing, and the pipeline runs while the client uses the demuxer.       *)
Threads ==
    /\ (app = "new") = (bus_thread = "none")
    /\ app \in {"new", "play", "null"} => src = "stopped"
    /\ app \in {"wait", "woken"} \union InUse => src # "stopped"
    /\ app \in {"stop", "free", "freed"} => bus_thread = "ended"
    /\ app \in {"free", "freed"} => src = "stopped"
    /\ bus_thread # "running" => popped["bus"] = NoMessage
    /\ app # "messages" => popped["app"] = NoMessage
    /\ src = "push" => Len(sent) < MaxPackets
    /\ app \in {"new", "play"} =>
         /\ state = "idle" /\ told = "nothing" /\ bus = <<>>
         /\ popped["bus"] = NoMessage /\ sent = <<>> /\ active = {}

(* A state that gst_demuxer_es_new returns on is set after the last pad.   *)
Complete ==
    src \notin {"pads", "stopped"} \/ state \in {"ready", "eos"} \/ app \in InUse
    \/ HasEos => AllPadsAdded

(* Every packet of the file was received, is in hand (being returned, or   *)
(* set aside) or is in the queue, in this order, and each is or will be    *)
(* labelled with its own stream.                                           *)
IsOf(id, n) == id + 1 \in DOMAIN streams /\ streams[id + 1] = sent[n]

Received ==
    \A i \in DOMAIN received :
        received[i].n = i /\ i <= Len(sent) /\ IsOf(received[i].id, i)

InHand ==
    /\ packet # NoPacket =>
         /\ packet.n = Len(received) + 1 /\ IsOf(packet.id, packet.n)
         /\ app \in {"look", "result"}
    /\ pending # NoSample =>
         /\ pending = Taken /\ CurrentPad = sent[pending]
         /\ app # "look"
    /\ Taken <= Len(sent)

InQueue ==
    /\ src # "stopped" =>
         /\ Ordered(queue, Taken + 1, Len(sent))
         /\ Labelled(queue, CurrentPad, sent)
         /\ \A p \in active : Serves(queue, CurrentPad, Len(queue), p)
    /\ src = "stopped" => queue = <<>>
    /\ src \in {"pads", "ready"} => sent = <<>> /\ active = {}

Delivery == Received /\ InHand /\ InQueue

(* The end is known to the reader only when the queue has no sample left.  *)
Ended == src \in {"eos", "drain", "done", "stopped"}

Ending ==
    /\ \A i \in DOMAIN queue : queue[i].kind = "stream-group-done" => Ended
    /\ DoneIsLast(queue)
    /\ state = "eos" \/ HasEos => Ended /\ \A i \in DOMAIN queue : queue[i].kind # "sample"
    /\ told = "last" => Ended /\ Len(sent) <= Len(received) + 1

IInv == TypeOK /\ Threads /\ Complete /\ Delivery /\ Ending
-----------------------------------------------------------------------------
(* The objects of the appsink's queue.                                     *)
LEMMA ObjectKinds ==
    ASSUME NEW o \in Objects
    PROVE  /\ o.kind \in {"sample", "stream-start", "stream-group-done", "other"}
           /\ o.kind = "sample" => o.n \in Numbers /\ o = Sample(o.n)
           /\ o.kind = "stream-start" => o.pad \in Pads
  BY DEF Objects, Sample

LEMMA ObjectsMade ==
    /\ \A n \in Numbers : Sample(n) \in Objects /\ Sample(n).kind = "sample"
                         /\ Sample(n).n = n
    /\ \A p \in Pads : StreamStart(p) \in Objects
                      /\ StreamStart(p).kind = "stream-start" /\ StreamStart(p).pad = p
    /\ OtherEvent \in Objects /\ OtherEvent.kind = "other"
    /\ GroupDoneEvent \in Objects /\ GroupDoneEvent.kind = "stream-group-done"
  BY DEF Objects, Sample, StreamStart, OtherEvent, GroupDoneEvent

LEMMA Popping ==
    ASSUME NEW S, NEW q \in Seq(S), q # <<>>
    PROVE  /\ Head(q) = q[1] /\ 1 \in DOMAIN q
           /\ Tail(q) \in Seq(S) /\ Len(q) \in Nat /\ Len(Tail(q)) = Len(q) - 1
           /\ DOMAIN q = 1..Len(q) /\ DOMAIN Tail(q) = 1..(Len(q) - 1)
           /\ \A i \in DOMAIN Tail(q) : i + 1 \in DOMAIN q /\ Tail(q)[i] = q[i + 1]
           /\ \A i \in DOMAIN q : i # 1 => i - 1 \in DOMAIN Tail(q)
                                          /\ Tail(q)[i - 1] = q[i]
  <1>1. Len(q) \in Nat /\ DOMAIN q = 1..Len(q) /\ Len(q) # 0
    BY LenProperties, EmptySeq
  <1>2. /\ Tail(q) \in Seq(S) /\ Len(Tail(q)) = Len(q) - 1
        /\ \A i \in 1..Len(Tail(q)) : Tail(q)[i] = q[i + 1]
    BY HeadTailProperties
  <1>3. DOMAIN Tail(q) = 1..(Len(q) - 1)
    BY <1>2, LenProperties
  <1>4. Head(q) = q[1]
    OBVIOUS
  <1>5. QED
    BY <1>1, <1>2, <1>3, <1>4

LEMMA Pushing ==
    ASSUME NEW S, NEW q \in Seq(S), NEW o \in S
    PROVE  /\ Append(q, o) \in Seq(S)
           /\ Len(q) \in Nat /\ Len(Append(q, o)) = Len(q) + 1
           /\ DOMAIN q = 1..Len(q) /\ DOMAIN Append(q, o) = 1..(Len(q) + 1)
           /\ \A i \in DOMAIN q : Append(q, o)[i] = q[i]
           /\ Append(q, o)[Len(q) + 1] = o
  BY AppendProperties, LenProperties

-----------------------------------------------------------------------------
(* Taking the first object from the queue.                                 *)

LEMMA OrderedPop ==
    ASSUME NEW q \in Seq(Objects), q # <<>>, NEW lo \in Nat, NEW hi \in Nat,
           Ordered(q, lo, hi), q[1].kind = "sample"
    PROVE  q[1].n = lo /\ lo <= hi /\ Ordered(Tail(q), lo + 1, hi)
  <1>1. q[1].n = lo /\ lo <= hi
    <2>1. q[1].n \in lo..hi
      BY Popping DEF Ordered
    <2>2. PICK i \in DOMAIN q : q[i] = Sample(lo)
      BY <2>1 DEF Ordered
    <2>3. q[i].kind = "sample" /\ q[i].n = lo
      BY <2>2 DEF Sample
    <2>4. i = 1 \/ q[1].n < q[i].n
      BY <2>3, Popping DEF Ordered
    <2>5. QED
      BY <2>1, <2>3, <2>4
  <1>2. \A i \in DOMAIN Tail(q) : Tail(q)[i].kind = "sample" => Tail(q)[i].n \in (lo + 1)..hi
    BY <1>1, Popping DEF Ordered
  <1>3. \A i, j \in DOMAIN Tail(q) :
          Tail(q)[i].kind = "sample" /\ Tail(q)[j].kind = "sample" /\ i < j
            => Tail(q)[i].n < Tail(q)[j].n
    <2>1. /\ DOMAIN q = 1..Len(q) /\ Len(q) \in Nat
          /\ \A i \in DOMAIN Tail(q) :
               i \in Nat /\ i + 1 \in DOMAIN q /\ Tail(q)[i] = q[i + 1]
      BY Popping
    <2>2. ASSUME NEW i \in DOMAIN Tail(q), NEW j \in DOMAIN Tail(q),
                 Tail(q)[i].kind = "sample", Tail(q)[j].kind = "sample", i < j
          PROVE  Tail(q)[i].n < Tail(q)[j].n
      <3>1. /\ i + 1 \in DOMAIN q /\ j + 1 \in DOMAIN q /\ i + 1 < j + 1
            /\ Tail(q)[i] = q[i + 1] /\ Tail(q)[j] = q[j + 1]
        BY <2>1, <2>2
      <3>2. QED
        BY <2>2, <3>1 DEF Ordered
    <2>3. QED
      BY <2>2
  <1>4. ASSUME NEW k \in (lo + 1)..hi
        PROVE  \E i \in DOMAIN Tail(q) : Tail(q)[i] = Sample(k)
    <2>1. PICK i \in DOMAIN q : q[i] = Sample(k)
      BY DEF Ordered
    <2>2. i # 1
      BY <2>1, <1>1 DEF Sample
    <2>3. QED
      BY <2>1, <2>2, Popping
  <1>5. QED
    BY <1>1, <1>2, <1>3, <1>4 DEF Ordered

LEMMA OrderedSkip ==
    ASSUME NEW q \in Seq(Objects), q # <<>>, NEW lo \in Nat, NEW hi \in Nat,
           Ordered(q, lo, hi), q[1].kind # "sample"
    PROVE  Ordered(Tail(q), lo, hi)
  <1>1. \A i \in DOMAIN Tail(q) : Tail(q)[i].kind = "sample" => Tail(q)[i].n \in lo..hi
    BY Popping DEF Ordered
  <1>2. \A i, j \in DOMAIN Tail(q) :
          Tail(q)[i].kind = "sample" /\ Tail(q)[j].kind = "sample" /\ i < j
            => Tail(q)[i].n < Tail(q)[j].n
    <2>1. /\ DOMAIN q = 1..Len(q) /\ Len(q) \in Nat
          /\ \A i \in DOMAIN Tail(q) :
               i \in Nat /\ i + 1 \in DOMAIN q /\ Tail(q)[i] = q[i + 1]
      BY Popping
    <2>2. ASSUME NEW i \in DOMAIN Tail(q), NEW j \in DOMAIN Tail(q),
                 Tail(q)[i].kind = "sample", Tail(q)[j].kind = "sample", i < j
          PROVE  Tail(q)[i].n < Tail(q)[j].n
      <3>1. /\ i + 1 \in DOMAIN q /\ j + 1 \in DOMAIN q /\ i + 1 < j + 1
            /\ Tail(q)[i] = q[i + 1] /\ Tail(q)[j] = q[j + 1]
        BY <2>1, <2>2
      <3>2. QED
        BY <2>2, <3>1 DEF Ordered
    <2>3. QED
      BY <2>2
  <1>3. ASSUME NEW k \in lo..hi
        PROVE  \E i \in DOMAIN Tail(q) : Tail(q)[i] = Sample(k)
    <2>1. PICK i \in DOMAIN q : q[i] = Sample(k)
      BY DEF Ordered
    <2>2. i # 1
      BY <2>1 DEF Sample
    <2>3. QED
      BY <2>1, <2>2, Popping
  <1>4. QED
    BY <1>1, <1>2, <1>3 DEF Ordered
(* Serves and Labelled after the first object is taken, by its kind.       *)
LEMMA ServesPop ==
    ASSUME NEW q \in Seq(Objects), q # <<>>, NEW c, NEW i \in DOMAIN Tail(q), NEW p,
           Serves(q, c, i + 1, p),
           NEW d, d = IF q[1].kind = "stream-start" THEN q[1].pad ELSE c
    PROVE  Serves(Tail(q), d, i, p)
  <1>1. /\ \A k \in 1..i : Tail(q)[k] = q[k + 1]
        /\ i \in Nat
    BY Popping
  <1>2. CASE \E j \in 1..(i + 1) :
               /\ q[j].kind = "stream-start" /\ q[j].pad = p
               /\ \A k \in (j + 1)..(i + 1) : q[k].kind # "stream-start"
    <2>1. PICK j \in 1..(i + 1) :
               /\ q[j].kind = "stream-start" /\ q[j].pad = p
               /\ \A k \in (j + 1)..(i + 1) : q[k].kind # "stream-start"
      BY <1>2
    <2>2. CASE j = 1
      <3>1. d = p
        BY <2>1, <2>2
      <3>2. \A k \in 1..i : Tail(q)[k].kind # "stream-start"
        BY <1>1, <2>1, <2>2
      <3>3. QED
        BY <3>1, <3>2 DEF Serves
    <2>3. CASE j # 1
      <3>1. /\ j - 1 \in 1..i
            /\ Tail(q)[j - 1].kind = "stream-start" /\ Tail(q)[j - 1].pad = p
        BY <1>1, <2>1, <2>3
      <3>2. \A k \in ((j - 1) + 1)..i : Tail(q)[k].kind # "stream-start"
        BY <1>1, <2>1, <2>3
      <3>3. QED
        BY <3>1, <3>2 DEF Serves
    <2>4. QED
      BY <2>2, <2>3
  <1>3. CASE c = p /\ \A k \in 1..(i + 1) : q[k].kind # "stream-start"
    BY <1>1, <1>3 DEF Serves
  <1>4. QED
    BY <1>2, <1>3 DEF Serves

LEMMA LabelledPop ==
    ASSUME NEW q \in Seq(Objects), q # <<>>, NEW c, NEW s, Labelled(q, c, s),
           NEW d, d = IF q[1].kind = "stream-start" THEN q[1].pad ELSE c
    PROVE  Labelled(Tail(q), d, s)
  <1> SUFFICES ASSUME NEW i \in DOMAIN Tail(q), Tail(q)[i].kind = "sample"
               PROVE  Serves(Tail(q), d, i, s[Tail(q)[i].n])
    BY DEF Labelled
  <1>1. i + 1 \in DOMAIN q /\ Tail(q)[i] = q[i + 1]
    BY Popping
  <1>2. Serves(q, c, i + 1, s[Tail(q)[i].n])
    BY <1>1 DEF Labelled
  <1>3. QED
    BY <1>2, ServesPop

LEMMA LastServedPop ==
    ASSUME NEW q \in Seq(Objects), q # <<>>, NEW c, NEW p, Serves(q, c, Len(q), p),
           NEW d, d = IF q[1].kind = "stream-start" THEN q[1].pad ELSE c
    PROVE  Serves(Tail(q), d, Len(Tail(q)), p)
  <1>1. /\ Len(q) \in Nat /\ Len(q) # 0 /\ Len(Tail(q)) = Len(q) - 1
        /\ DOMAIN Tail(q) = 1..(Len(q) - 1)
    BY Popping, EmptySeq, LenProperties
  <1>2. CASE Len(q) = 1
    <2>1. d = p
      BY <1>2 DEF Serves
    <2>2. QED
      BY <1>1, <1>2, <2>1 DEF Serves
  <1>3. CASE Len(q) # 1
    <2>1. Len(Tail(q)) \in DOMAIN Tail(q) /\ Len(Tail(q)) + 1 = Len(q)
      BY <1>1, <1>3
    <2>2. Serves(q, c, Len(Tail(q)) + 1, p)
      BY <2>1
    <2>3. QED
      BY <2>1, <2>2, ServesPop
  <1>4. QED
    BY <1>2, <1>3

(* The first sample belongs to the pad the reader is at.                   *)
LEMMA FirstLabel ==
    ASSUME NEW q \in Seq(Objects), q # <<>>, NEW c, NEW s, Labelled(q, c, s),
           q[1].kind = "sample"
    PROVE  c = s[q[1].n]
  <1>1. Serves(q, c, 1, s[q[1].n])
    BY Popping DEF Labelled
  <1>2. QED
    BY <1>1 DEF Serves

-----------------------------------------------------------------------------
(* Appending to the queue.                                                 *)

LEMMA ServesPush ==
    ASSUME NEW q \in Seq(Objects), NEW o \in Objects, NEW c, NEW p,
           NEW i \in 0..Len(q), Serves(q, c, i, p)
    PROVE  Serves(Append(q, o), c, i, p)
  <1>1. \A k \in 1..i : Append(q, o)[k] = q[k]
    BY Pushing
  <1>2. i \in Nat
    BY Pushing
  <1>3. CASE \E j \in 1..i :
               /\ q[j].kind = "stream-start" /\ q[j].pad = p
               /\ \A k \in (j + 1)..i : q[k].kind # "stream-start"
    BY <1>1, <1>2, <1>3 DEF Serves
  <1>4. CASE c = p /\ \A k \in 1..i : q[k].kind # "stream-start"
    BY <1>1, <1>4 DEF Serves
  <1>5. QED
    BY <1>3, <1>4 DEF Serves

LEMMA LastServedPush ==
    ASSUME NEW q \in Seq(Objects), NEW o \in Objects, NEW c, NEW p,
           \/ o.kind = "stream-start" /\ o.pad = p
           \/ o.kind # "stream-start" /\ Serves(q, c, Len(q), p)
    PROVE  Serves(Append(q, o), c, Len(Append(q, o)), p)
  <1> DEFINE r == Append(q, o)
  <1>1. /\ Len(q) \in Nat /\ Len(r) = Len(q) + 1
        /\ \A k \in 1..Len(q) : r[k] = q[k]
        /\ r[Len(q) + 1] = o
    BY Pushing
  <1> HIDE DEF r
  <1>2. CASE o.kind = "stream-start" /\ o.pad = p
    <2>1. /\ Len(r) \in 1..Len(r)
          /\ r[Len(r)].kind = "stream-start" /\ r[Len(r)].pad = p
          /\ \A k \in (Len(r) + 1)..Len(r) : r[k].kind # "stream-start"
      BY <1>1, <1>2
    <2>2. Serves(r, c, Len(r), p)
      BY <2>1 DEF Serves
    <2>3. QED
      BY <2>2 DEF r
  <1>3. CASE o.kind # "stream-start" /\ Serves(q, c, Len(q), p)
    <2>1. CASE \E j \in 1..Len(q) :
               /\ q[j].kind = "stream-start" /\ q[j].pad = p
               /\ \A k \in (j + 1)..Len(q) : q[k].kind # "stream-start"
      <3>1. PICK j \in 1..Len(q) :
               /\ q[j].kind = "stream-start" /\ q[j].pad = p
               /\ \A k \in (j + 1)..Len(q) : q[k].kind # "stream-start"
        BY <2>1
      <3>2. /\ j \in 1..Len(r) /\ r[j].kind = "stream-start" /\ r[j].pad = p
            /\ \A k \in (j + 1)..Len(r) : r[k].kind # "stream-start"
        BY <1>1, <1>3, <3>1
      <3>3. Serves(r, c, Len(r), p)
        BY <3>2 DEF Serves
      <3>4. QED
        BY <3>3 DEF r
    <2>2. CASE c = p /\ \A k \in 1..Len(q) : q[k].kind # "stream-start"
      <3>1. \A k \in 1..Len(r) : r[k].kind # "stream-start"
        BY <1>1, <1>3, <2>2
      <3>2. Serves(r, c, Len(r), p)
        BY <2>2, <3>1 DEF Serves
      <3>3. QED
        BY <3>2 DEF r
    <2>3. QED
      BY <1>3, <2>1, <2>2 DEF Serves
  <1>4. QED
    BY <1>2, <1>3

(* An event after the samples changes nothing for them.                    *)
LEMMA PushEvent ==
    ASSUME NEW q \in Seq(Objects), NEW o \in Objects, o.kind # "sample",
           NEW c, NEW s, NEW lo \in Nat, NEW hi \in Nat,
           Ordered(q, lo, hi), Labelled(q, c, s)
    PROVE  Ordered(Append(q, o), lo, hi) /\ Labelled(Append(q, o), c, s)
  <1>1. /\ Len(q) \in Nat /\ DOMAIN q = 1..Len(q)
        /\ DOMAIN Append(q, o) = 1..(Len(q) + 1)
        /\ \A i \in DOMAIN q : Append(q, o)[i] = q[i]
        /\ Append(q, o)[Len(q) + 1] = o
    BY Pushing
  <1>2. \A i \in DOMAIN Append(q, o) :
          Append(q, o)[i].kind = "sample" => i \in DOMAIN q /\ Append(q, o)[i] = q[i]
    BY <1>1
  <1>3. Ordered(Append(q, o), lo, hi)
    <2>1. \A k \in lo..hi : \E i \in DOMAIN Append(q, o) : Append(q, o)[i] = Sample(k)
      BY <1>1 DEF Ordered
    <2>2. QED
      BY <1>2, <2>1 DEF Ordered
  <1>4. Labelled(Append(q, o), c, s)
    <2> SUFFICES ASSUME NEW i \in DOMAIN Append(q, o), Append(q, o)[i].kind = "sample"
                 PROVE  Serves(Append(q, o), c, i, s[Append(q, o)[i].n])
      BY DEF Labelled
    <2>1. i \in 0..Len(q) /\ i \in DOMAIN q /\ Append(q, o)[i] = q[i]
      BY <1>1, <1>2
    <2>2. Serves(q, c, i, s[q[i].n])
      BY <2>1 DEF Labelled
    <2>3. QED
      BY <2>1, <2>2, ServesPush
  <1>5. QED
    BY <1>3, <1>4

(* The next packet of the file is queued behind the others.                *)
LEMMA PushSample ==
    ASSUME NEW q \in Seq(Objects), NEW c, NEW s \in Seq(Pads), NEW p \in Pads,
           NEW lo \in Nat, lo <= Len(s) + 1, Len(s) + 1 \in Numbers,
           Ordered(q, lo, Len(s)), Labelled(q, c, s), Serves(q, c, Len(q), p)
    PROVE  LET r == Append(q, Sample(Len(s) + 1))
           IN  /\ Ordered(r, lo, Len(s) + 1)
               /\ Labelled(r, c, Append(s, p))
               /\ Serves(r, c, Len(r), p)
  <1> DEFINE h == Len(s) + 1
             o == Sample(h)
             r == Append(q, o)
             t == Append(s, p)
  <1>1. o \in Objects /\ o.kind = "sample" /\ o.n = h
    BY ObjectsMade
  <1>2. /\ Len(q) \in Nat /\ DOMAIN q = 1..Len(q)
        /\ Len(r) = Len(q) + 1
        /\ DOMAIN r = 1..(Len(q) + 1)
        /\ \A i \in DOMAIN q : r[i] = q[i]
        /\ r[Len(q) + 1] = o
    BY <1>1, Pushing
  <1>3. /\ Len(s) \in Nat /\ t[h] = p
        /\ \A k \in 1..Len(s) : t[k] = s[k]
    BY Pushing
  <1>4. o = Sample(h)
    OBVIOUS
  <1>5. r = Append(q, o)
    OBVIOUS
  <1>6. h = Len(s) + 1 /\ h \in Nat
    BY <1>3
  <1> HIDE DEF o, r, h, t
  <1>7. Ordered(r, lo, h)
    <2>1. \A i \in DOMAIN r : r[i].kind = "sample" => r[i].n \in lo..h
      BY <1>1, <1>2, <1>3, <1>6 DEF Ordered
    <2>2. \A i, j \in DOMAIN r :
            r[i].kind = "sample" /\ r[j].kind = "sample" /\ i < j => r[i].n < r[j].n
      BY <1>1, <1>2, <1>3, <1>6 DEF Ordered
    <2>3. ASSUME NEW k \in lo..h PROVE \E i \in DOMAIN r : r[i] = Sample(k)
      <3>1. CASE k = h
        BY <1>2, <1>4, <3>1
      <3>2. CASE k # h
        <4>1. PICK i \in DOMAIN q : q[i] = Sample(k)
          BY <1>3, <1>6, <3>2 DEF Ordered
        <4>2. QED
          BY <1>2, <4>1
      <3>3. QED
        BY <3>1, <3>2
    <2>4. QED
      BY <2>1, <2>2, <2>3 DEF Ordered
  <1>8. Serves(r, c, Len(r), p)
    BY <1>1, <1>5, LastServedPush
  <1>9. Labelled(r, c, t)
    <2> SUFFICES ASSUME NEW i \in DOMAIN r, r[i].kind = "sample"
                 PROVE  Serves(r, c, i, t[r[i].n])
      BY DEF Labelled
    <2>1. CASE i \in DOMAIN q
      <3>1. r[i] = q[i] /\ i \in 0..Len(q)
        BY <1>2, <2>1
      <3>2. q[i].n \in lo..Len(s)
        BY <2>1, <3>1 DEF Ordered
      <3>3. Serves(q, c, i, s[q[i].n])
        BY <2>1, <3>1 DEF Labelled
      <3>4. Serves(r, c, i, s[q[i].n])
        BY <1>1, <1>5, <3>1, <3>3, ServesPush
      <3>5. CASE q[i].n # 0
        <4>1. q[i].n \in 1..Len(s)
          BY <1>3, <3>2, <3>5
        <4>2. QED
          BY <1>3, <3>1, <3>4, <4>1
      <3>6. CASE q[i].n = 0
        <4>1. q[i] \in Objects
          BY <2>1
        <4>2. QED
          BY <3>1, <3>6, <4>1, ObjectKinds, DemuxerAssumption DEF Numbers
      <3>7. QED
        BY <3>5, <3>6
    <2>2. CASE i \notin DOMAIN q
      <3>1. i = Len(r) /\ r[i].n = h
        BY <1>1, <1>2, <2>2
      <3>2. QED
        BY <1>3, <1>8, <3>1
    <2>3. QED
      BY <2>1, <2>2
  <1>10. QED
    BY <1>6, <1>7, <1>8, <1>9 DEF r, o, h, t
-----------------------------------------------------------------------------
(* The inductive invariant.                                               *)

LEMMA Actions ==
    ASSUME Next
    PROVE  \/ StartBusThread \/ Play \/ PlayFails \/ PlayFailsStop
           \/ WaitReady \/ Woken \/ PostExit \/ Join
           \/ StopPipeline \/ Free \/ BusChecked \/ CheckError
           \/ Read \/ Teardown \/ PullEvent \/ PullSample
           \/ PullPending \/ PullEos \/ LookAtEvent \/ LookAtSample
           \/ LookAtEos \/ ReturnPacket \/ ReturnNothing \/ BusThreadEnds
           \/ NoMorePads \/ SetReady \/ EndOfStream \/ EosEvent
           \/ EosMessage \/ PostError
           \/ \E th \in {"app", "bus"} : Pop(th) \/ HandleBusMessage(th)
           \/ \E p \in Pads : PadAdded(p) \/ Switch(p) \/ Push(p)
  BY DEF Next, Application, New, Tear, Reading, Client, BusThread, Streaming

LEMMA Initially == Init => IInv
  <1> SUFFICES ASSUME Init PROVE IInv
    OBVIOUS
  <1> USE DEF Init
  <1>1. TypeOK
    <2>1. AppTypeOK
      BY EmptySeq DEF AppTypeOK, Places, NoPacket
    <2>2. DemuxerTypeOK
      BY EmptySeq DEF DemuxerTypeOK, NoSample
    <2>3. BusTypeOK
      BY EmptySeq DEF BusTypeOK, NoMessage
    <2>4. SrcTypeOK
      BY EmptySeq DEF SrcTypeOK
    <2>5. QED
      BY <2>1, <2>2, <2>3, <2>4 DEF TypeOK
  <1>2. Threads
    BY DEF Threads, InUse, NoMessage
  <1>3. Complete
    BY DEF Complete, HasEos, InUse, NoMessage
  <1>4. Delivery
    BY EmptySeq DEF Delivery, Received, InHand, InQueue, Taken, NoPacket, NoSample
  <1>5. Ending
    BY DEF Ending, Ended, DoneIsLast, HasEos, NoMessage
  <1>6. QED
    BY <1>1, <1>2, <1>3, <1>4, <1>5 DEF IInv

(* The fields of the types that the steps below need.                      *)
LEMMA Types ==
    ASSUME TypeOK
    PROVE  /\ streams \in Seq(Pads) /\ sent \in Seq(Pads)
           /\ queue \in Seq(Objects) /\ bus \in Seq(Messages)
           /\ received \in Seq([n : Numbers, id : Nat])
           /\ DOMAIN streams = 1..Len(streams) /\ Len(streams) \in Nat
           /\ Len(sent) \in Nat /\ Len(received) \in Nat
           /\ DOMAIN received = 1..Len(received)
           /\ DOMAIN queue = 1..Len(queue) /\ Len(queue) \in Nat
           /\ MaxPackets \in Nat
  BY LenProperties, DemuxerAssumption
  DEF TypeOK, AppTypeOK, DemuxerTypeOK, BusTypeOK, SrcTypeOK

(* What the funnel sends before the first buffer of another pad.           *)
LEMMA SwitchQueue ==
    ASSUME NEW q \in Seq(Objects), NEW p \in Pads
    PROVE  /\ Append(q, StreamStart(p)) \in Seq(Objects)
           /\ q \o <<StreamStart(p), OtherEvent>> =
                Append(Append(q, StreamStart(p)), OtherEvent)
           /\ q \o <<StreamStart(p), OtherEvent>> \in Seq(Objects)
  <1> DEFINE a == StreamStart(p)
             b == OtherEvent
             x == q \o <<a, b>>
             y == Append(Append(q, a), b)
  <1>1. a \in Objects /\ b \in Objects
    BY ObjectsMade
  <1> HIDE DEF a, b
  <1>2. /\ Append(q, a) \in Seq(Objects) /\ y \in Seq(Objects)
        /\ Len(q) \in Nat /\ Len(y) = Len(q) + 2
        /\ \A i \in 1..Len(q) : y[i] = q[i]
        /\ y[Len(q) + 1] = a /\ y[Len(q) + 2] = b
    BY <1>1, AppendProperties, LenProperties
  <1>3. <<a, b>> \in Seq(Objects) /\ Len(<<a, b>>) = 2
    BY <1>1
  <1>4. /\ x \in Seq(Objects) /\ Len(x) = Len(q) + 2
        /\ \A i \in 1..(Len(q) + 2) :
             x[i] = IF i <= Len(q) THEN q[i] ELSE <<a, b>>[i - Len(q)]
    BY <1>3, ConcatProperties
  <1>5. x[Len(q) + 1] = a /\ x[Len(q) + 2] = b /\ \A i \in 1..Len(q) : x[i] = q[i]
    BY <1>2, <1>4
  <1>6. \A i \in 1..Len(x) : x[i] = y[i]
    BY <1>2, <1>4, <1>5
  <1> HIDE DEF x, y
  <1>7. x = y
    BY <1>2, <1>4, <1>6, SeqEqual
  <1>8. QED
    BY <1>2, <1>4, <1>7 DEF a, b, x, y

(* What appsink_handle_event does to the stream the reader is at.          *)
LEMMA EventHandled ==
    ASSUME TypeOK, Complete, app \in InUse, NEW e \in Objects, HandleEvent(e),
           UNCHANGED streams
    PROVE  /\ current' \in Nat /\ (current' = current \/ current' + 1 \in DOMAIN streams)
           /\ CurrentPad' = IF e.kind = "stream-start" THEN e.pad ELSE CurrentPad
           /\ state' \in {state, "eos"} /\ waiting' \in {waiting, FALSE}
           /\ state' # state => e.kind = "stream-group-done"
  <1>1. CASE e.kind = "stream-start"
    <2>1. e.pad \in Pads
      BY <1>1, ObjectKinds
    <2>2. PICK i \in DOMAIN streams : streams[i] = e.pad
      BY <2>1 DEF Complete, AllPadsAdded
    <2>3. DOMAIN streams = 1..Len(streams) /\ Len(streams) \in Nat
      BY Types
    <2>4. i - 1 \in StreamIds(e.pad)
      BY <2>2 DEF StreamIds
    <2>5. PICK j \in DOMAIN streams : streams[j] = e.pad /\ current' = j - 1
      BY <1>1, <2>4 DEF HandleEvent, StreamIds
    <2>6. current' \in Nat /\ current' + 1 = j
      BY <2>3, <2>5
    <2>7. CurrentPad' = e.pad
      BY <2>5, <2>6 DEF CurrentPad
    <2>8. UNCHANGED <<state, waiting>>
      BY <1>1 DEF HandleEvent
    <2>9. QED
      BY <1>1, <2>5, <2>6, <2>7, <2>8
  <1>2. CASE e.kind # "stream-start"
    <2>1. UNCHANGED current
      BY <1>2 DEF HandleEvent
    <2>2. CurrentPad' = CurrentPad
      BY <2>1 DEF CurrentPad
    <2>3. current \in Nat
      BY DEF TypeOK, DemuxerTypeOK
    <2>4. QED
      BY <1>2, <2>1, <2>2, <2>3 DEF HandleEvent, SetState
  <1>3. QED
    BY <1>1, <1>2

(* An EOS message comes only from the end of the stream.                   *)
LEMMA PostMessage ==
    ASSUME TypeOK, NEW m \in Messages, Post(m), UNCHANGED popped
    PROVE  HasEos' => HasEos \/ m = "eos"
  <1>1. CASE flushing
    BY <1>1 DEF Post, HasEos
  <1>2. CASE ~flushing
    <2>1. bus \in Seq(Messages) /\ bus' = Append(bus, m)
      BY <1>2, Types DEF Post
    <2>2. \A i \in DOMAIN bus' : bus'[i] = m \/ (i \in DOMAIN bus /\ bus'[i] = bus[i])
      BY <2>1, Pushing
    <2>3. QED
      BY <2>2 DEF HasEos
  <1>3. QED
    BY <1>1, <1>2

LEMMA TakeMessage ==
    ASSUME TypeOK, NEW th \in {"app", "bus"}, Pop(th)
    PROVE  HasEos' => HasEos
  <1>1. bus \in Seq(Messages) /\ bus # <<>> /\ bus' = Tail(bus)
    BY Types DEF Pop
  <1>2. \A i \in DOMAIN bus' : i + 1 \in DOMAIN bus /\ bus'[i] = bus[i + 1]
    BY <1>1, Popping
  <1>3. popped' = [popped EXCEPT ![th] = bus[1]] /\ 1 \in DOMAIN bus
    BY <1>1, Popping DEF Pop
  <1>4. popped \in [{"app", "bus"} -> Messages \union {NoMessage}]
    BY DEF TypeOK, BusTypeOK
  <1>5. QED
    BY <1>2, <1>3, <1>4 DEF HasEos

LEMMA MessageHandled ==
    ASSUME TypeOK, NEW th \in {"app", "bus"}, HandleBusMessage(th)
    PROVE  /\ HasEos' => HasEos
           /\ state' = "eos" => state = "eos" \/ HasEos
           /\ state' # "ready" \/ state = "ready"
  <1>1. popped \in [{"app", "bus"} -> Messages \union {NoMessage}]
    BY DEF TypeOK, BusTypeOK
  <1>2. popped' = [popped EXCEPT ![th] = NoMessage] /\ bus' = bus
    BY DEF HandleBusMessage
  <1>3. HasEos' => HasEos
    BY <1>1, <1>2 DEF HasEos, NoMessage
  <1>4. QED
    BY <1>1, <1>3 DEF HandleBusMessage, SetState, HasEos

LEMMA DoneIsLastPop ==
    ASSUME NEW q \in Seq(Objects), q # <<>>, DoneIsLast(q)
    PROVE  /\ DoneIsLast(Tail(q))
           /\ \A i \in DOMAIN Tail(q) : i + 1 \in DOMAIN q /\ Tail(q)[i] = q[i + 1]
  <1>1. /\ DOMAIN Tail(q) = 1..(Len(q) - 1) /\ Len(q) \in Nat
        /\ \A i \in DOMAIN Tail(q) : i + 1 \in DOMAIN q /\ Tail(q)[i] = q[i + 1]
    BY Popping
  <1>2. ASSUME NEW i \in DOMAIN Tail(q), NEW j \in DOMAIN Tail(q),
               Tail(q)[i].kind = "stream-group-done", Tail(q)[j].kind = "sample"
        PROVE  j < i
    <2>1. j + 1 < i + 1
      BY <1>1, <1>2 DEF DoneIsLast
    <2>2. QED
      BY <1>1, <2>1
  <1>3. QED
    BY <1>1, <1>2 DEF DoneIsLast

LEMMA DoneIsLastPush ==
    ASSUME NEW q \in Seq(Objects), NEW o \in Objects, o.kind # "sample", DoneIsLast(q)
    PROVE  DoneIsLast(Append(q, o))
  <1>1. /\ DOMAIN q = 1..Len(q) /\ Len(q) \in Nat
        /\ DOMAIN Append(q, o) = 1..(Len(q) + 1)
        /\ \A i \in DOMAIN q : Append(q, o)[i] = q[i]
        /\ Append(q, o)[Len(q) + 1] = o
    BY Pushing
  <1>2. QED
    BY <1>1 DEF DoneIsLast

LEMMA TakenIs ==
    ASSUME TypeOK
    PROVE  /\ Taken \in Nat /\ Taken <= Len(received) + 2
           /\ packet = NoPacket /\ pending = NoSample => Taken = Len(received)
           /\ packet # NoPacket /\ pending = NoSample => Taken = Len(received) + 1
           /\ packet = NoPacket /\ pending # NoSample => Taken = Len(received) + 1
           /\ packet # NoPacket /\ pending # NoSample => Taken = Len(received) + 2
  <1>1. Len(received) \in Nat
    BY Types
  <1>2. CASE packet = NoPacket /\ pending = NoSample
    BY <1>1, <1>2 DEF Taken
  <1>3. CASE packet # NoPacket /\ pending = NoSample
    BY <1>1, <1>3 DEF Taken
  <1>4. CASE packet = NoPacket /\ pending # NoSample
    BY <1>1, <1>4 DEF Taken
  <1>5. CASE packet # NoPacket /\ pending # NoSample
    BY <1>1, <1>5 DEF Taken
  <1>6. QED
    BY <1>2, <1>3, <1>4, <1>5

(* A client that reads is at a stream it knows.                            *)
LEMMA CurrentKnown ==
    ASSUME TypeOK, Complete, app \in InUse
    PROVE  current + 1 \in DOMAIN streams
  <1>1. PICK p \in Pads : TRUE
    BY DemuxerAssumption
  <1>2. PICK i \in DOMAIN streams : streams[i] = p
    BY DEF Complete, AllPadsAdded
  <1>3. 1 \in DOMAIN streams
    BY <1>2, Types
  <1>4. QED
    BY <1>3 DEF TypeOK, DemuxerTypeOK

(* The application thread keeps its types.                                 *)
LEMMA AppTypes == IInv /\ [Next]_vars => AppTypeOK'
  <1> SUFFICES ASSUME IInv, [Next]_vars PROVE AppTypeOK'
    OBVIOUS
  <1>0. TypeOK /\ Complete /\ AppTypeOK
    BY DEF IInv, TypeOK
  <1>t. CASE UNCHANGED vars
    BY <1>0, <1>t
    DEF AppTypeOK, vars, appVars, demuxerVars, busVars, srcVars
  <1>1. CASE BusThreadEnds \/ NoMorePads \/ EndOfStream \/ EosEvent \/
            EosMessage \/ PostError
    BY <1>0, <1>1
    DEF BusThreadEnds, NoMorePads, EndOfStream, EosEvent, EosMessage,
        PostError, AppTypeOK, appVars, demuxerVars, busVars, srcVars
  <1>2. CASE StartBusThread
    BY <1>0, <1>2
    DEF StartBusThread, AppTypeOK, Places, appVars, demuxerVars, busVars,
        srcVars
  <1>3. CASE Play
    BY <1>0, <1>3
    DEF Play, AppTypeOK, Places, appVars, demuxerVars, busVars, srcVars
  <1>4. CASE PlayFails
    BY <1>0, <1>4
    DEF PlayFails, AppTypeOK, Places, appVars, demuxerVars, busVars, srcVars
  <1>5. CASE PlayFailsStop
    BY <1>0, <1>5
    DEF PlayFailsStop, AppTypeOK, Places, appVars, demuxerVars, busVars,
        srcVars
  <1>6. CASE WaitReady
    BY <1>0, <1>6
    DEF WaitReady, AppTypeOK, Places, appVars, demuxerVars, busVars, srcVars
  <1>7. CASE Woken
    BY <1>0, <1>7
    DEF Woken, AppTypeOK, Places, appVars, demuxerVars, busVars, srcVars
  <1>8. CASE PostExit
    BY <1>0, <1>8
    DEF PostExit, AppTypeOK, Places, appVars, demuxerVars, busVars, srcVars
  <1>9. CASE Join
    BY <1>0, <1>9
    DEF Join, AppTypeOK, Places, appVars, demuxerVars, busVars, srcVars
  <1>10. CASE StopPipeline
    BY <1>0, <1>10
    DEF StopPipeline, AppTypeOK, Places, appVars, demuxerVars, busVars,
        srcVars
  <1>11. CASE Free
    BY <1>0, <1>11
    DEF Free, AppTypeOK, Places, appVars, demuxerVars, busVars, srcVars
  <1>12. CASE BusChecked
    BY <1>0, <1>12
    DEF BusChecked, AppTypeOK, Places, appVars, demuxerVars, busVars,
        srcVars
  <1>13. CASE CheckError
    BY <1>0, <1>13
    DEF CheckError, AppTypeOK, Places, appVars, demuxerVars, busVars,
        srcVars
  <1>14. CASE Read
    BY <1>0, <1>14
    DEF Read, AppTypeOK, Places, appVars, demuxerVars, busVars, srcVars
  <1>15. CASE Teardown
    BY <1>0, <1>15
    DEF Teardown, AppTypeOK, Places, appVars, demuxerVars, busVars, srcVars
  <1>16. CASE PullEvent
    <2>1. queue \in Seq(Objects) /\ queue # <<>>
      BY <1>0, <1>16, Types DEF PullEvent, NextIsEvent, NextIsSample
    <2>2. Head(queue) \in Objects /\ Tail(queue) \in Seq(Objects)
      BY <2>1, HeadTailProperties
    <2>3. app \in InUse /\ HandleEvent(Head(queue)) /\ UNCHANGED streams
      BY <1>16 DEF PullEvent, InUse, demuxerVars
    <2>4. QED
      BY <1>0, <1>16, <2>2, <2>3, EventHandled
      DEF PullEvent, AppTypeOK, Places, appVars
  <1>17. CASE PullSample
    <2>1. queue \in Seq(Objects) /\ queue # <<>>
      BY <1>0, <1>17, Types DEF PullSample, NextIsEvent, NextIsSample
    <2>2. Head(queue) \in Objects /\ Tail(queue) \in Seq(Objects)
      BY <2>1, HeadTailProperties
    <2>3. Head(queue).n \in Numbers
      BY <1>17, <2>2, ObjectKinds DEF PullSample, NextIsSample
    <2>4. QED
      BY <1>0, <1>17, <2>2, <2>3
      DEF PullSample, AppTypeOK, Places, appVars, DemuxerTypeOK, TypeOK,
          demuxerVars
  <1>18. CASE PullPending
    BY <1>0, <1>18
    DEF PullPending, AppTypeOK, Places, TypeOK, DemuxerTypeOK, NoSample,
        appVars, demuxerVars, busVars, srcVars
  <1>19. CASE PullEos
    BY <1>0, <1>19
    DEF PullEos, AppTypeOK, Places, appVars, demuxerVars, busVars, srcVars
  <1>20. CASE LookAtEvent
    <2>1. queue \in Seq(Objects) /\ queue # <<>>
      BY <1>0, <1>20, Types DEF LookAtEvent, NextIsEvent, NextIsSample
    <2>2. Head(queue) \in Objects /\ Tail(queue) \in Seq(Objects)
      BY <2>1, HeadTailProperties
    <2>3. app \in InUse /\ HandleEvent(Head(queue)) /\ UNCHANGED streams
      BY <1>20 DEF LookAtEvent, InUse, demuxerVars
    <2>4. QED
      BY <1>0, <1>20, <2>2, <2>3, EventHandled
      DEF LookAtEvent, AppTypeOK, Places, appVars
  <1>21. CASE LookAtSample
    BY <1>0, <1>21
    DEF LookAtSample, AppTypeOK, Places, appVars, demuxerVars, busVars,
        srcVars
  <1>22. CASE LookAtEos
    BY <1>0, <1>22
    DEF LookAtEos, AppTypeOK, Places, appVars, demuxerVars, busVars, srcVars
  <1>23. CASE ReturnPacket
    <2>1. Append(received, packet) \in Seq([n : Numbers, id : Nat])
      BY <1>0, <1>23, Pushing DEF ReturnPacket, AppTypeOK
    <2>2. QED
      BY <1>0, <1>23, <2>1 DEF ReturnPacket, AppTypeOK, Places, appVars
  <1>24. CASE ReturnNothing
    BY <1>0, <1>24
    DEF ReturnNothing, AppTypeOK, Places, appVars, demuxerVars, busVars,
        srcVars
  <1>25. CASE SetReady
    BY <1>0, <1>25
    DEF SetReady, AppTypeOK, SetState, appVars, demuxerVars, busVars,
        srcVars
  <1>26. ASSUME NEW th \in {"app", "bus"}, HandleBusMessage(th) PROVE AppTypeOK'
    BY <1>0, <1>26
    DEF HandleBusMessage, AppTypeOK, SetState, appVars, demuxerVars,
        busVars, srcVars
  <1>27. ASSUME NEW th \in {"app", "bus"}, Pop(th) PROVE AppTypeOK'
    BY <1>0, <1>27
    DEF Pop, AppTypeOK, appVars, demuxerVars, busVars, srcVars
  <1>28. ASSUME NEW p \in Pads, PadAdded(p) PROVE AppTypeOK'
    BY <1>0, <1>28
    DEF PadAdded, AppTypeOK, appVars, demuxerVars, busVars, srcVars
  <1>29. ASSUME NEW p \in Pads, Switch(p) PROVE AppTypeOK'
    BY <1>0, <1>29
    DEF Switch, AppTypeOK, appVars, demuxerVars, busVars, srcVars
  <1>30. ASSUME NEW p \in Pads, Push(p) PROVE AppTypeOK'
    BY <1>0, <1>30
    DEF Push, AppTypeOK, appVars, demuxerVars, busVars, srcVars
  <1>31. QED
    BY <1>t, <1>1, <1>2, <1>3, <1>4, <1>5, <1>6, <1>7, <1>8, <1>9, <1>10,
       <1>11, <1>12, <1>13, <1>14, <1>15, <1>16, <1>17, <1>18, <1>19, <1>20,
       <1>21, <1>22, <1>23, <1>24, <1>25, <1>26, <1>27, <1>28, <1>29, <1>30,
       Actions

(* So does the demuxer: the current stream is one of the list.             *)
LEMMA DemuxerTypes == IInv /\ [Next]_vars => DemuxerTypeOK'
  <1> SUFFICES ASSUME IInv, [Next]_vars PROVE DemuxerTypeOK'
    OBVIOUS
  <1>0. TypeOK /\ Complete /\ DemuxerTypeOK
    BY DEF IInv, TypeOK
  <1>t. CASE UNCHANGED vars
    BY <1>0, <1>t
    DEF DemuxerTypeOK, vars, appVars, demuxerVars, busVars, srcVars
  <1>1. CASE StartBusThread \/ Play \/ PlayFails \/ PlayFailsStop \/
            WaitReady \/ Woken
    BY <1>0, <1>1
    DEF StartBusThread, Play, PlayFails, PlayFailsStop, WaitReady, Woken,
        DemuxerTypeOK, appVars, demuxerVars, busVars, srcVars
  <1>2. CASE PostExit \/ StopPipeline \/ Free \/ BusChecked \/
            CheckError \/ Read
    BY <1>0, <1>2
    DEF PostExit, StopPipeline, Free, BusChecked, CheckError, Read,
        DemuxerTypeOK, appVars, demuxerVars, busVars, srcVars
  <1>3. CASE Teardown \/ PullSample \/ PullEos \/ LookAtEos \/
            ReturnPacket \/ ReturnNothing
    BY <1>0, <1>3
    DEF Teardown, PullSample, PullEos, LookAtEos, ReturnPacket,
        ReturnNothing, DemuxerTypeOK, appVars, demuxerVars, busVars, srcVars
  <1>4. CASE BusThreadEnds \/ NoMorePads \/ EndOfStream \/ EosEvent \/
            EosMessage \/ PostError
    BY <1>0, <1>4
    DEF BusThreadEnds, NoMorePads, EndOfStream, EosEvent, EosMessage,
        PostError, DemuxerTypeOK, appVars, demuxerVars, busVars, srcVars
  <1>5. CASE Join
    BY <1>0, <1>5
    DEF Join, DemuxerTypeOK, appVars, demuxerVars, busVars, srcVars
  <1>6. CASE PullEvent
    <2>1. queue \in Seq(Objects) /\ queue # <<>>
      BY <1>0, <1>6, Types DEF PullEvent, NextIsEvent, NextIsSample
    <2>2. Head(queue) \in Objects /\ Tail(queue) \in Seq(Objects)
      BY <2>1, HeadTailProperties
    <2>3. app \in InUse /\ HandleEvent(Head(queue)) /\ UNCHANGED streams
      BY <1>6 DEF PullEvent, InUse, demuxerVars
    <2>4. QED
      BY <1>0, <1>6, <2>2, <2>3, EventHandled
      DEF PullEvent, DemuxerTypeOK, demuxerVars
  <1>7. CASE PullPending
    BY <1>0, <1>7
    DEF PullPending, DemuxerTypeOK, appVars, demuxerVars, busVars, srcVars
  <1>8. CASE LookAtEvent
    <2>1. queue \in Seq(Objects) /\ queue # <<>>
      BY <1>0, <1>8, Types DEF LookAtEvent, NextIsEvent, NextIsSample
    <2>2. Head(queue) \in Objects /\ Tail(queue) \in Seq(Objects)
      BY <2>1, HeadTailProperties
    <2>3. app \in InUse /\ HandleEvent(Head(queue)) /\ UNCHANGED streams
      BY <1>8 DEF LookAtEvent, InUse, demuxerVars
    <2>4. QED
      BY <1>0, <1>8, <2>2, <2>3, EventHandled
      DEF LookAtEvent, DemuxerTypeOK, demuxerVars
  <1>9. CASE LookAtSample
    <2>1. queue \in Seq(Objects) /\ queue # <<>>
      BY <1>0, <1>9, Types DEF LookAtSample, NextIsEvent, NextIsSample
    <2>2. Head(queue) \in Objects /\ Tail(queue) \in Seq(Objects)
      BY <2>1, HeadTailProperties
    <2>3. Head(queue).n \in Numbers
      BY <1>9, <2>2, ObjectKinds DEF LookAtSample, NextIsSample
    <2>4. QED
      BY <1>0, <1>9, <2>2, <2>3 DEF LookAtSample, DemuxerTypeOK, demuxerVars
  <1>10. CASE SetReady
    BY <1>0, <1>10
    DEF SetReady, DemuxerTypeOK, SetState, appVars, demuxerVars, busVars,
        srcVars
  <1>11. ASSUME NEW th \in {"app", "bus"}, HandleBusMessage(th) PROVE DemuxerTypeOK'
    BY <1>0, <1>11
    DEF HandleBusMessage, DemuxerTypeOK, SetState, appVars, demuxerVars,
        busVars, srcVars
  <1>12. ASSUME NEW th \in {"app", "bus"}, Pop(th) PROVE DemuxerTypeOK'
    BY <1>0, <1>12
    DEF Pop, DemuxerTypeOK, appVars, demuxerVars, busVars, srcVars
  <1>13. ASSUME NEW p \in Pads, PadAdded(p) PROVE DemuxerTypeOK'
    <2>1. /\ Append(streams, p) \in Seq(Pads)
          /\ \A i \in DOMAIN streams : i \in DOMAIN Append(streams, p)
      <3>1. streams \in Seq(Pads)
        BY <1>0, Types
      <3>2. QED
        BY <3>1, Pushing
    <2>2. QED
      BY <1>0, <1>13, <2>1 DEF PadAdded, DemuxerTypeOK, demuxerVars
  <1>14. ASSUME NEW p \in Pads, Switch(p) PROVE DemuxerTypeOK'
    BY <1>0, <1>14
    DEF Switch, DemuxerTypeOK, appVars, demuxerVars, busVars, srcVars
  <1>15. ASSUME NEW p \in Pads, Push(p) PROVE DemuxerTypeOK'
    BY <1>0, <1>15
    DEF Push, DemuxerTypeOK, appVars, demuxerVars, busVars, srcVars
  <1>16. QED
    BY <1>t, <1>1, <1>2, <1>3, <1>4, <1>5, <1>6, <1>7, <1>8, <1>9, <1>10,
       <1>11, <1>12, <1>13, <1>14, <1>15, Actions

(* So does the bus.                                                        *)
LEMMA BusTypes == IInv /\ [Next]_vars => BusTypeOK'
  <1> SUFFICES ASSUME IInv, [Next]_vars PROVE BusTypeOK'
    OBVIOUS
  <1>0. TypeOK /\ BusTypeOK
    BY DEF IInv, TypeOK
  <1>m. /\ \A m \in {"error", "eos", "exit"} : Append(bus, m) \in Seq(Messages)
        /\ <<>> \in Seq(Messages)
    <2>1. bus \in Seq(Messages)
      BY <1>0, Types
    <2>2. QED
      BY <2>1, Pushing, EmptySeq DEF Messages
  <1>t. CASE UNCHANGED vars
    BY <1>0, <1>t
    DEF BusTypeOK, vars, appVars, demuxerVars, busVars, srcVars
  <1>1. CASE Play \/ WaitReady \/ Woken \/ Join \/ Free \/ BusChecked
    BY <1>0, <1>1
    DEF Play, WaitReady, Woken, Join, Free, BusChecked, BusTypeOK, appVars,
        demuxerVars, busVars, srcVars
  <1>2. CASE CheckError \/ Read \/ Teardown \/ PullEvent \/ PullSample
            \/ PullPending
    BY <1>0, <1>2
    DEF CheckError, Read, Teardown, PullEvent, PullSample, PullPending,
        BusTypeOK, appVars, demuxerVars, busVars, srcVars
  <1>3. CASE PullEos \/ LookAtEvent \/ LookAtSample \/ LookAtEos \/
            ReturnPacket \/ ReturnNothing
    BY <1>0, <1>3
    DEF PullEos, LookAtEvent, LookAtSample, LookAtEos, ReturnPacket,
        ReturnNothing, BusTypeOK, appVars, demuxerVars, busVars, srcVars
  <1>4. CASE NoMorePads \/ SetReady \/ EndOfStream \/ EosEvent
    BY <1>0, <1>4
    DEF NoMorePads, SetReady, EndOfStream, EosEvent, BusTypeOK, appVars,
        demuxerVars, busVars, srcVars
  <1>5. CASE StartBusThread
    BY <1>0, <1>5
    DEF StartBusThread, BusTypeOK, appVars, demuxerVars, busVars, srcVars
  <1>6. CASE PlayFails
    BY <1>0, <1>m, <1>6
    DEF PlayFails, BusTypeOK, Post, appVars, demuxerVars, busVars, srcVars
  <1>7. CASE PlayFailsStop
    BY <1>0, <1>m, <1>7
    DEF PlayFailsStop, BusTypeOK, appVars, demuxerVars, busVars, srcVars
  <1>8. CASE PostExit
    BY <1>0, <1>m, <1>8
    DEF PostExit, BusTypeOK, Post, appVars, demuxerVars, busVars, srcVars
  <1>9. CASE StopPipeline
    BY <1>0, <1>m, <1>9
    DEF StopPipeline, BusTypeOK, appVars, demuxerVars, busVars, srcVars
  <1>10. CASE BusThreadEnds
    BY <1>0, <1>10
    DEF BusThreadEnds, BusTypeOK, appVars, demuxerVars, busVars, srcVars
  <1>11. CASE EosMessage
    BY <1>0, <1>m, <1>11
    DEF EosMessage, BusTypeOK, Post, appVars, demuxerVars, busVars, srcVars
  <1>12. CASE PostError
    BY <1>0, <1>m, <1>12
    DEF PostError, BusTypeOK, Post, appVars, demuxerVars, busVars, srcVars
  <1>13. ASSUME NEW th \in {"app", "bus"}, HandleBusMessage(th) PROVE BusTypeOK'
    BY <1>0, <1>13
    DEF HandleBusMessage, BusTypeOK, appVars, demuxerVars, busVars, srcVars
  <1>14. ASSUME NEW th \in {"app", "bus"}, Pop(th) PROVE BusTypeOK'
    <2>1. Head(bus) \in Messages /\ Tail(bus) \in Seq(Messages)
      <3>1. bus \in Seq(Messages) /\ bus # <<>>
        BY <1>0, <1>14 DEF Pop, BusTypeOK
      <3>2. QED
        BY <3>1, HeadTailProperties
    <2>2. QED
      BY <1>0, <1>14, <2>1 DEF Pop, BusTypeOK
  <1>15. ASSUME NEW p \in Pads, PadAdded(p) PROVE BusTypeOK'
    BY <1>0, <1>15
    DEF PadAdded, BusTypeOK, appVars, demuxerVars, busVars, srcVars
  <1>16. ASSUME NEW p \in Pads, Switch(p) PROVE BusTypeOK'
    BY <1>0, <1>16
    DEF Switch, BusTypeOK, appVars, demuxerVars, busVars, srcVars
  <1>17. ASSUME NEW p \in Pads, Push(p) PROVE BusTypeOK'
    BY <1>0, <1>17
    DEF Push, BusTypeOK, appVars, demuxerVars, busVars, srcVars
  <1>18. QED
    BY <1>t, <1>1, <1>2, <1>3, <1>4, <1>5, <1>6, <1>7, <1>8, <1>9, <1>10,
       <1>11, <1>12, <1>13, <1>14, <1>15, <1>16, <1>17, Actions

(* So does the streaming thread.                                           *)
LEMMA SrcTypes == IInv /\ [Next]_vars => SrcTypeOK'
  <1> SUFFICES ASSUME IInv, [Next]_vars PROVE SrcTypeOK'
    OBVIOUS
  <1>0. TypeOK /\ Threads /\ SrcTypeOK
    BY DEF IInv, TypeOK
  <1>t. CASE UNCHANGED vars
    BY <1>0, <1>t
    DEF SrcTypeOK, vars, appVars, demuxerVars, busVars, srcVars
  <1>1. CASE StartBusThread \/ PlayFailsStop \/ WaitReady \/ Woken \/
            PostExit \/ Join
    BY <1>0, <1>1
    DEF StartBusThread, PlayFailsStop, WaitReady, Woken, PostExit, Join,
        SrcTypeOK, appVars, demuxerVars, busVars, srcVars
  <1>2. CASE Free \/ BusChecked \/ CheckError \/ Read \/ Teardown \/
            PullPending
    BY <1>0, <1>2
    DEF Free, BusChecked, CheckError, Read, Teardown, PullPending,
        SrcTypeOK, appVars, demuxerVars, busVars, srcVars
  <1>3. CASE PullEos \/ LookAtEos \/ ReturnPacket \/ ReturnNothing \/
            BusThreadEnds
    BY <1>0, <1>3
    DEF PullEos, LookAtEos, ReturnPacket, ReturnNothing, BusThreadEnds,
        SrcTypeOK, appVars, demuxerVars, busVars, srcVars
  <1>4. CASE Play
    BY <1>0, <1>4
    DEF Play, SrcTypeOK, appVars, demuxerVars, busVars, srcVars
  <1>5. CASE PlayFails
    BY <1>0, <1>5
    DEF PlayFails, SrcTypeOK, appVars, demuxerVars, busVars, srcVars
  <1>6. CASE StopPipeline
    BY <1>0, EmptySeq, <1>6
    DEF StopPipeline, SrcTypeOK, appVars, demuxerVars, busVars, srcVars
  <1>7. CASE PullEvent
    <2>1. queue \in Seq(Objects) /\ queue # <<>>
      BY <1>0, <1>7, Types DEF PullEvent, NextIsEvent, NextIsSample
    <2>2. Head(queue) \in Objects /\ Tail(queue) \in Seq(Objects)
      BY <2>1, HeadTailProperties
    <2>3. app \in InUse /\ HandleEvent(Head(queue)) /\ UNCHANGED streams
      BY <1>7 DEF PullEvent, InUse, demuxerVars
    <2>4. QED
      BY <1>0, <1>7, <2>2, <2>3 DEF PullEvent, SrcTypeOK, srcVars
  <1>8. CASE PullSample
    <2>1. queue \in Seq(Objects) /\ queue # <<>>
      BY <1>0, <1>8, Types DEF PullSample, NextIsEvent, NextIsSample
    <2>2. Head(queue) \in Objects /\ Tail(queue) \in Seq(Objects)
      BY <2>1, HeadTailProperties
    <2>3. Head(queue).n \in Numbers
      BY <1>8, <2>2, ObjectKinds DEF PullSample, NextIsSample
    <2>4. QED
      BY <1>0, <1>8, <2>2, <2>3 DEF PullSample, SrcTypeOK, srcVars
  <1>9. CASE LookAtEvent
    <2>1. queue \in Seq(Objects) /\ queue # <<>>
      BY <1>0, <1>9, Types DEF LookAtEvent, NextIsEvent, NextIsSample
    <2>2. Head(queue) \in Objects /\ Tail(queue) \in Seq(Objects)
      BY <2>1, HeadTailProperties
    <2>3. app \in InUse /\ HandleEvent(Head(queue)) /\ UNCHANGED streams
      BY <1>9 DEF LookAtEvent, InUse, demuxerVars
    <2>4. QED
      BY <1>0, <1>9, <2>2, <2>3 DEF LookAtEvent, SrcTypeOK, srcVars
  <1>10. CASE LookAtSample
    <2>1. queue \in Seq(Objects) /\ queue # <<>>
      BY <1>0, <1>10, Types DEF LookAtSample, NextIsEvent, NextIsSample
    <2>2. Head(queue) \in Objects /\ Tail(queue) \in Seq(Objects)
      BY <2>1, HeadTailProperties
    <2>3. Head(queue).n \in Numbers
      BY <1>10, <2>2, ObjectKinds DEF LookAtSample, NextIsSample
    <2>4. QED
      BY <1>0, <1>10, <2>2, <2>3 DEF LookAtSample, SrcTypeOK, srcVars
  <1>11. CASE NoMorePads
    BY <1>0, <1>11
    DEF NoMorePads, SrcTypeOK, appVars, demuxerVars, busVars, srcVars
  <1>12. CASE SetReady
    BY <1>0, <1>12
    DEF SetReady, SrcTypeOK, appVars, demuxerVars, busVars, srcVars
  <1>13. CASE EndOfStream
    <2>1. queue \in Seq(Objects)
      BY <1>0, Types
    <2>2. Append(queue, GroupDoneEvent) \in Seq(Objects)
      BY <2>1, ObjectsMade, Pushing
    <2>3. QED
      BY <1>0, <1>13, <2>2 DEF EndOfStream, SrcTypeOK
  <1>14. CASE EosEvent
    BY <1>0, <1>14
    DEF EosEvent, SrcTypeOK, appVars, demuxerVars, busVars, srcVars
  <1>15. CASE EosMessage
    BY <1>0, <1>15
    DEF EosMessage, SrcTypeOK, appVars, demuxerVars, busVars, srcVars
  <1>16. CASE PostError
    BY <1>0, <1>16
    DEF PostError, SrcTypeOK, appVars, demuxerVars, busVars, srcVars
  <1>17. ASSUME NEW th \in {"app", "bus"}, HandleBusMessage(th) PROVE SrcTypeOK'
    BY <1>0, <1>17
    DEF HandleBusMessage, SrcTypeOK, appVars, demuxerVars, busVars, srcVars
  <1>18. ASSUME NEW th \in {"app", "bus"}, Pop(th) PROVE SrcTypeOK'
    BY <1>0, <1>18
    DEF Pop, SrcTypeOK, appVars, demuxerVars, busVars, srcVars
  <1>19. ASSUME NEW p \in Pads, PadAdded(p) PROVE SrcTypeOK'
    BY <1>0, <1>19
    DEF PadAdded, SrcTypeOK, appVars, demuxerVars, busVars, srcVars
  <1>20. ASSUME NEW p \in Pads, Switch(p) PROVE SrcTypeOK'
    <2>1. queue \in Seq(Objects)
      BY <1>0, Types
    <2>2. queue \o <<StreamStart(p), OtherEvent>> \in Seq(Objects)
      BY <2>1, SwitchQueue
    <2>3. QED
      BY <1>0, <1>20, <2>2 DEF Switch, SrcTypeOK
  <1>21. ASSUME NEW p \in Pads, Push(p) PROVE SrcTypeOK'
    <2>1. Len(sent) + 1 \in Numbers
      <3>1. Len(sent) \in Nat /\ MaxPackets \in Nat
        BY <1>0, Types
      <3>2. Len(sent) < MaxPackets
        BY <1>0, <1>21 DEF Push, Threads
      <3>3. QED
        BY <3>1, <3>2 DEF Numbers
    <2>2. sent \in Seq(Pads) /\ queue \in Seq(Objects)
      BY <1>0, Types
    <2>3. Append(sent, p) \in Seq(Pads) /\ Append(queue, Sample(Len(sent) + 1)) \in Seq(Objects)
      BY <2>1, <2>2, ObjectsMade, Pushing
    <2>4. QED
      BY <1>0, <1>21, <2>3 DEF Push, SrcTypeOK
  <1>22. QED
    BY <1>t, <1>1, <1>2, <1>3, <1>4, <1>5, <1>6, <1>7, <1>8, <1>9, <1>10,
       <1>11, <1>12, <1>13, <1>14, <1>15, <1>16, <1>17, <1>18, <1>19, <1>20,
       <1>21, Actions

LEMMA TypeStep == IInv /\ [Next]_vars => TypeOK'
  BY AppTypes, DemuxerTypes, BusTypes, SrcTypes DEF TypeOK

(* Each thread stays where the others expect it.                           *)
LEMMA ThreadsStep == IInv /\ [Next]_vars => Threads'
  <1> SUFFICES ASSUME IInv, [Next]_vars PROVE Threads'
    OBVIOUS
  <1>0. TypeOK /\ Threads /\ BusTypeOK
    BY DEF IInv, TypeOK
  <1>t. CASE UNCHANGED vars
    BY <1>0, <1>t
    DEF Threads, InUse, vars, appVars, demuxerVars, busVars, srcVars
  <1>1. CASE StartBusThread
    BY <1>0, <1>1
    DEF StartBusThread, Threads, InUse, appVars, demuxerVars, busVars,
        srcVars
  <1>2. CASE Play
    BY <1>0, <1>2
    DEF Play, Threads, InUse, appVars, demuxerVars, busVars, srcVars
  <1>3. CASE PlayFails
    BY <1>0, <1>3
    DEF PlayFails, Threads, InUse, appVars, demuxerVars, busVars, srcVars
  <1>4. CASE PlayFailsStop
    BY <1>0, <1>4
    DEF PlayFailsStop, Threads, InUse, appVars, demuxerVars, busVars,
        srcVars
  <1>5. CASE WaitReady
    BY <1>0, <1>5
    DEF WaitReady, Threads, InUse, appVars, demuxerVars, busVars, srcVars
  <1>6. CASE Woken
    BY <1>0, <1>6
    DEF Woken, Threads, InUse, appVars, demuxerVars, busVars, srcVars
  <1>7. CASE PostExit
    BY <1>0, <1>7
    DEF PostExit, Threads, InUse, appVars, demuxerVars, busVars, srcVars
  <1>8. CASE Join
    BY <1>0, <1>8
    DEF Join, Threads, InUse, appVars, demuxerVars, busVars, srcVars
  <1>9. CASE StopPipeline
    BY <1>0, <1>9
    DEF StopPipeline, Threads, InUse, appVars, demuxerVars, busVars, srcVars
  <1>10. CASE Free
    BY <1>0, <1>10
    DEF Free, Threads, InUse, appVars, demuxerVars, busVars, srcVars
  <1>11. CASE BusChecked
    BY <1>0, <1>11
    DEF BusChecked, Threads, InUse, appVars, demuxerVars, busVars, srcVars
  <1>12. CASE CheckError
    BY <1>0, <1>12
    DEF CheckError, Threads, InUse, appVars, demuxerVars, busVars, srcVars
  <1>13. CASE Read
    BY <1>0, <1>13
    DEF Read, Threads, InUse, appVars, demuxerVars, busVars, srcVars
  <1>14. CASE Teardown
    BY <1>0, <1>14
    DEF Teardown, Threads, InUse, appVars, demuxerVars, busVars, srcVars
  <1>15. CASE PullEvent
    BY <1>0, <1>15
    DEF PullEvent, Threads, InUse, appVars, demuxerVars, busVars, srcVars
  <1>16. CASE PullSample
    BY <1>0, <1>16
    DEF PullSample, Threads, InUse, appVars, demuxerVars, busVars, srcVars
  <1>17. CASE PullPending
    BY <1>0, <1>17
    DEF PullPending, Threads, InUse, appVars, demuxerVars, busVars, srcVars
  <1>18. CASE PullEos
    BY <1>0, <1>18
    DEF PullEos, Threads, InUse, appVars, demuxerVars, busVars, srcVars
  <1>19. CASE LookAtEvent
    BY <1>0, <1>19
    DEF LookAtEvent, Threads, InUse, appVars, demuxerVars, busVars, srcVars
  <1>20. CASE LookAtSample
    BY <1>0, <1>20
    DEF LookAtSample, Threads, InUse, appVars, demuxerVars, busVars, srcVars
  <1>21. CASE LookAtEos
    BY <1>0, <1>21
    DEF LookAtEos, Threads, InUse, appVars, demuxerVars, busVars, srcVars
  <1>22. CASE ReturnPacket
    BY <1>0, <1>22
    DEF ReturnPacket, Threads, InUse, appVars, demuxerVars, busVars, srcVars
  <1>23. CASE ReturnNothing
    BY <1>0, <1>23
    DEF ReturnNothing, Threads, InUse, appVars, demuxerVars, busVars,
        srcVars
  <1>24. CASE BusThreadEnds
    BY <1>0, <1>24
    DEF BusThreadEnds, Threads, InUse, appVars, demuxerVars, busVars,
        srcVars
  <1>25. CASE NoMorePads
    BY <1>0, <1>25
    DEF NoMorePads, Threads, InUse, appVars, demuxerVars, busVars, srcVars
  <1>26. CASE SetReady
    BY <1>0, <1>26
    DEF SetReady, Threads, InUse, appVars, demuxerVars, busVars, srcVars
  <1>27. CASE EndOfStream
    BY <1>0, <1>27
    DEF EndOfStream, Threads, InUse, appVars, demuxerVars, busVars, srcVars
  <1>28. CASE EosEvent
    BY <1>0, <1>28
    DEF EosEvent, Threads, InUse, appVars, demuxerVars, busVars, srcVars
  <1>29. CASE EosMessage
    BY <1>0, <1>29
    DEF EosMessage, Threads, InUse, appVars, demuxerVars, busVars, srcVars
  <1>30. CASE PostError
    BY <1>0, <1>30
    DEF PostError, Threads, InUse, appVars, demuxerVars, busVars, srcVars
  <1>31. ASSUME NEW th \in {"app", "bus"}, HandleBusMessage(th) PROVE Threads'
    BY <1>0, <1>31
    DEF HandleBusMessage, Threads, InUse, BusTypeOK, NoMessage, appVars,
        demuxerVars, busVars, srcVars
  <1>32. ASSUME NEW th \in {"app", "bus"}, Pop(th) PROVE Threads'
    <2>1. app \notin {"new", "play"} /\ UNCHANGED <<app, bus_thread, src, sent, state, told, active>>
      BY <1>0, <1>32 DEF Pop, Threads, appVars, demuxerVars, srcVars
    <2>2. popped \in [{"app", "bus"} -> Messages \union {NoMessage}]
      BY <1>0 DEF BusTypeOK
    <2>3. popped' = [popped EXCEPT ![th] = Head(bus)] /\ TakesMessages(th)
      BY <1>32 DEF Pop
    <2>4. CASE th = "app"
      <3>1. app = "messages" /\ popped'["bus"] = popped["bus"]
        BY <2>2, <2>3, <2>4 DEF TakesMessages
      <3>2. QED
        BY <1>0, <2>1, <3>1 DEF Threads, InUse
    <2>5. CASE th = "bus"
      <3>1. bus_thread = "running" /\ popped'["app"] = popped["app"]
        BY <2>2, <2>3, <2>5 DEF TakesMessages
      <3>2. QED
        BY <1>0, <2>1, <3>1 DEF Threads, InUse
    <2>6. QED
      BY <2>4, <2>5
  <1>33. ASSUME NEW p \in Pads, PadAdded(p) PROVE Threads'
    BY <1>0, <1>33
    DEF PadAdded, Threads, InUse, appVars, demuxerVars, busVars, srcVars
  <1>34. ASSUME NEW p \in Pads, Switch(p) PROVE Threads'
    BY <1>0, <1>34
    DEF Switch, Threads, InUse, appVars, demuxerVars, busVars, srcVars
  <1>35. ASSUME NEW p \in Pads, Push(p) PROVE Threads'
    <2>1. Len(sent) \in Nat
      BY <1>0, Types
    <2>2. QED
      BY <1>0, <1>35 DEF Push, Threads, InUse, appVars, demuxerVars, busVars
  <1>36. QED
    BY <1>t, <1>1, <1>2, <1>3, <1>4, <1>5, <1>6, <1>7, <1>8, <1>9, <1>10,
       <1>11, <1>12, <1>13, <1>14, <1>15, <1>16, <1>17, <1>18, <1>19, <1>20,
       <1>21, <1>22, <1>23, <1>24, <1>25, <1>26, <1>27, <1>28, <1>29, <1>30,
       <1>31, <1>32, <1>33, <1>34, <1>35, Actions

(* No state that ends the wait is set before the last pad is there.        *)
LEMMA CompleteStep == IInv /\ [Next]_vars => Complete'
  <1> SUFFICES ASSUME IInv, [Next]_vars PROVE Complete'
    OBVIOUS
  <1>0. TypeOK /\ Threads /\ Complete
    BY DEF IInv
  <1>t. CASE UNCHANGED vars
    BY <1>0, <1>t
    DEF Complete, InUse, AllPadsAdded, HasEos, vars, appVars, demuxerVars,
        busVars, srcVars
  <1>1. CASE BusThreadEnds
    BY <1>0, <1>1
    DEF BusThreadEnds, Complete, InUse, AllPadsAdded, HasEos, appVars,
        demuxerVars, busVars, srcVars
  <1>2. CASE StartBusThread
    BY <1>0, <1>2
    DEF StartBusThread, Complete, InUse, AllPadsAdded, HasEos, appVars,
        demuxerVars, busVars, srcVars
  <1>3. CASE Play
    BY <1>0, <1>3
    DEF Play, Complete, InUse, AllPadsAdded, HasEos, appVars, demuxerVars,
        busVars, srcVars
  <1>4. CASE PlayFails
    <2>1. HasEos' => HasEos
      BY <1>0, <1>4, PostMessage DEF PlayFails, Messages
    <2>2. QED
      BY <1>0, <1>4, <2>1 DEF PlayFails, Complete, InUse, AllPadsAdded,
          appVars, demuxerVars, srcVars
  <1>5. CASE PlayFailsStop
    BY <1>0, EmptySeq, <1>5
    DEF PlayFailsStop, Complete, InUse, AllPadsAdded, HasEos, appVars,
        demuxerVars, busVars, srcVars
  <1>6. CASE WaitReady
    BY <1>0, <1>6
    DEF WaitReady, Complete, InUse, AllPadsAdded, HasEos, appVars,
        demuxerVars, busVars, srcVars
  <1>7. CASE Woken
    BY <1>0, <1>7
    DEF Woken, Complete, InUse, AllPadsAdded, HasEos, Ready, appVars,
        demuxerVars, busVars, srcVars
  <1>8. CASE PostExit
    <2>1. HasEos' => HasEos
      BY <1>0, <1>8, PostMessage DEF PostExit, Messages
    <2>2. QED
      BY <1>0, <1>8, <2>1 DEF PostExit, Complete, InUse, AllPadsAdded,
          appVars, demuxerVars, srcVars
  <1>9. CASE Join
    BY <1>0, <1>9
    DEF Join, Complete, InUse, AllPadsAdded, HasEos, appVars, demuxerVars,
        busVars, srcVars
  <1>10. CASE StopPipeline
    BY <1>0, EmptySeq, <1>10
    DEF StopPipeline, Complete, InUse, AllPadsAdded, HasEos, appVars,
        demuxerVars, busVars, srcVars
  <1>11. CASE Free
    BY <1>0, <1>11
    DEF Free, Complete, InUse, AllPadsAdded, HasEos, appVars, demuxerVars,
        busVars, srcVars
  <1>12. CASE BusChecked
    BY <1>0, <1>12
    DEF BusChecked, Complete, InUse, AllPadsAdded, HasEos, appVars,
        demuxerVars, busVars, srcVars
  <1>13. CASE CheckError
    BY <1>0, <1>13
    DEF CheckError, Complete, InUse, AllPadsAdded, HasEos, appVars,
        demuxerVars, busVars, srcVars
  <1>14. CASE Read
    BY <1>0, <1>14
    DEF Read, Complete, InUse, AllPadsAdded, HasEos, appVars, demuxerVars,
        busVars, srcVars
  <1>15. CASE Teardown
    BY <1>0, <1>15
    DEF Teardown, Complete, InUse, AllPadsAdded, HasEos, appVars,
        demuxerVars, busVars, srcVars
  <1>16. CASE PullEvent
    <2>1. queue \in Seq(Objects) /\ queue # <<>>
      BY <1>0, <1>16, Types DEF PullEvent, NextIsEvent, NextIsSample
    <2>2. Head(queue) \in Objects /\ Tail(queue) \in Seq(Objects)
      BY <2>1, HeadTailProperties
    <2>3. app \in InUse /\ HandleEvent(Head(queue)) /\ UNCHANGED streams
      BY <1>16 DEF PullEvent, InUse, demuxerVars
    <2>4. AllPadsAdded
      BY <1>0, <2>3 DEF Complete
    <2>5. QED
      BY <2>3, <2>4 DEF Complete, AllPadsAdded
  <1>17. CASE PullSample
    BY <1>0, <1>17
    DEF PullSample, Complete, InUse, AllPadsAdded, HasEos, appVars,
        demuxerVars, busVars, srcVars
  <1>18. CASE PullPending
    BY <1>0, <1>18
    DEF PullPending, Complete, InUse, AllPadsAdded, HasEos, appVars,
        demuxerVars, busVars, srcVars
  <1>19. CASE PullEos
    BY <1>0, <1>19
    DEF PullEos, Complete, InUse, AllPadsAdded, HasEos, appVars,
        demuxerVars, busVars, srcVars
  <1>20. CASE LookAtEvent
    <2>1. queue \in Seq(Objects) /\ queue # <<>>
      BY <1>0, <1>20, Types DEF LookAtEvent, NextIsEvent, NextIsSample
    <2>2. Head(queue) \in Objects /\ Tail(queue) \in Seq(Objects)
      BY <2>1, HeadTailProperties
    <2>3. app \in InUse /\ HandleEvent(Head(queue)) /\ UNCHANGED streams
      BY <1>20 DEF LookAtEvent, InUse, demuxerVars
    <2>4. AllPadsAdded
      BY <1>0, <2>3 DEF Complete
    <2>5. QED
      BY <2>3, <2>4 DEF Complete, AllPadsAdded
  <1>21. CASE LookAtSample
    BY <1>0, <1>21
    DEF LookAtSample, Complete, InUse, AllPadsAdded, HasEos, appVars,
        demuxerVars, busVars, srcVars
  <1>22. CASE LookAtEos
    BY <1>0, <1>22
    DEF LookAtEos, Complete, InUse, AllPadsAdded, HasEos, appVars,
        demuxerVars, busVars, srcVars
  <1>23. CASE ReturnPacket
    BY <1>0, <1>23
    DEF ReturnPacket, Complete, InUse, AllPadsAdded, HasEos, appVars,
        demuxerVars, busVars, srcVars
  <1>24. CASE ReturnNothing
    BY <1>0, <1>24
    DEF ReturnNothing, Complete, InUse, AllPadsAdded, HasEos, appVars,
        demuxerVars, busVars, srcVars
  <1>25. CASE NoMorePads
    BY <1>0, <1>25
    DEF NoMorePads, Complete, InUse, AllPadsAdded, HasEos, appVars,
        demuxerVars, busVars, srcVars
  <1>26. CASE SetReady
    BY <1>0, <1>26
    DEF SetReady, Complete, InUse, AllPadsAdded, HasEos, SetState, appVars,
        demuxerVars, busVars, srcVars
  <1>27. CASE EndOfStream
    BY <1>0, <1>27
    DEF EndOfStream, Complete, InUse, AllPadsAdded, HasEos, appVars,
        demuxerVars, busVars, srcVars
  <1>28. CASE EosEvent
    BY <1>0, <1>28
    DEF EosEvent, Complete, InUse, AllPadsAdded, HasEos, appVars,
        demuxerVars, busVars, srcVars
  <1>29. CASE EosMessage
    <2>1. AllPadsAdded
      BY <1>0, <1>29 DEF EosMessage, Complete
    <2>2. QED
      BY <1>29, <2>1 DEF EosMessage, Complete, AllPadsAdded, demuxerVars
  <1>30. CASE PostError
    <2>1. HasEos' => HasEos
      BY <1>0, <1>30, PostMessage DEF PostError, Messages
    <2>2. QED
      BY <1>0, <1>30, <2>1 DEF PostError, Complete, InUse, AllPadsAdded,
          appVars, demuxerVars, srcVars
  <1>31. ASSUME NEW th \in {"app", "bus"}, HandleBusMessage(th) PROVE Complete'
    <2>1. /\ HasEos' => HasEos
          /\ state' = "eos" => state = "eos" \/ HasEos
          /\ state' # "ready" \/ state = "ready"
      BY <1>0, <1>31, MessageHandled
    <2>2. QED
      BY <1>0, <1>31, <2>1 DEF HandleBusMessage, Complete, InUse, AllPadsAdded
  <1>32. ASSUME NEW th \in {"app", "bus"}, Pop(th) PROVE Complete'
    <2>1. HasEos' => HasEos
      BY <1>0, <1>32, TakeMessage
    <2>2. QED
      BY <1>0, <1>32, <2>1 DEF Pop, Complete, InUse, AllPadsAdded, appVars, demuxerVars, srcVars
  <1>33. ASSUME NEW p \in Pads, PadAdded(p) PROVE Complete'
    <2>1. streams \in Seq(Pads)
      BY <1>0, Types
    <2>2. AllPadsAdded => AllPadsAdded'
      BY <1>33, <2>1, Pushing DEF PadAdded, AllPadsAdded
    <2>3. QED
      BY <1>0, <1>33, <2>2 DEF PadAdded, Complete, InUse, HasEos, appVars, busVars, srcVars
  <1>34. ASSUME NEW p \in Pads, Switch(p) PROVE Complete'
    BY <1>0, <1>34
    DEF Switch, Complete, InUse, AllPadsAdded, HasEos, appVars, demuxerVars,
        busVars, srcVars
  <1>35. ASSUME NEW p \in Pads, Push(p) PROVE Complete'
    BY <1>0, <1>35
    DEF Push, Complete, InUse, AllPadsAdded, HasEos, appVars, demuxerVars,
        busVars, srcVars
  <1>36. QED
    BY <1>t, <1>1, <1>2, <1>3, <1>4, <1>5, <1>6, <1>7, <1>8, <1>9, <1>10,
       <1>11, <1>12, <1>13, <1>14, <1>15, <1>16, <1>17, <1>18, <1>19, <1>20,
       <1>21, <1>22, <1>23, <1>24, <1>25, <1>26, <1>27, <1>28, <1>29, <1>30,
       <1>31, <1>32, <1>33, <1>34, <1>35, Actions

(* The end is announced only behind the last sample.                       *)
LEMMA EndingStep == IInv /\ [Next]_vars => Ending'
  <1> SUFFICES ASSUME IInv, [Next]_vars PROVE Ending'
    OBVIOUS
  <1>0. TypeOK /\ Threads /\ Complete /\ InHand /\ InQueue /\ Ending
    BY DEF IInv, Delivery
  <1>t. CASE UNCHANGED vars
    BY <1>0, <1>t
    DEF Ending, Ended, HasEos, vars, appVars, demuxerVars, busVars, srcVars
  <1>1. CASE StartBusThread \/ WaitReady \/ Join \/ Free \/ BusChecked
            \/ Read
    BY <1>0, <1>1
    DEF StartBusThread, WaitReady, Join, Free, BusChecked, Read, Ending,
        Ended, HasEos, appVars, demuxerVars, busVars, srcVars
  <1>2. CASE Teardown \/ PullPending \/ PullEos \/ LookAtEos \/
            BusThreadEnds
    BY <1>0, <1>2
    DEF Teardown, PullPending, PullEos, LookAtEos, BusThreadEnds, Ending,
        Ended, HasEos, appVars, demuxerVars, busVars, srcVars
  <1>3. CASE Play
    <2>1. state = "idle" /\ ~HasEos /\ told # "last" /\ queue = <<>>
      BY <1>0, <1>3 DEF Play, Threads, InQueue, HasEos, NoMessage
    <2>2. QED
      BY <1>3, <2>1 DEF Play, Ending, Ended, DoneIsLast, HasEos, demuxerVars, busVars
  <1>4. CASE PlayFails
    <2>1. HasEos' => HasEos
      BY <1>0, <1>4, PostMessage DEF PlayFails, Messages
    <2>2. QED
      BY <1>0, <1>4, <2>1 DEF PlayFails, Ending, Ended, appVars, demuxerVars, srcVars
  <1>5. CASE PlayFailsStop
    <2>1. ~HasEos' \/ HasEos
      BY <1>5, EmptySeq DEF PlayFailsStop, HasEos
    <2>2. QED
      BY <1>0, <1>5, <2>1 DEF PlayFailsStop, Ending, Ended, demuxerVars, srcVars
  <1>6. CASE Woken
    BY <1>0, <1>6
    DEF Woken, Ending, Ended, HasEos, appVars, demuxerVars, busVars, srcVars
  <1>7. CASE PostExit
    <2>1. HasEos' => HasEos
      BY <1>0, <1>7, PostMessage DEF PostExit, Messages
    <2>2. QED
      BY <1>0, <1>7, <2>1 DEF PostExit, Ending, Ended, appVars, demuxerVars, srcVars
  <1>8. CASE StopPipeline
    <2>1. queue' = <<>> /\ src' = "stopped" /\ UNCHANGED <<told, sent, received>>
      BY <1>8 DEF StopPipeline
    <2>2. told = "last" => Len(sent) <= Len(received) + 1
      BY <1>0 DEF Ending
    <2>3. QED
      BY <2>1, <2>2, EmptySeq DEF Ending, Ended, DoneIsLast
  <1>9. CASE CheckError
    BY <1>0, <1>9
    DEF CheckError, Ending, Ended, HasEos, appVars, demuxerVars, busVars,
        srcVars
  <1>10. CASE PullEvent
    <2>1. /\ queue \in Seq(Objects) /\ queue # <<>> /\ queue' = Tail(queue)
          /\ UNCHANGED <<src, popped, bus, sent, received>>
      BY <1>0, <1>10, Types DEF PullEvent, NextIsEvent, NextIsSample, busVars
    <2>2. /\ DoneIsLast(queue')
          /\ \A i \in DOMAIN queue' : i + 1 \in DOMAIN queue /\ queue'[i] = queue[i + 1]
      BY <1>0, <2>1, DoneIsLastPop DEF Ending
    <2>3. /\ Head(queue) \in Objects /\ Head(queue) = queue[1] /\ 1 \in DOMAIN queue
          /\ app \in InUse /\ HandleEvent(Head(queue)) /\ UNCHANGED <<streams, told>>
      BY <1>10, <2>1, Popping, HeadTailProperties DEF PullEvent, InUse
    <2>4. state' \in {state, "eos"} /\ (state' # state => queue[1].kind = "stream-group-done")
      BY <1>0, <2>3, EventHandled
    <2>5. CASE state' = state
      BY <1>0, <2>1, <2>2, <2>3, <2>5 DEF Ending, Ended, HasEos
    <2>6. CASE state' # state
      <3>1. Ended
        BY <1>0, <2>3, <2>4, <2>6 DEF Ending
      <3>2. \A i \in DOMAIN queue : queue[i].kind = "sample" => i < 1
        BY <1>0, <2>3, <2>4, <2>6 DEF Ending, DoneIsLast
      <3>3. ASSUME NEW i \in DOMAIN queue', queue'[i].kind = "sample" PROVE FALSE
        <4>1. i \in Nat \ {0} /\ i + 1 \in DOMAIN queue /\ queue[i + 1].kind = "sample"
          BY <2>1, <2>2, <3>3, Popping
        <4>2. QED
          BY <3>2, <4>1
      <3>4. QED
        BY <1>0, <2>1, <2>2, <2>3, <3>1, <3>3 DEF Ending, Ended, HasEos
    <2>7. QED
      BY <2>5, <2>6
  <1>11. CASE PullSample
    <2>1. /\ queue \in Seq(Objects) /\ queue # <<>> /\ queue' = Tail(queue)
          /\ UNCHANGED <<src, popped, bus, sent, received>>
      BY <1>0, <1>11, Types DEF PullSample, NextIsEvent, NextIsSample, busVars
    <2>2. /\ DoneIsLast(queue')
          /\ \A i \in DOMAIN queue' : i + 1 \in DOMAIN queue /\ queue'[i] = queue[i + 1]
      BY <1>0, <2>1, DoneIsLastPop DEF Ending
    <2>3. UNCHANGED <<state, told>>
      BY <1>11 DEF PullSample, demuxerVars
    <2>4. QED
      BY <1>0, <2>1, <2>2, <2>3 DEF Ending, Ended, HasEos
  <1>12. CASE LookAtEvent
    <2>1. /\ queue \in Seq(Objects) /\ queue # <<>> /\ queue' = Tail(queue)
          /\ UNCHANGED <<src, popped, bus, sent, received>>
      BY <1>0, <1>12, Types DEF LookAtEvent, NextIsEvent, NextIsSample, busVars
    <2>2. /\ DoneIsLast(queue')
          /\ \A i \in DOMAIN queue' : i + 1 \in DOMAIN queue /\ queue'[i] = queue[i + 1]
      BY <1>0, <2>1, DoneIsLastPop DEF Ending
    <2>3. /\ Head(queue) \in Objects /\ Head(queue) = queue[1] /\ 1 \in DOMAIN queue
          /\ app \in InUse /\ HandleEvent(Head(queue)) /\ UNCHANGED <<streams, told>>
      BY <1>12, <2>1, Popping, HeadTailProperties DEF LookAtEvent, InUse
    <2>4. state' \in {state, "eos"} /\ (state' # state => queue[1].kind = "stream-group-done")
      BY <1>0, <2>3, EventHandled
    <2>5. CASE state' = state
      BY <1>0, <2>1, <2>2, <2>3, <2>5 DEF Ending, Ended, HasEos
    <2>6. CASE state' # state
      <3>1. Ended
        BY <1>0, <2>3, <2>4, <2>6 DEF Ending
      <3>2. \A i \in DOMAIN queue : queue[i].kind = "sample" => i < 1
        BY <1>0, <2>3, <2>4, <2>6 DEF Ending, DoneIsLast
      <3>3. ASSUME NEW i \in DOMAIN queue', queue'[i].kind = "sample" PROVE FALSE
        <4>1. i \in Nat \ {0} /\ i + 1 \in DOMAIN queue /\ queue[i + 1].kind = "sample"
          BY <2>1, <2>2, <3>3, Popping
        <4>2. QED
          BY <3>2, <4>1
      <3>4. QED
        BY <1>0, <2>1, <2>2, <2>3, <3>1, <3>3 DEF Ending, Ended, HasEos
    <2>7. QED
      BY <2>5, <2>6
  <1>13. CASE LookAtSample
    <2>1. /\ queue \in Seq(Objects) /\ queue # <<>> /\ queue' = Tail(queue)
          /\ UNCHANGED <<src, popped, bus, sent, received>>
      BY <1>0, <1>13, Types DEF LookAtSample, NextIsEvent, NextIsSample, busVars
    <2>2. /\ DoneIsLast(queue')
          /\ \A i \in DOMAIN queue' : i + 1 \in DOMAIN queue /\ queue'[i] = queue[i + 1]
      BY <1>0, <2>1, DoneIsLastPop DEF Ending
    <2>3. UNCHANGED <<state, told>>
      BY <1>13 DEF LookAtSample, demuxerVars
    <2>4. QED
      BY <1>0, <2>1, <2>2, <2>3 DEF Ending, Ended, HasEos
  <1>14. CASE ReturnPacket
    <2>1. /\ received' = Append(received, packet) /\ UNCHANGED <<queue, src, state, sent>>
          /\ HasEos' = HasEos
      BY <1>14 DEF ReturnPacket, demuxerVars, busVars, srcVars, HasEos
    <2>2. Len(received') = Len(received) + 1 /\ Len(received) \in Nat /\ Len(sent) \in Nat
      <3>1. received \in Seq([n : Numbers, id : Nat]) /\ packet \in [n : Numbers, id : Nat]
        BY <1>0, <1>14, Types DEF ReturnPacket, TypeOK, AppTypeOK
      <3>2. QED
        BY <1>0, <2>1, <3>1, Types, Pushing
    <2>3. CASE state = "eos"
      <3>1. Ended /\ \A i \in DOMAIN queue : queue[i].kind # "sample"
        BY <1>0, <2>3 DEF Ending
      <3>2. src # "stopped" /\ Ordered(queue, Taken + 1, Len(sent))
        BY <1>0, <1>14 DEF ReturnPacket, Threads, InUse, InQueue
      <3>3. Taken \in Nat /\ Taken <= Len(received) + 2
        BY <1>0, TakenIs
      <3>4. Len(sent) <= Taken
        <4>1. SUFFICES ASSUME Taken < Len(sent) PROVE FALSE
          BY <2>2, <3>3
        <4>2. PICK i \in DOMAIN queue : queue[i] = Sample(Len(sent))
          BY <2>2, <3>2, <3>3, <4>1 DEF Ordered
        <4>3. QED
          BY <3>1, <4>2 DEF Sample
      <3>5. Len(sent) <= Len(received') + 1
        BY <2>2, <3>3, <3>4
      <3>6. QED
        BY <1>0, <2>1, <3>1, <3>5 DEF Ending, Ended
    <2>4. CASE state # "eos"
      <3>1. told' # "last"
        BY <1>14, <2>4 DEF ReturnPacket
      <3>2. QED
        BY <1>0, <2>1, <3>1 DEF Ending, Ended
    <2>5. QED
      BY <2>3, <2>4
  <1>15. CASE ReturnNothing
    BY <1>0, <1>15
    DEF ReturnNothing, Ending, Ended, HasEos, appVars, demuxerVars, busVars,
        srcVars
  <1>16. CASE NoMorePads
    BY <1>0, <1>16
    DEF NoMorePads, Ending, Ended, HasEos, appVars, demuxerVars, busVars,
        srcVars
  <1>17. CASE SetReady
    BY <1>0, <1>17
    DEF SetReady, Ending, Ended, HasEos, SetState, appVars, demuxerVars,
        busVars, srcVars
  <1>18. CASE EndOfStream
    <2>1. ~Ended /\ Ended' /\ UNCHANGED <<state, popped, bus, told>>
      BY <1>18 DEF EndOfStream, Ended, appVars, demuxerVars, busVars
    <2>2. DoneIsLast(queue')
      BY <1>0, <1>18, DoneIsLastPush, ObjectsMade, Types DEF EndOfStream, Ending
    <2>3. QED
      BY <1>0, <2>1, <2>2 DEF Ending, HasEos
  <1>19. CASE EosEvent
    BY <1>0, <1>19
    DEF EosEvent, Ending, Ended, HasEos, appVars, demuxerVars, busVars,
        srcVars
  <1>20. CASE EosMessage
    <2>1. \A i \in DOMAIN queue : queue[i].kind # "sample"
      BY <1>20 DEF EosMessage, Samples
    <2>2. QED
      BY <1>0, <1>20, <2>1 DEF EosMessage, Ending, Ended, appVars, demuxerVars
  <1>21. CASE PostError
    <2>1. HasEos' => HasEos
      BY <1>0, <1>21, PostMessage DEF PostError, Messages
    <2>2. QED
      BY <1>0, <1>21, <2>1 DEF PostError, Ending, Ended, appVars, demuxerVars, srcVars
  <1>22. ASSUME NEW th \in {"app", "bus"}, HandleBusMessage(th) PROVE Ending'
    <2>1. /\ HasEos' => HasEos
          /\ state' = "eos" => state = "eos" \/ HasEos
      BY <1>0, <1>22, MessageHandled
    <2>2. QED
      BY <1>0, <1>22, <2>1 DEF HandleBusMessage, Ending, Ended
  <1>23. ASSUME NEW th \in {"app", "bus"}, Pop(th) PROVE Ending'
    <2>1. HasEos' => HasEos
      BY <1>0, <1>23, TakeMessage
    <2>2. QED
      BY <1>0, <1>23, <2>1 DEF Pop, Ending, Ended, appVars, demuxerVars, srcVars
  <1>24. ASSUME NEW p \in Pads, PadAdded(p) PROVE Ending'
    BY <1>0, <1>24
    DEF PadAdded, Ending, Ended, HasEos, appVars, demuxerVars, busVars,
        srcVars
  <1>25. ASSUME NEW p \in Pads, Switch(p) PROVE Ending'
    <2>1. ~Ended /\ ~Ended' /\ UNCHANGED <<state, popped, bus, told>>
      BY <1>25 DEF Switch, Ended, appVars, demuxerVars, busVars
    <2>2. queue \in Seq(Objects)
      BY <1>0, Types
    <2>3. \A i \in DOMAIN queue : queue[i].kind # "stream-group-done"
      BY <1>0, <2>1 DEF Ending
    <2>4. \A i \in DOMAIN queue' : queue'[i].kind # "stream-group-done"
      <3>1. CASE queue' = queue
        BY <2>3, <3>1
      <3>2. CASE queue' # queue
        <4>1. queue' = Append(Append(queue, StreamStart(p)), OtherEvent)
          BY <1>25, <2>2, <3>2, SwitchQueue DEF Switch
        <4>2. /\ Append(queue, StreamStart(p)) \in Seq(Objects)
              /\ \A i \in DOMAIN Append(queue, StreamStart(p)) :
                   Append(queue, StreamStart(p))[i].kind # "stream-group-done"
          BY <2>2, <2>3, ObjectsMade, Pushing
        <4>3. QED
          BY <4>1, <4>2, ObjectsMade, Pushing
      <3>3. QED
        BY <3>1, <3>2
    <2>5. QED
      BY <1>0, <2>1, <2>4 DEF Ending, DoneIsLast, HasEos
  <1>26. ASSUME NEW p \in Pads, Push(p) PROVE Ending'
    <2>1. ~Ended /\ ~Ended' /\ UNCHANGED <<state, popped, bus, told>>
      BY <1>26 DEF Push, Ended, appVars, demuxerVars, busVars
    <2>2. queue \in Seq(Objects) /\ Len(sent) + 1 \in Numbers
      BY <1>0, <1>26, Types DEF Push, Threads, Numbers
    <2>3. \A i \in DOMAIN queue' : queue'[i].kind # "stream-group-done"
      BY <1>0, <1>26, <2>1, <2>2, ObjectsMade, Pushing DEF Push, Ending
    <2>4. QED
      BY <1>0, <2>1, <2>3 DEF Ending, DoneIsLast, HasEos
  <1>27. QED
    BY <1>t, <1>1, <1>2, <1>3, <1>4, <1>5, <1>6, <1>7, <1>8, <1>9, <1>10,
       <1>11, <1>12, <1>13, <1>14, <1>15, <1>16, <1>17, <1>18, <1>19, <1>20,
       <1>21, <1>22, <1>23, <1>24, <1>25, <1>26, Actions

(* What was received stays a prefix of the file.                           *)
LEMMA ReceivedStep == IInv /\ [Next]_vars => Received'
  <1> SUFFICES ASSUME IInv, [Next]_vars PROVE Received'
    OBVIOUS
  <1>0. TypeOK /\ InHand /\ Received
    BY DEF IInv, Delivery
  <1>t. CASE UNCHANGED vars
    BY <1>0, <1>t
    DEF Received, IsOf, vars, appVars, demuxerVars, busVars, srcVars
  <1>1. CASE StartBusThread \/ Play \/ PlayFails \/ PlayFailsStop \/
            WaitReady \/ Woken
    BY <1>0, <1>1
    DEF StartBusThread, Play, PlayFails, PlayFailsStop, WaitReady, Woken,
        Received, IsOf, appVars, demuxerVars, busVars, srcVars
  <1>2. CASE PostExit \/ Join \/ StopPipeline \/ Free \/ BusChecked \/
            CheckError
    BY <1>0, <1>2
    DEF PostExit, Join, StopPipeline, Free, BusChecked, CheckError,
        Received, IsOf, appVars, demuxerVars, busVars, srcVars
  <1>3. CASE Read \/ Teardown \/ PullEvent \/ PullSample \/ PullPending
            \/ PullEos
    BY <1>0, <1>3
    DEF Read, Teardown, PullEvent, PullSample, PullPending, PullEos,
        Received, IsOf, appVars, demuxerVars, busVars, srcVars
  <1>4. CASE LookAtEvent \/ LookAtSample \/ LookAtEos \/ ReturnNothing
            \/ BusThreadEnds \/ NoMorePads
    BY <1>0, <1>4
    DEF LookAtEvent, LookAtSample, LookAtEos, ReturnNothing, BusThreadEnds,
        NoMorePads, Received, IsOf, appVars, demuxerVars, busVars, srcVars
  <1>5. CASE SetReady \/ EndOfStream \/ EosEvent \/ EosMessage \/
            PostError
    BY <1>0, <1>5
    DEF SetReady, EndOfStream, EosEvent, EosMessage, PostError, Received,
        IsOf, appVars, demuxerVars, busVars, srcVars
  <1>6. CASE ReturnPacket
    <2>1. received \in Seq([n : Numbers, id : Nat]) /\ packet \in [n : Numbers, id : Nat]
      BY <1>0, <1>6, Types DEF ReturnPacket, TypeOK, AppTypeOK
    <2>2. /\ Len(received) \in Nat /\ DOMAIN received' = 1..(Len(received) + 1)
          /\ \A i \in DOMAIN received : received'[i] = received[i]
          /\ received'[Len(received) + 1] = packet
      BY <1>6, <2>1, Pushing DEF ReturnPacket
    <2>3. packet.n = Len(received) + 1 /\ IsOf(packet.id, packet.n) /\ packet.n <= Len(sent)
      <3>1. Taken <= Len(sent) /\ Taken >= Len(received) + 1 /\ Taken \in Nat
        BY <1>0, <2>2, <1>6, TakenIs DEF ReturnPacket, InHand
      <3>2. Len(sent) \in Nat
        BY <1>0, Types
      <3>3. packet.n = Len(received) + 1 /\ IsOf(packet.id, packet.n)
        BY <1>0, <1>6 DEF InHand, ReturnPacket
      <3>4. QED
        BY <2>2, <3>1, <3>2, <3>3
    <2>4. UNCHANGED <<streams, sent>>
      BY <1>6 DEF ReturnPacket, demuxerVars, srcVars
    <2>5. \A i \in DOMAIN received' : i \in DOMAIN received \/ i = Len(received) + 1
      BY <1>0, <2>2, Types
    <2>6. QED
      BY <1>0, <2>2, <2>3, <2>4, <2>5 DEF Received, IsOf
  <1>7. ASSUME NEW th \in {"app", "bus"}, HandleBusMessage(th) PROVE Received'
    BY <1>0, <1>7
    DEF HandleBusMessage, Received, IsOf, appVars, demuxerVars, busVars,
        srcVars
  <1>8. ASSUME NEW th \in {"app", "bus"}, Pop(th) PROVE Received'
    BY <1>0, <1>8
    DEF Pop, Received, IsOf, appVars, demuxerVars, busVars, srcVars
  <1>9. ASSUME NEW p \in Pads, PadAdded(p) PROVE Received'
    <2>1. streams \in Seq(Pads)
      BY <1>0, Types
    <2>2. \A i \in DOMAIN streams : i \in DOMAIN streams' /\ streams'[i] = streams[i]
      BY <1>9, <2>1, Pushing DEF PadAdded
    <2>3. UNCHANGED <<received, sent>>
      BY <1>9 DEF PadAdded, appVars, srcVars
    <2>4. QED
      BY <1>0, <2>2, <2>3 DEF Received, IsOf
  <1>10. ASSUME NEW p \in Pads, Switch(p) PROVE Received'
    BY <1>0, <1>10
    DEF Switch, Received, IsOf, appVars, demuxerVars, busVars, srcVars
  <1>11. ASSUME NEW p \in Pads, Push(p) PROVE Received'
    <2>1. sent \in Seq(Pads) /\ DOMAIN received = 1..Len(received) /\ Len(received) \in Nat
      BY <1>0, Types
    <2>2. /\ Len(sent) \in Nat /\ Len(sent') = Len(sent) + 1
          /\ \A i \in 1..Len(sent) : sent'[i] = sent[i]
      BY <1>11, <2>1, Pushing DEF Push
    <2>3. UNCHANGED <<received, streams>>
      BY <1>11 DEF Push, appVars, demuxerVars
    <2>4. ASSUME NEW i \in DOMAIN received
          PROVE  received[i].n = i /\ i <= Len(sent') /\ IsOf(received[i].id, i)'
      <3>1. i \in 1..Len(sent) /\ received[i].n = i /\ IsOf(received[i].id, i)
        BY <1>0, <2>1, <2>2 DEF Received
      <3>2. QED
        BY <2>2, <2>3, <3>1 DEF IsOf
    <2>5. QED
      BY <2>3, <2>4 DEF Received
  <1>12. QED
    BY <1>t, <1>1, <1>2, <1>3, <1>4, <1>5, <1>6, <1>7, <1>8, <1>9, <1>10,
       <1>11, Actions

(* The packet in hand and the one set aside come next.                     *)
LEMMA InHandStep == IInv /\ [Next]_vars => InHand'
  <1> SUFFICES ASSUME IInv, [Next]_vars PROVE InHand'
    OBVIOUS
  <1>0. TypeOK /\ Threads /\ Complete /\ InHand /\ InQueue
    BY DEF IInv, Delivery
  <1>t. CASE UNCHANGED vars
    BY <1>0, <1>t
    DEF InHand, IsOf, Taken, CurrentPad, vars, appVars, demuxerVars,
        busVars, srcVars
  <1>1. CASE BusThreadEnds \/ NoMorePads \/ SetReady \/ EndOfStream \/
            EosEvent \/ EosMessage
    BY <1>0, <1>1
    DEF BusThreadEnds, NoMorePads, SetReady, EndOfStream, EosEvent,
        EosMessage, InHand, IsOf, Taken, CurrentPad, appVars, demuxerVars,
        busVars, srcVars
  <1>2. CASE PostError
    BY <1>0, <1>2
    DEF PostError, InHand, IsOf, Taken, CurrentPad, appVars, demuxerVars,
        busVars, srcVars
  <1>3. CASE StartBusThread
    BY <1>0, <1>3
    DEF StartBusThread, InHand, IsOf, Taken, CurrentPad, appVars,
        demuxerVars, busVars, srcVars
  <1>4. CASE Play
    BY <1>0, <1>4
    DEF Play, InHand, IsOf, Taken, CurrentPad, appVars, demuxerVars,
        busVars, srcVars
  <1>5. CASE PlayFails
    BY <1>0, <1>5
    DEF PlayFails, InHand, IsOf, Taken, CurrentPad, appVars, demuxerVars,
        busVars, srcVars
  <1>6. CASE PlayFailsStop
    BY <1>0, <1>6
    DEF PlayFailsStop, InHand, IsOf, Taken, CurrentPad, appVars,
        demuxerVars, busVars, srcVars
  <1>7. CASE WaitReady
    BY <1>0, <1>7
    DEF WaitReady, InHand, IsOf, Taken, CurrentPad, appVars, demuxerVars,
        busVars, srcVars
  <1>8. CASE Woken
    BY <1>0, <1>8
    DEF Woken, InHand, IsOf, Taken, CurrentPad, appVars, demuxerVars,
        busVars, srcVars
  <1>9. CASE PostExit
    BY <1>0, <1>9
    DEF PostExit, InHand, IsOf, Taken, CurrentPad, appVars, demuxerVars,
        busVars, srcVars
  <1>10. CASE Join
    BY <1>0, <1>10
    DEF Join, InHand, IsOf, Taken, CurrentPad, appVars, demuxerVars,
        busVars, srcVars
  <1>11. CASE StopPipeline
    BY <1>0, <1>11
    DEF StopPipeline, InHand, IsOf, Taken, CurrentPad, appVars, demuxerVars,
        busVars, srcVars
  <1>12. CASE Free
    BY <1>0, <1>12
    DEF Free, InHand, IsOf, Taken, CurrentPad, appVars, demuxerVars,
        busVars, srcVars
  <1>13. CASE BusChecked
    BY <1>0, <1>13
    DEF BusChecked, InHand, IsOf, Taken, CurrentPad, appVars, demuxerVars,
        busVars, srcVars
  <1>14. CASE CheckError
    BY <1>0, <1>14
    DEF CheckError, InHand, IsOf, Taken, CurrentPad, appVars, demuxerVars,
        busVars, srcVars
  <1>15. CASE Read
    BY <1>0, <1>15
    DEF Read, InHand, IsOf, Taken, CurrentPad, appVars, demuxerVars,
        busVars, srcVars
  <1>16. CASE Teardown
    BY <1>0, <1>16
    DEF Teardown, InHand, IsOf, Taken, CurrentPad, appVars, demuxerVars,
        busVars, srcVars
  <1>17. CASE PullEvent
    <2>1. UNCHANGED <<app, packet, received, streams, pending, sent>> /\ pending = NoSample
      BY <1>17 DEF PullEvent
    <2>2. QED
      BY <1>0, <2>1 DEF InHand, IsOf, Taken
  <1>18. CASE PullSample
    <2>1. /\ queue \in Seq(Objects) /\ queue # <<>> /\ Head(queue) = queue[1]
          /\ queue[1].kind = "sample" /\ queue' = Tail(queue)
      BY <1>0, <1>18, Types, Popping DEF PullSample, NextIsSample
    <2>2. /\ Ordered(queue, Taken + 1, Len(sent)) /\ Labelled(queue, CurrentPad, sent)
          /\ pending = NoSample
      BY <1>0, <1>18 DEF PullSample, Threads, InUse, InHand, InQueue
    <2>3. Len(sent) \in Nat /\ Taken \in Nat
      BY <1>0, Types, TakenIs
    <2>4. queue[1].n = Taken + 1 /\ Taken + 1 <= Len(sent)
      BY <2>1, <2>2, <2>3, OrderedPop
    <2>5. CurrentPad = sent[Taken + 1]
      BY <2>1, <2>2, <2>4, FirstLabel
    <2>6. UNCHANGED <<received, sent, streams, current>>
      BY <1>18 DEF PullSample, demuxerVars
    <2>7. packet = NoPacket /\ Taken = Len(received)
      BY <1>0, <1>18, <2>2, TakenIs DEF PullSample, InHand
    <2>8. current + 1 \in DOMAIN streams
      BY <1>0, <1>18, CurrentKnown DEF PullSample, InUse
    <2>9. packet' = [n |-> Taken + 1, id |-> current] /\ pending' = NoSample /\ app' = "look"
      BY <1>18, <2>1, <2>2, <2>4 DEF PullSample, demuxerVars
    <2>10. packet' # NoPacket
      BY <2>3, <2>9 DEF NoPacket
    <2>11. Taken' = Taken + 1
      BY <2>3, <2>6, <2>7, <2>9, <2>10 DEF Taken
    <2>12. CurrentPad = streams[current + 1]
      BY <2>8 DEF CurrentPad
    <2>13. IsOf(packet.id, packet.n)'
      BY <2>5, <2>6, <2>8, <2>9, <2>12 DEF IsOf
    <2>14. QED
      BY <2>4, <2>6, <2>7, <2>9, <2>11, <2>13 DEF InHand
  <1>19. CASE PullPending
    <2>1. /\ packet = NoPacket /\ pending = Taken /\ CurrentPad = sent[pending]
          /\ Taken <= Len(sent)
      BY <1>0, <1>19 DEF PullPending, InHand
    <2>2. Taken = Len(received) + 1 /\ Len(received) \in Nat
      BY <1>0, <2>1, <1>19, TakenIs, Types DEF PullPending
    <2>3. current + 1 \in DOMAIN streams
      BY <1>0, <1>19, CurrentKnown DEF PullPending, InUse
    <2>4. /\ packet' = [n |-> pending, id |-> current] /\ pending' = NoSample /\ app' = "look"
          /\ UNCHANGED <<received, sent, streams>>
      BY <1>19 DEF PullPending, srcVars
    <2>5. packet' # NoPacket
      BY <2>1, <2>2, <2>4 DEF NoPacket
    <2>6. Taken' = Taken
      <3>1. Taken' = Len(received) + 1
        BY <2>2, <2>4, <2>5 DEF Taken
      <3>2. QED
        BY <2>2, <3>1
    <2>7. CurrentPad = streams[current + 1]
      BY <2>3 DEF CurrentPad
    <2>8. IsOf(packet.id, packet.n)'
      BY <2>1, <2>3, <2>4, <2>7 DEF IsOf
    <2>9. QED
      BY <2>1, <2>2, <2>4, <2>6, <2>8 DEF InHand
  <1>20. CASE PullEos
    BY <1>0, <1>20
    DEF PullEos, InHand, IsOf, Taken, CurrentPad, appVars, demuxerVars,
        busVars, srcVars
  <1>21. CASE LookAtEvent
    <2>1. /\ UNCHANGED <<packet, received, streams, pending, sent>> /\ pending = NoSample
          /\ app' \in {"look", "result"}
      BY <1>0, <1>21 DEF LookAtEvent, InHand
    <2>2. QED
      BY <1>0, <2>1 DEF InHand, IsOf, Taken
  <1>22. CASE LookAtSample
    <2>1. /\ queue \in Seq(Objects) /\ queue # <<>> /\ Head(queue) = queue[1]
          /\ queue[1].kind = "sample" /\ queue' = Tail(queue)
      BY <1>0, <1>22, Types, Popping DEF LookAtSample, NextIsSample
    <2>2. /\ Ordered(queue, Taken + 1, Len(sent)) /\ Labelled(queue, CurrentPad, sent)
          /\ pending = NoSample
      BY <1>0, <1>22 DEF LookAtSample, Threads, InUse, InHand, InQueue
    <2>3. Len(sent) \in Nat /\ Taken \in Nat
      BY <1>0, Types, TakenIs
    <2>4. queue[1].n = Taken + 1 /\ Taken + 1 <= Len(sent)
      BY <2>1, <2>2, <2>3, OrderedPop
    <2>5. CurrentPad = sent[Taken + 1]
      BY <2>1, <2>2, <2>4, FirstLabel
    <2>6. UNCHANGED <<received, sent, streams, current>>
      BY <1>22 DEF LookAtSample, demuxerVars
    <2>7. pending' = Taken + 1 /\ UNCHANGED packet /\ app' = "result"
      BY <1>22, <2>1, <2>4 DEF LookAtSample
    <2>8. pending' # NoSample
      BY <2>3, <2>7 DEF NoSample
    <2>9. Taken' = Taken + 1
      <3>1. Len(received) \in Nat
        BY <1>0, Types
      <3>2. QED
        BY <2>2, <2>6, <2>7, <2>8, <3>1 DEF Taken
    <2>10. CurrentPad' = CurrentPad
      BY <2>6 DEF CurrentPad
    <2>11. packet # NoPacket => packet.n = Len(received) + 1 /\ IsOf(packet.id, packet.n)
      BY <1>0 DEF InHand
    <2>12. QED
      BY <2>4, <2>5, <2>6, <2>7, <2>9, <2>10, <2>11 DEF InHand, IsOf
  <1>23. CASE LookAtEos
    BY <1>0, <1>23
    DEF LookAtEos, InHand, IsOf, Taken, CurrentPad, appVars, demuxerVars,
        busVars, srcVars
  <1>24. CASE ReturnPacket
    <2>1. /\ received' = Append(received, packet) /\ packet' = NoPacket /\ app' = "user"
          /\ UNCHANGED <<sent, streams, current, pending>> /\ packet # NoPacket
      BY <1>24 DEF ReturnPacket, demuxerVars, srcVars
    <2>2. Len(received') = Len(received) + 1 /\ Len(received) \in Nat
      <3>1. received \in Seq([n : Numbers, id : Nat]) /\ packet \in [n : Numbers, id : Nat]
        BY <1>0, <2>1, Types DEF TypeOK, AppTypeOK
      <3>2. QED
        BY <2>1, <3>1, Pushing
    <2>3. Taken' = Taken
      BY <2>1, <2>2 DEF Taken
    <2>4. CurrentPad' = CurrentPad
      BY <2>1 DEF CurrentPad
    <2>5. QED
      BY <1>0, <2>1, <2>3, <2>4 DEF InHand
  <1>25. CASE ReturnNothing
    BY <1>0, <1>25
    DEF ReturnNothing, InHand, IsOf, Taken, CurrentPad, appVars,
        demuxerVars, busVars, srcVars
  <1>26. ASSUME NEW th \in {"app", "bus"}, HandleBusMessage(th) PROVE InHand'
    BY <1>0, <1>26
    DEF HandleBusMessage, InHand, IsOf, Taken, CurrentPad, appVars,
        demuxerVars, busVars, srcVars
  <1>27. ASSUME NEW th \in {"app", "bus"}, Pop(th) PROVE InHand'
    BY <1>0, <1>27
    DEF Pop, InHand, IsOf, Taken, CurrentPad, appVars, demuxerVars, busVars,
        srcVars
  <1>28. ASSUME NEW p \in Pads, PadAdded(p) PROVE InHand'
    <2>1. sent = <<>> /\ Taken <= Len(sent) /\ UNCHANGED <<packet, pending, received, sent>>
      BY <1>0, <1>28 DEF PadAdded, InHand, InQueue, appVars, srcVars
    <2>2. Taken = 0 /\ Len(received) \in Nat
      BY <1>0, <2>1, EmptySeq, TakenIs, Types
    <2>3. packet = NoPacket /\ pending = NoSample
      BY <1>0, <2>2, TakenIs
    <2>4. Taken' = Taken /\ UNCHANGED pending
      BY <1>28, <2>1 DEF Taken, PadAdded
    <2>5. QED
      BY <1>0, <2>1, <2>3, <2>4 DEF InHand
  <1>29. ASSUME NEW p \in Pads, Switch(p) PROVE InHand'
    BY <1>0, <1>29
    DEF Switch, InHand, IsOf, Taken, CurrentPad, appVars, demuxerVars,
        busVars, srcVars
  <1>30. ASSUME NEW p \in Pads, Push(p) PROVE InHand'
    <2>1. sent \in Seq(Pads)
      BY <1>0, Types
    <2>2. /\ Len(sent) \in Nat /\ Len(sent') = Len(sent) + 1
          /\ \A i \in 1..Len(sent) : sent'[i] = sent[i]
      BY <1>30, <2>1, Pushing DEF Push
    <2>3. UNCHANGED <<received, packet, app, streams, current, pending, Taken, CurrentPad>>
      BY <1>30 DEF Push, appVars, demuxerVars, Taken, CurrentPad
    <2>4. Taken \in Nat /\ Taken <= Len(sent) /\ Taken <= Len(sent')
      BY <1>0, <2>2, TakenIs DEF InHand
    <2>5. ASSUME packet # NoPacket
          PROVE  packet.n = Len(received) + 1 /\ IsOf(packet.id, packet.n)' /\ app \in {"look", "result"}
      <3>1. packet.n = Len(received) + 1 /\ IsOf(packet.id, packet.n) /\ app \in {"look", "result"}
        BY <1>0, <2>5 DEF InHand
      <3>2. Taken >= Len(received) + 1 /\ Len(received) \in Nat
        BY <1>0, <2>5, TakenIs, Types
      <3>3. packet.n \in 1..Len(sent)
        BY <2>2, <2>4, <3>1, <3>2
      <3>4. QED
        BY <2>2, <2>3, <3>1, <3>3 DEF IsOf
    <2>6. ASSUME pending # NoSample
          PROVE  pending = Taken /\ CurrentPad = sent'[pending] /\ app # "look"
      <3>1. pending = Taken /\ CurrentPad = sent[pending] /\ app # "look"
        BY <1>0, <2>6 DEF InHand
      <3>2. pending \in 1..Len(sent)
        BY <2>2, <2>4, <2>6, <3>1 DEF NoSample
      <3>3. QED
        BY <2>2, <3>1, <3>2
    <2>7. QED
      BY <2>3, <2>4, <2>5, <2>6 DEF InHand
  <1>31. QED
    BY <1>t, <1>1, <1>2, <1>3, <1>4, <1>5, <1>6, <1>7, <1>8, <1>9, <1>10,
       <1>11, <1>12, <1>13, <1>14, <1>15, <1>16, <1>17, <1>18, <1>19, <1>20,
       <1>21, <1>22, <1>23, <1>24, <1>25, <1>26, <1>27, <1>28, <1>29, <1>30,
       Actions

(* And the queue holds the rest.                                           *)
LEMMA InQueueStep == IInv /\ [Next]_vars => InQueue'
  <1> SUFFICES ASSUME IInv, [Next]_vars PROVE InQueue'
    OBVIOUS
  <1>0. TypeOK /\ Threads /\ Complete /\ InHand /\ InQueue
    BY DEF IInv, Delivery
  <1>t. CASE UNCHANGED vars
    BY <1>0, <1>t
    DEF InQueue, Taken, CurrentPad, vars, appVars, demuxerVars, busVars,
        srcVars
  <1>1. CASE StartBusThread \/ PlayFails \/ PlayFailsStop \/ WaitReady
            \/ Woken \/ PostExit
    BY <1>0, <1>1
    DEF StartBusThread, PlayFails, PlayFailsStop, WaitReady, Woken,
        PostExit, InQueue, Taken, CurrentPad, appVars, demuxerVars, busVars,
        srcVars
  <1>2. CASE Join \/ Free \/ BusChecked \/ CheckError \/ Read \/
            Teardown
    BY <1>0, <1>2
    DEF Join, Free, BusChecked, CheckError, Read, Teardown, InQueue, Taken,
        CurrentPad, appVars, demuxerVars, busVars, srcVars
  <1>3. CASE PullEos \/ LookAtEos \/ ReturnNothing \/ BusThreadEnds \/
            PostError
    BY <1>0, <1>3
    DEF PullEos, LookAtEos, ReturnNothing, BusThreadEnds, PostError,
        InQueue, Taken, CurrentPad, appVars, demuxerVars, busVars, srcVars
  <1>4. CASE Play
    <2>1. /\ queue = <<>> /\ sent = <<>> /\ active = {}
          /\ UNCHANGED <<queue, sent, active, received, packet, pending>>
          /\ src' # "stopped"
      BY <1>0, <1>4 DEF Play, Threads, InQueue, demuxerVars
    <2>2. Taken' = Taken /\ Taken = 0
      <3>1. Taken' = Taken
        BY <2>1 DEF Taken
      <3>2. Taken <= Len(sent) /\ Len(sent) = 0 /\ Taken \in Nat
        BY <1>0, <2>1, EmptySeq, TakenIs DEF InHand
      <3>3. QED
        BY <3>1, <3>2
    <2>3. Ordered(<<>>, 1, 0) /\ Labelled(<<>>, CurrentPad', <<>>)
      BY DEF Ordered, Labelled
    <2>4. QED
      BY <2>1, <2>2, <2>3, EmptySeq DEF InQueue
  <1>5. CASE StopPipeline
    <2>1. src' = "stopped" /\ queue' = <<>>
      BY <1>5 DEF StopPipeline
    <2>2. QED
      BY <2>1 DEF InQueue
  <1>6. CASE PullEvent
    <2>1. /\ Ordered(queue, Taken + 1, Len(sent)) /\ Labelled(queue, CurrentPad, sent)
          /\ \A p \in active : Serves(queue, CurrentPad, Len(queue), p)
          /\ src # "stopped"
      BY <1>0, <1>6 DEF PullEvent, Threads, InUse, InQueue
    <2>2. /\ queue \in Seq(Objects) /\ sent \in Seq(Pads)
          /\ Taken \in Nat /\ Len(sent) \in Nat
      BY <1>0, Types, TakenIs
    <2>3. /\ queue # <<>> /\ Head(queue) = queue[1] /\ queue[1] \in Objects
          /\ queue[1].kind # "sample" /\ queue' = Tail(queue)
      BY <1>6, <2>2, Popping DEF PullEvent, NextIsEvent
    <2>4. /\ HandleEvent(queue[1]) /\ app \in InUse
          /\ UNCHANGED <<src, active, sent, received, packet, pending, streams>>
      BY <1>6, <2>3 DEF PullEvent, InUse
    <2>5. CurrentPad' = IF queue[1].kind = "stream-start" THEN queue[1].pad ELSE CurrentPad
      BY <1>0, <2>3, <2>4, EventHandled
    <2>6. Taken' = Taken
      BY <2>4 DEF Taken
    <2>7. Ordered(queue', Taken + 1, Len(sent))
      BY <2>1, <2>2, <2>3, OrderedSkip
    <2>8. Labelled(queue', CurrentPad', sent)
      BY <2>1, <2>2, <2>3, <2>5, LabelledPop
    <2>9. \A p \in active : Serves(queue', CurrentPad', Len(queue'), p)
      BY <2>1, <2>2, <2>3, <2>5, LastServedPop
    <2>10. QED
      BY <1>0, <2>1, <2>4, <2>6, <2>7, <2>8, <2>9 DEF InQueue
  <1>7. CASE PullSample
    <2>1. /\ Ordered(queue, Taken + 1, Len(sent)) /\ Labelled(queue, CurrentPad, sent)
          /\ \A p \in active : Serves(queue, CurrentPad, Len(queue), p)
          /\ src # "stopped"
      BY <1>0, <1>7 DEF PullSample, Threads, InUse, InQueue
    <2>2. /\ queue \in Seq(Objects) /\ sent \in Seq(Pads)
          /\ Taken \in Nat /\ Len(sent) \in Nat
      BY <1>0, Types, TakenIs
    <2>3. /\ queue # <<>> /\ Head(queue) = queue[1] /\ queue[1] \in Objects
          /\ queue[1].kind = "sample" /\ queue' = Tail(queue)
      BY <1>7, <2>2, Popping DEF PullSample, NextIsSample
    <2>4. UNCHANGED <<src, active, sent, received, current, streams>>
      BY <1>7 DEF PullSample, demuxerVars
    <2>5. CurrentPad' = CurrentPad
      BY <2>4 DEF CurrentPad
    <2>6. queue[1].n = Taken + 1 /\ Ordered(queue', (Taken + 1) + 1, Len(sent))
      <3>1. Taken + 1 \in Nat
        BY <2>2
      <3>2. QED
        BY <2>1, <2>2, <2>3, <3>1, OrderedPop
    <2>7. Labelled(queue', CurrentPad, sent)
      BY <2>1, <2>2, <2>3, LabelledPop
    <2>8. \A p \in active : Serves(queue', CurrentPad, Len(queue'), p)
      BY <2>1, <2>2, <2>3, LastServedPop
    <2>9. Taken' = Taken + 1
      <3>1. packet = NoPacket /\ pending = NoSample /\ Taken = Len(received)
        BY <1>0, <1>7, TakenIs DEF PullSample, InHand
      <3>2. packet' # NoPacket /\ pending' = NoSample
        BY <1>7, <2>2, <2>3, <2>6, <3>1 DEF PullSample, NoPacket, demuxerVars
      <3>3. QED
        BY <2>2, <2>4, <3>1, <3>2 DEF Taken
    <2>10. QED
      BY <1>0, <2>1, <2>4, <2>5, <2>6, <2>7, <2>8, <2>9 DEF InQueue
  <1>8. CASE PullPending
    <2>1. /\ packet = NoPacket /\ pending # NoSample /\ pending = Taken
          /\ packet' = [n |-> pending, id |-> current] /\ pending' = NoSample
          /\ UNCHANGED <<src, queue, received, sent, current, streams, active>>
      BY <1>0, <1>8 DEF PullPending, InHand, srcVars
    <2>2. packet' # NoPacket
      BY <2>1 DEF NoPacket, NoSample
    <2>3. UNCHANGED <<Taken, CurrentPad>>
      <3>1. Taken = Len(received) + 1 /\ Len(received) \in Nat
        BY <1>0, <2>1, TakenIs, Types
      <3>2. QED
        BY <2>1, <2>2, <3>1 DEF Taken, CurrentPad
    <2>4. QED
      BY <1>0, <2>1, <2>3 DEF InQueue
  <1>9. CASE LookAtEvent
    <2>1. /\ Ordered(queue, Taken + 1, Len(sent)) /\ Labelled(queue, CurrentPad, sent)
          /\ \A p \in active : Serves(queue, CurrentPad, Len(queue), p)
          /\ src # "stopped"
      BY <1>0, <1>9 DEF LookAtEvent, Threads, InUse, InQueue
    <2>2. /\ queue \in Seq(Objects) /\ sent \in Seq(Pads)
          /\ Taken \in Nat /\ Len(sent) \in Nat
      BY <1>0, Types, TakenIs
    <2>3. /\ queue # <<>> /\ Head(queue) = queue[1] /\ queue[1] \in Objects
          /\ queue[1].kind # "sample" /\ queue' = Tail(queue)
      BY <1>9, <2>2, Popping DEF LookAtEvent, NextIsEvent
    <2>4. /\ HandleEvent(queue[1]) /\ app \in InUse
          /\ UNCHANGED <<src, active, sent, received, packet, pending, streams>>
      BY <1>9, <2>3 DEF LookAtEvent, InUse
    <2>5. CurrentPad' = IF queue[1].kind = "stream-start" THEN queue[1].pad ELSE CurrentPad
      BY <1>0, <2>3, <2>4, EventHandled
    <2>6. Taken' = Taken
      BY <2>4 DEF Taken
    <2>7. Ordered(queue', Taken + 1, Len(sent))
      BY <2>1, <2>2, <2>3, OrderedSkip
    <2>8. Labelled(queue', CurrentPad', sent)
      BY <2>1, <2>2, <2>3, <2>5, LabelledPop
    <2>9. \A p \in active : Serves(queue', CurrentPad', Len(queue'), p)
      BY <2>1, <2>2, <2>3, <2>5, LastServedPop
    <2>10. QED
      BY <1>0, <2>1, <2>4, <2>6, <2>7, <2>8, <2>9 DEF InQueue
  <1>10. CASE LookAtSample
    <2>1. /\ Ordered(queue, Taken + 1, Len(sent)) /\ Labelled(queue, CurrentPad, sent)
          /\ \A p \in active : Serves(queue, CurrentPad, Len(queue), p)
          /\ src # "stopped"
      BY <1>0, <1>10 DEF LookAtSample, Threads, InUse, InQueue
    <2>2. /\ queue \in Seq(Objects) /\ sent \in Seq(Pads)
          /\ Taken \in Nat /\ Len(sent) \in Nat
      BY <1>0, Types, TakenIs
    <2>3. /\ queue # <<>> /\ Head(queue) = queue[1] /\ queue[1] \in Objects
          /\ queue[1].kind = "sample" /\ queue' = Tail(queue)
      BY <1>10, <2>2, Popping DEF LookAtSample, NextIsSample
    <2>4. UNCHANGED <<src, active, sent, received, current, streams>>
      BY <1>10 DEF LookAtSample, demuxerVars
    <2>5. CurrentPad' = CurrentPad
      BY <2>4 DEF CurrentPad
    <2>6. queue[1].n = Taken + 1 /\ Ordered(queue', (Taken + 1) + 1, Len(sent))
      <3>1. Taken + 1 \in Nat
        BY <2>2
      <3>2. QED
        BY <2>1, <2>2, <2>3, <3>1, OrderedPop
    <2>7. Labelled(queue', CurrentPad, sent)
      BY <2>1, <2>2, <2>3, LabelledPop
    <2>8. \A p \in active : Serves(queue', CurrentPad, Len(queue'), p)
      BY <2>1, <2>2, <2>3, LastServedPop
    <2>9. Taken' = Taken + 1
      <3>1. pending = NoSample /\ Len(received) \in Nat
        BY <1>0, <1>10, Types DEF LookAtSample, InHand
      <3>2. packet' = packet /\ pending' # NoSample
        BY <1>10, <2>2, <2>3, <2>6 DEF LookAtSample, NoSample
      <3>3. QED
        BY <2>2, <2>4, <3>1, <3>2 DEF Taken
    <2>10. QED
      BY <1>0, <2>1, <2>4, <2>5, <2>6, <2>7, <2>8, <2>9 DEF InQueue
  <1>11. CASE ReturnPacket
    <2>1. /\ received' = Append(received, packet) /\ packet' = NoPacket
          /\ UNCHANGED <<src, queue, sent, current, streams, active, pending>>
          /\ packet # NoPacket
      BY <1>11 DEF ReturnPacket, demuxerVars, srcVars
    <2>2. Len(received') = Len(received) + 1 /\ Len(received) \in Nat
      <3>1. received \in Seq([n : Numbers, id : Nat]) /\ packet \in [n : Numbers, id : Nat]
        BY <1>0, <2>1, Types DEF TypeOK, AppTypeOK
      <3>2. QED
        BY <2>1, <3>1, Pushing
    <2>3. UNCHANGED <<Taken, CurrentPad>>
      BY <2>1, <2>2 DEF Taken, CurrentPad
    <2>4. QED
      BY <1>0, <2>1, <2>3 DEF InQueue
  <1>12. CASE NoMorePads
    <2>1. /\ src # "stopped" /\ src' # "stopped"
          /\ src' \in {"pads", "ready"} => src \in {"pads", "ready"}
          /\ UNCHANGED <<queue, received, packet, pending, sent, current, streams, active>>
      BY <1>12 DEF NoMorePads, appVars, demuxerVars
    <2>2. UNCHANGED <<Taken, CurrentPad>>
      BY <2>1 DEF Taken, CurrentPad
    <2>3. QED
      BY <1>0, <2>1, <2>2 DEF InQueue
  <1>13. CASE SetReady
    <2>1. /\ src # "stopped" /\ src' # "stopped"
          /\ src' \in {"pads", "ready"} => src \in {"pads", "ready"}
          /\ UNCHANGED <<queue, received, packet, pending, sent, current, streams, active>>
      BY <1>13 DEF SetReady, appVars, demuxerVars
    <2>2. UNCHANGED <<Taken, CurrentPad>>
      BY <2>1 DEF Taken, CurrentPad
    <2>3. QED
      BY <1>0, <2>1, <2>2 DEF InQueue
  <1>14. CASE EndOfStream
    <2>1. /\ Ordered(queue, Taken + 1, Len(sent)) /\ Labelled(queue, CurrentPad, sent)
          /\ \A p \in active : Serves(queue, CurrentPad, Len(queue), p)
          /\ src' \notin {"stopped", "pads", "ready"}
          /\ UNCHANGED <<received, packet, pending, sent, current, streams, active>>
      BY <1>0, <1>14 DEF EndOfStream, InQueue, appVars, demuxerVars
    <2>2. /\ queue \in Seq(Objects) /\ Taken \in Nat /\ Len(sent) \in Nat
          /\ GroupDoneEvent \in Objects /\ GroupDoneEvent.kind = "stream-group-done"
      BY <1>0, Types, TakenIs, ObjectsMade
    <2>3. UNCHANGED <<Taken, CurrentPad>>
      BY <2>1 DEF Taken, CurrentPad
    <2>4. /\ Ordered(queue', Taken + 1, Len(sent)) /\ Labelled(queue', CurrentPad, sent)
          /\ \A p \in active : Serves(queue', CurrentPad, Len(queue'), p)
      <3>1. CASE GroupDone
        <4>1. queue' = Append(queue, GroupDoneEvent)
          BY <1>14, <3>1 DEF EndOfStream
        <4>2. Ordered(queue', Taken + 1, Len(sent)) /\ Labelled(queue', CurrentPad, sent)
          BY <2>1, <2>2, <4>1, PushEvent
        <4>3. \A p \in active : Serves(queue', CurrentPad, Len(queue'), p)
          BY <2>1, <2>2, <4>1, LastServedPush
        <4>4. QED
          BY <4>2, <4>3
      <3>2. CASE ~GroupDone
        BY <1>14, <2>1, <3>2 DEF EndOfStream
      <3>3. QED
        BY <3>1, <3>2
    <2>5. QED
      BY <2>1, <2>3, <2>4 DEF InQueue
  <1>15. CASE EosEvent
    <2>1. /\ src # "stopped" /\ src' # "stopped"
          /\ src' \in {"pads", "ready"} => src \in {"pads", "ready"}
          /\ UNCHANGED <<queue, received, packet, pending, sent, current, streams, active>>
      BY <1>15 DEF EosEvent, appVars, demuxerVars
    <2>2. UNCHANGED <<Taken, CurrentPad>>
      BY <2>1 DEF Taken, CurrentPad
    <2>3. QED
      BY <1>0, <2>1, <2>2 DEF InQueue
  <1>16. CASE EosMessage
    <2>1. /\ src # "stopped" /\ src' # "stopped"
          /\ src' \in {"pads", "ready"} => src \in {"pads", "ready"}
          /\ UNCHANGED <<queue, received, packet, pending, sent, current, streams, active>>
      BY <1>16 DEF EosMessage, appVars, demuxerVars
    <2>2. UNCHANGED <<Taken, CurrentPad>>
      BY <2>1 DEF Taken, CurrentPad
    <2>3. QED
      BY <1>0, <2>1, <2>2 DEF InQueue
  <1>17. ASSUME NEW th \in {"app", "bus"}, HandleBusMessage(th) PROVE InQueue'
    BY <1>0, <1>17
    DEF HandleBusMessage, InQueue, Taken, CurrentPad, appVars, demuxerVars,
        busVars, srcVars
  <1>18. ASSUME NEW th \in {"app", "bus"}, Pop(th) PROVE InQueue'
    BY <1>0, <1>18
    DEF Pop, InQueue, Taken, CurrentPad, appVars, demuxerVars, busVars,
        srcVars
  <1>19. ASSUME NEW p \in Pads, PadAdded(p) PROVE InQueue'
    <2>1. /\ sent = <<>> /\ active = {} /\ src = "pads"
          /\ Ordered(queue, Taken + 1, Len(sent))
          /\ UNCHANGED <<src, queue, received, packet, pending, sent, active>>
      BY <1>0, <1>19 DEF PadAdded, InQueue, appVars, demuxerVars, srcVars
    <2>2. Taken' = Taken /\ Taken \in Nat
      BY <1>0, <2>1, TakenIs DEF Taken
    <2>3. \A i \in DOMAIN queue : queue[i].kind # "sample"
      <3>1. Len(sent) = 0
        BY <2>1
      <3>2. QED
        BY <2>1, <2>2, <3>1 DEF Ordered
    <2>4. Labelled(queue, CurrentPad', sent)
      BY <2>3 DEF Labelled
    <2>5. QED
      BY <2>1, <2>2, <2>4 DEF InQueue
  <1>20. ASSUME NEW p \in Pads, Switch(p) PROVE InQueue'
    <2>1. /\ Ordered(queue, Taken + 1, Len(sent)) /\ Labelled(queue, CurrentPad, sent)
          /\ \A x \in active : Serves(queue, CurrentPad, Len(queue), x)
          /\ src' = "push" /\ active' = {p}
          /\ UNCHANGED <<received, packet, pending, sent, current, streams>>
      BY <1>0, <1>20 DEF Switch, InQueue, appVars, demuxerVars
    <2>2. /\ queue \in Seq(Objects) /\ Taken \in Nat /\ Len(sent) \in Nat
          /\ OtherEvent \in Objects /\ OtherEvent.kind = "other"
          /\ StreamStart(p) \in Objects
          /\ StreamStart(p).kind = "stream-start" /\ StreamStart(p).pad = p
      BY <1>0, Types, TakenIs, ObjectsMade
    <2>3. UNCHANGED <<Taken, CurrentPad>>
      BY <2>1 DEF Taken, CurrentPad
    <2>4. /\ Ordered(queue', Taken + 1, Len(sent)) /\ Labelled(queue', CurrentPad, sent)
          /\ Serves(queue', CurrentPad, Len(queue'), p)
      <3>1. CASE active = {p}
        BY <1>20, <2>1, <3>1 DEF Switch
      <3>2. CASE active # {p}
        <4> DEFINE q == Append(queue, StreamStart(p))
        <4>1. q \in Seq(Objects) /\ queue' = Append(q, OtherEvent)
          BY <1>20, <2>2, <3>2, SwitchQueue DEF Switch
        <4>2. Ordered(q, Taken + 1, Len(sent)) /\ Labelled(q, CurrentPad, sent)
          BY <2>1, <2>2, PushEvent
        <4>3. Serves(q, CurrentPad, Len(q), p)
          BY <2>2, LastServedPush
        <4> HIDE DEF q
        <4>4. Ordered(queue', Taken + 1, Len(sent)) /\ Labelled(queue', CurrentPad, sent)
          BY <2>2, <4>1, <4>2, PushEvent
        <4>5. Serves(queue', CurrentPad, Len(queue'), p)
          BY <2>2, <4>1, <4>3, LastServedPush
        <4>6. QED
          BY <4>4, <4>5
      <3>3. QED
        BY <3>1, <3>2
    <2>5. QED
      BY <2>1, <2>3, <2>4 DEF InQueue
  <1>21. ASSUME NEW p \in Pads, Push(p) PROVE InQueue'
    <2>1. /\ Ordered(queue, Taken + 1, Len(sent)) /\ Labelled(queue, CurrentPad, sent)
          /\ Serves(queue, CurrentPad, Len(queue), p)
          /\ src' = "streaming" /\ active = {p} /\ Len(sent) < MaxPackets
          /\ UNCHANGED <<received, packet, pending, current, streams, active>>
          /\ sent' = Append(sent, p) /\ queue' = Append(queue, Sample(Len(sent) + 1))
      BY <1>0, <1>21 DEF Push, InQueue, Threads, appVars, demuxerVars
    <2>2. /\ queue \in Seq(Objects) /\ sent \in Seq(Pads)
          /\ Taken \in Nat /\ Len(sent) \in Nat /\ MaxPackets \in Nat
      BY <1>0, Types, TakenIs
    <2>3. UNCHANGED <<Taken, CurrentPad>>
      BY <2>1 DEF Taken, CurrentPad
    <2>4. Taken + 1 <= Len(sent) + 1 /\ Len(sent) + 1 \in Numbers /\ Taken + 1 \in Nat
      BY <1>0, <2>1, <2>2 DEF InHand, Numbers
    <2>5. Len(sent') = Len(sent) + 1
      BY <2>1, <2>2, Pushing
    <2>6. /\ Ordered(queue', Taken + 1, Len(sent) + 1) /\ Labelled(queue', CurrentPad, sent')
          /\ Serves(queue', CurrentPad, Len(queue'), p)
      BY <2>1, <2>2, <2>4, PushSample
    <2>7. QED
      BY <2>1, <2>3, <2>5, <2>6 DEF InQueue
  <1>22. QED
    BY <1>t, <1>1, <1>2, <1>3, <1>4, <1>5, <1>6, <1>7, <1>8, <1>9, <1>10,
       <1>11, <1>12, <1>13, <1>14, <1>15, <1>16, <1>17, <1>18, <1>19, <1>20,
       <1>21, Actions

-----------------------------------------------------------------------------
(* What the client got, as PacketStream sees it.                           *)

LEMMA SameLength ==
    ASSUME NEW S, NEW T, NEW d \in Seq(S), NEW r \in Seq(T), DOMAIN d = DOMAIN r
    PROVE  Len(d) = Len(r)
  <1> DEFINE m == Len(d)
             n == Len(r)
  <1>1. m \in Nat /\ DOMAIN d = 1..m /\ n \in Nat /\ DOMAIN r = 1..n
    BY LenProperties
  <1> HIDE DEF m, n
  <1>2. \A i \in Nat : i \in 1..m <=> i \in 1..n
    BY <1>1
  <1>3. m = n
    <2>1. m = 0 \/ m \in 1..n
      BY <1>1, <1>2
    <2>2. n = 0 \/ n \in 1..m
      BY <1>1, <1>2
    <2>3. QED
      BY <1>1, <2>1, <2>2
  <1>4. QED
    BY <1>3 DEF m, n

DeliveredOf(r, ss) == [i \in DOMAIN r |-> [n |-> r[i].n, pad |-> ss[r[i].id + 1]]]

LEMMA DeliveredIs ==
    ASSUME NEW r \in Seq([n : Numbers, id : Nat]), NEW ss \in Seq(Pads),
           NEW d, d = DeliveredOf(r, ss),
           \A i \in DOMAIN r : r[i].n = i /\ r[i].id + 1 \in DOMAIN ss
    PROVE  /\ d \in Seq([n : Nat, pad : Pads]) /\ Len(d) = Len(r)
           /\ \A i \in 1..Len(r) : d[i] = [n |-> i, pad |-> ss[r[i].id + 1]]
  <1> DEFINE S == [n : Nat, pad : Pads]
  <1>1. /\ Len(r) \in Nat /\ DOMAIN r = 1..Len(r)
        /\ DOMAIN ss = 1..Len(ss)
    BY LenProperties
  <1>2. ASSUME NEW i \in 1..Len(r)
        PROVE  /\ r[i].n = i /\ ss[r[i].id + 1] \in Pads
               /\ [n |-> r[i].n, pad |-> ss[r[i].id + 1]] \in S
    <2>1. r[i].n = i /\ r[i].id + 1 \in 1..Len(ss) /\ i \in Nat
      BY <1>1
    <2>2. ss[r[i].id + 1] \in Pads
      BY <2>1, ElementOfSeq
    <2>3. QED
      BY <2>1, <2>2
  <1> HIDE DEF S
  <1>3. d \in [1..Len(r) -> S]
    BY <1>1, <1>2 DEF DeliveredOf
  <1>4. d \in Seq(S)
    BY <1>1, <1>3, SeqDef
  <1>5. Len(d) = Len(r)
    <2>1. DOMAIN d = DOMAIN r
      BY <1>1, <1>3
    <2>2. QED
      BY <1>4, <2>1, SameLength
  <1>6. QED
    BY <1>1, <1>2, <1>4, <1>5 DEF S, DeliveredOf

(* Nothing is delivered when neither the packets nor the ids they carry    *)
(* change.                                                                 *)
LEMMA NothingDelivered ==
    ASSUME UNCHANGED <<sent, received, streams>>
    PROVE  UNCHANGED Packets!vars
  BY DEF Packets!vars, Delivered

LEMMA PacketStep == IInv /\ IInv' /\ [Next]_vars => [Packets!Next]_(Packets!vars)
  <1> SUFFICES ASSUME IInv, IInv', [Next]_vars
               PROVE  [Packets!Next]_(Packets!vars)
    OBVIOUS
  <1>0. /\ TypeOK /\ Threads /\ InHand /\ InQueue
        /\ Len(received) \in Nat /\ Len(sent) \in Nat
    BY Types DEF IInv, Delivery
  <1>t. CASE UNCHANGED vars
    BY <1>t, NothingDelivered DEF vars, appVars, demuxerVars, srcVars
  <1>1. CASE StartBusThread \/ Play \/ PlayFails \/ PlayFailsStop \/
            WaitReady \/ Woken
    BY <1>1, NothingDelivered
    DEF StartBusThread, Play, PlayFails, PlayFailsStop, WaitReady, Woken,
        appVars, demuxerVars, srcVars
  <1>2. CASE PostExit \/ Join \/ StopPipeline \/ Free \/ BusChecked \/
            CheckError
    BY <1>2, NothingDelivered
    DEF PostExit, Join, StopPipeline, Free, BusChecked, CheckError, appVars,
        demuxerVars, srcVars
  <1>3. CASE Read \/ Teardown \/ PullEvent \/ PullSample \/ PullPending
            \/ PullEos
    BY <1>3, NothingDelivered
    DEF Read, Teardown, PullEvent, PullSample, PullPending, PullEos,
        appVars, demuxerVars, srcVars
  <1>4. CASE LookAtEvent \/ LookAtSample \/ LookAtEos \/ ReturnNothing
            \/ BusThreadEnds \/ NoMorePads
    BY <1>4, NothingDelivered
    DEF LookAtEvent, LookAtSample, LookAtEos, ReturnNothing, BusThreadEnds,
        NoMorePads, appVars, demuxerVars, srcVars
  <1>5. CASE SetReady \/ EndOfStream \/ EosEvent \/ EosMessage \/
            PostError
    BY <1>5, NothingDelivered
    DEF SetReady, EndOfStream, EosEvent, EosMessage, PostError, appVars,
        demuxerVars, srcVars
  <1>6. ASSUME NEW th \in {"app", "bus"}, HandleBusMessage(th) PROVE UNCHANGED Packets!vars
    BY <1>6, NothingDelivered
    DEF HandleBusMessage, appVars, demuxerVars, srcVars
  <1>7. ASSUME NEW th \in {"app", "bus"}, Pop(th) PROVE UNCHANGED Packets!vars
    BY <1>7, NothingDelivered DEF Pop, appVars, demuxerVars, srcVars
  <1>8. ASSUME NEW p \in Pads, Switch(p) PROVE UNCHANGED Packets!vars
    BY <1>8, NothingDelivered DEF Switch, appVars, demuxerVars, srcVars
  <1>9. ASSUME NEW p \in Pads, PadAdded(p) PROVE UNCHANGED Packets!vars
    <2>1. UNCHANGED <<sent, received>> /\ streams' = Append(streams, p)
      BY <1>9 DEF PadAdded, appVars, srcVars
    <2>2. received = <<>>
      <3>1. Len(sent) = 0 /\ Taken <= Len(sent)
        BY <1>0, <1>9 DEF PadAdded, InHand, InQueue
      <3>2. Taken >= Len(received) /\ Taken \in Nat
        BY <1>0, TakenIs
      <3>3. Len(received) = 0
        BY <1>0, <3>1, <3>2
      <3>4. QED
        BY <1>0, <3>3, Types, EmptySeq
    <2>3. Delivered' = Delivered
      BY <2>1, <2>2 DEF Delivered
    <2>4. QED
      BY <2>1, <2>3 DEF Packets!vars
  <1>10. ASSUME NEW p \in Pads, Push(p) PROVE Packets!Send(p)
    <2>1. sent' = Append(sent, p) /\ UNCHANGED <<received, streams>>
      BY <1>10 DEF Push, appVars, demuxerVars
    <2>2. Delivered' = Delivered
      BY <2>1 DEF Delivered
    <2>3. QED
      BY <2>1, <2>2 DEF Packets!Send
  <1>11. CASE ReturnPacket
    <2> DEFINE x == [n |-> Len(Delivered) + 1, pad |-> sent[Len(Delivered) + 1]]
    <2>1. /\ received' = Append(received, packet) /\ packet # NoPacket
          /\ UNCHANGED <<sent, streams>>
      BY <1>11 DEF ReturnPacket, demuxerVars, srcVars
    <2>2. /\ packet.n = Len(received) + 1 /\ IsOf(packet.id, packet.n)
          /\ Len(received) < Len(sent)
      <3>1. Taken <= Len(sent) /\ Taken >= Len(received) + 1 /\ Taken \in Nat
        BY <1>0, <2>1, TakenIs DEF InHand
      <3>2. QED
        BY <1>0, <2>1, <3>1 DEF InHand
    <2>3. received \in Seq([n : Numbers, id : Nat]) /\ packet \in [n : Numbers, id : Nat]
      BY <1>0, <2>1, Types DEF TypeOK, AppTypeOK
    <2>4. /\ Len(received') = Len(received) + 1
          /\ \A i \in 1..Len(received) : received'[i] = received[i]
          /\ received'[Len(received) + 1] = packet
      BY <2>1, <2>3, Pushing
    <2>5. /\ Delivered \in Seq([n : Nat, pad : Pads])
          /\ Len(Delivered) = Len(received)
          /\ \A i \in 1..Len(received) :
               Delivered[i] = [n |-> i, pad |-> streams[received[i].id + 1]]
      <3>1. \A i \in DOMAIN received :
              received[i].n = i /\ received[i].id + 1 \in DOMAIN streams
        BY DEF IInv, Delivery, Received, IsOf
      <3>2. received \in Seq([n : Numbers, id : Nat]) /\ streams \in Seq(Pads)
        BY <1>0, Types
      <3>3. Delivered = DeliveredOf(received, streams)
        BY DEF Delivered, DeliveredOf
      <3>4. QED
        BY <3>1, <3>2, <3>3, DeliveredIs
    <2>6. /\ Delivered' \in Seq([n : Nat, pad : Pads])
          /\ Len(Delivered') = Len(received')
          /\ \A i \in 1..Len(received') :
               Delivered'[i] = [n |-> i, pad |-> streams'[received'[i].id + 1]]
      <3>1. \A i \in DOMAIN received' :
              received'[i].n = i /\ received'[i].id + 1 \in DOMAIN streams'
        BY DEF IInv, Delivery, Received, IsOf
      <3>2. received' \in Seq([n : Numbers, id : Nat]) /\ streams' \in Seq(Pads)
        BY DEF IInv, TypeOK, AppTypeOK, DemuxerTypeOK
      <3>3. Delivered' = DeliveredOf(received', streams')
        BY DEF Delivered, DeliveredOf
      <3>4. QED
        BY <3>1, <3>2, <3>3, DeliveredIs
    <2>7. x \in [n : Nat, pad : Pads] /\ Delivered'[Len(received) + 1] = x
      <3>1. x = [n |-> Len(received) + 1, pad |-> streams[packet.id + 1]]
        BY <2>2, <2>5 DEF IsOf
      <3>2. Delivered'[Len(received) + 1] = x
        BY <1>0, <2>1, <2>4, <2>6, <3>1
      <3>3. QED
        BY <1>0, <2>4, <2>6, <3>2, ElementOfSeq
    <2> HIDE DEF x
    <2>8. /\ Append(Delivered, x) \in Seq([n : Nat, pad : Pads])
          /\ Len(Append(Delivered, x)) = Len(received) + 1
          /\ \A i \in 1..Len(received) : Append(Delivered, x)[i] = Delivered[i]
          /\ Append(Delivered, x)[Len(received) + 1] = x
      BY <2>5, <2>7, Pushing
    <2>9. \A i \in 1..Len(Delivered') : Delivered'[i] = Append(Delivered, x)[i]
      <3> SUFFICES ASSUME NEW i \in 1..Len(Delivered')
                   PROVE  Delivered'[i] = Append(Delivered, x)[i]
        OBVIOUS
      <3>1. CASE i = Len(received) + 1
        BY <2>7, <2>8, <3>1
      <3>2. CASE i # Len(received) + 1
        <4>1. i \in 1..Len(received) /\ i \in 1..Len(received')
          BY <1>0, <2>4, <2>6, <3>2
        <4>2. QED
          BY <2>1, <2>4, <2>5, <2>6, <2>8, <4>1
      <3>3. QED
        BY <3>1, <3>2
    <2>10. Delivered' = Append(Delivered, x)
      BY <2>4, <2>6, <2>8, <2>9, SeqEqual
    <2>11. Packets!Receive
      BY <2>1, <2>2, <2>5, <2>10 DEF Packets!Receive, x
    <2>12. QED
      BY <2>11 DEF Packets!Next
  <1>12. QED
    BY <1>t, <1>1, <1>2, <1>3, <1>4, <1>5, <1>6, <1>7, <1>8, <1>9, <1>10, <1>11, Actions DEF Packets!Next

-----------------------------------------------------------------------------
(* IInv holds in every reachable state.                                    *)
LEMMA Invariance == Spec => []IInv
  <1>1. Init => IInv
    BY Initially
  <1>2. IInv /\ [Next]_vars => IInv'
    BY TypeStep, ThreadsStep, CompleteStep, EndingStep, ReceivedStep, InHandStep,
       InQueueStep DEF IInv, Delivery
  <1>3. QED
    BY <1>1, <1>2, PTL DEF Spec

(* The state of the demuxer keeps its types whatever the order of the      *)
(* threads; the id of the current stream is always one of the list.        *)
THEOREM DemuxerTypeCorrect == Spec => []TypeOK
  <1>1. IInv => TypeOK
    BY DEF IInv
  <1>2. QED
    BY <1>1, Invariance, PTL

(* gst_demuxer_es_teardown never frees what the bus thread or a callback   *)
(* of the pipeline still uses.                                             *)
THEOREM NoUseAfterFreeCorrect == Spec => []NoUseAfterFree
  <1>1. IInv => NoUseAfterFree
    BY DEF IInv, Threads, NoUseAfterFree
  <1>2. QED
    BY <1>1, Invariance, PTL

(* Whoever gets a demuxer from gst_demuxer_es_new sees all streams of the  *)
(* file, although no lock protects the list.                               *)
THEOREM StreamsCompleteCorrect == Spec => []StreamsComplete
  <1>1. IInv => StreamsComplete
    BY DEF IInv, Complete, StreamsComplete
  <1>2. QED
    BY <1>1, Invariance, PTL

(* A packet reported as the last one is the last or the one before it, and *)
(* the file has ended.                                                     *)
THEOREM LastMissesOneCorrect == Spec => []LastMissesOne
  <1>1. IInv => LastMissesOne
    BY Types DEF IInv, Ending, Ended, LastMissesOne
  <1>2. QED
    BY <1>1, Invariance, PTL

(* The demuxer implements PacketStream: the packets arrive in the order of *)
(* the file, none twice, none skipped, each with its own stream.           *)
THEOREM ImplementsPacketStream == Spec => InOrder
  <1>1. Init => Packets!Init
    BY DEF Init, Packets!Init, Delivered
  <1>2. IInv /\ IInv' /\ [Next]_vars => [Packets!Next]_(Packets!vars)
    BY PacketStep
  <1>3. QED
    BY <1>1, <1>2, Invariance, PTL DEF Spec, InOrder, Packets!Spec
=============================================================================
