---------------------------- MODULE PacketStream ----------------------------
(***************************************************************************)
(* What a reader of GstDemuxerES is promised: the packets it gets are the  *)
(* packets of the file, in the file's order, each once and each with the   *)
(* stream it belongs to.                                                   *)
(***************************************************************************)
EXTENDS Sequences, Naturals

CONSTANT Pads    \* the elementary streams of the file

VARIABLES
    sent,        \* the packets of the file so far, by their stream
    received     \* what the reader got: number of the packet and its stream

vars == <<sent, received>>

Init == sent = <<>> /\ received = <<>>

Send(p) ==
    /\ sent' = Append(sent, p)
    /\ UNCHANGED received

Receive ==
    /\ Len(received) < Len(sent)
    /\ received' = Append(received, [n |-> Len(received) + 1,
                                     pad |-> sent[Len(received) + 1]])
    /\ UNCHANGED sent

Next == Receive \/ \E p \in Pads : Send(p)

Spec == Init /\ [][Next]_vars
=============================================================================
