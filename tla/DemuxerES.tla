----------------------------- MODULE DemuxerES -----------------------------
(***************************************************************************)
(* The elementary stream demuxer (lib/demuxeres/gstdemuxeres.c): three     *)
(* threads around the state of a demuxer, one mutex and one condition.     *)
(*                                                                         *)
(*   application   gst_demuxer_es_new, _read_packet and _teardown          *)
(*   bus           check_for_bus_message_cb, until it is told to exit      *)
(*   streaming     the callbacks of uridecodebin, and the appsink          *)
(*                                                                         *)
(* An action is a stretch of code of one thread in which it meets no other *)
(* thread. "app" and "src" are the places where the application thread and *)
(* the streaming thread are. A packet is named by its position in the file.*)
(***************************************************************************)
EXTENDS Integers, Sequences, FiniteSets

CONSTANTS
    Pads,        (* the elementary streams, source pads of uridecodebin    *)
    MaxPackets,  (* bound: packets of the file                             *)
    GroupDone,   (* upstream sends STREAM_GROUP_DONE at the end            *)
    CanError,    (* an element may post an error                           *)
    CanFailOpen, (* the file may be missing                                *)
    Patient      (* the client reads until it is told the last packet or an
                    error, like testdemuxeres.cpp, before the teardown     *)

ASSUME DemuxerAssumption ==
    /\ IsFiniteSet(Pads) /\ Pads # {}
    /\ MaxPackets \in Nat \ {0}
    /\ {GroupDone, CanError, CanFailOpen, Patient} \subseteq BOOLEAN

VARIABLES
    app,         \* where the application thread is
    waiting,     \* it sleeps in g_cond_wait
    told,        \* what the client was told last
    packet,      \* queued_packet
    received,    \* the packets handed to the client
    state,       \* priv->state
    streams,     \* priv->streams; a stream's id is its index, from 0
    current,     \* priv->current_stream_id
    pending,     \* priv->pending_sample
    bus_exit,    \* priv->bus_exit
    bus_thread,  \* the bus thread: not started, running or ended
    popped,      \* the message each thread took from the bus and now handles
    bus,         \* messages on the bus of the pipeline
    flushing,    \* the bus is flushing: it drops what is posted
    src,         \* where the streaming thread is
    active,      \* the pad whose data the funnel forwarded last, if any
    sent,        \* the packets of the file so far, by their pad
    queue,       \* the appsink's queue of samples and serialized events
    is_eos,      \* the appsink has seen EOS
    error        \* none, posted or handled

appVars == <<app, waiting, told, packet, received>>
demuxerVars == <<state, streams, current, pending, bus_exit>>
busVars == <<bus_thread, popped, bus, flushing>>
srcVars == <<src, active, sent, queue, is_eos, error>>
vars == <<appVars, demuxerVars, busVars, srcVars>>

-----------------------------------------------------------------------------
Numbers == 1..MaxPackets
NoSample == 0
NoPacket == [n |-> 0, id |-> 0]
NoMessage == "none"
Messages == {"error", "eos", "exit"}

Objects == [kind : {"sample"}, n : Numbers]
           \union [kind : {"stream-start"}, pad : Pads]
           \union [kind : {"stream-group-done", "other"}]

Sample(n) == [kind |-> "sample", n |-> n]
StreamStart(p) == [kind |-> "stream-start", pad |-> p]
OtherEvent == [kind |-> "other"]   \* caps, segment, tags
GroupDoneEvent == [kind |-> "stream-group-done"]

Samples(q) == {i \in DOMAIN q : q[i].kind = "sample"}

(* gst_bus_post: a flushing bus drops the message.                         *)
Post(m) == bus' = IF flushing THEN bus ELSE Append(bus, m)

(* set_demuxer_state: under the mutex, and wakes gst_demuxer_es_new.       *)
SetState_NoSignal(s) == state' = s /\ UNCHANGED waiting
SetState(s) == state' = s /\ waiting' = FALSE

-----------------------------------------------------------------------------
(* gst_demuxer_es_new and the teardown.                                    *)

Init ==
    /\ app = "new" /\ waiting = FALSE /\ told = "nothing"
    /\ packet = NoPacket /\ received = <<>>
    /\ state = "idle" /\ streams = <<>> /\ current = 0 /\ pending = NoSample
    /\ bus_exit = FALSE
    /\ bus_thread = "none" /\ popped = [t \in {"app", "bus"} |-> NoMessage]
    /\ bus = <<>> /\ flushing = FALSE
    /\ src = "stopped" /\ active = {} /\ sent = <<>> /\ queue = <<>>
    /\ is_eos = FALSE /\ error = "none"

(* The bus thread runs before the pipeline does.                           *)
StartBusThread ==
    /\ app = "new"
    /\ app' = "play"
    /\ bus_thread' = "running"
    /\ UNCHANGED <<waiting, told, packet, received, demuxerVars, popped, bus,
                   flushing, srcVars>>

Play ==
    /\ app = "play"
    /\ app' = "wait"
    /\ src' = "pads"
    /\ UNCHANGED <<waiting, told, packet, received, demuxerVars, busVars,
                   active, sent, queue, is_eos, error>>

(* The pipeline reached READY but not PAUSED: an error is posted, the      *)
(* pipeline goes back to NULL and thereby sets its bus flushing.           *)
PlayFails ==
    /\ app = "play" /\ CanFailOpen
    /\ app' = "null"
    /\ Post("error")
    /\ error' = "posted"
    /\ UNCHANGED <<waiting, told, packet, received, demuxerVars, bus_thread,
                   popped, flushing, src, active, sent, queue, is_eos>>

PlayFailsStop ==
    /\ app = "null"
    /\ app' = "post" /\ told' = "null"
    /\ bus' = <<>> /\ flushing' = TRUE
    /\ UNCHANGED <<waiting, packet, received, demuxerVars, bus_thread, popped,
                   srcVars>>

(* wait_for_demuxer_ready: the test and the sleep are atomic under the     *)
(* mutex; what it returns is read after the unlock.                        *)
WaitReady ==
    /\ app = "wait" /\ ~waiting
    /\ IF state = "idle" THEN waiting' = TRUE /\ UNCHANGED app
                         ELSE app' = "woken" /\ UNCHANGED waiting
    /\ UNCHANGED <<told, packet, received, demuxerVars, busVars, srcVars>>

Ready_Any(s) == s # "idle"
Ready(s) == s \in {"ready", "eos"}

Woken ==
    /\ app = "woken"
    /\ IF Ready(state) THEN app' = "user" /\ UNCHANGED told
                       ELSE app' = "post" /\ told' = "null"
    /\ UNCHANGED <<waiting, packet, received, demuxerVars, busVars, srcVars>>

Finished == told \in {"last", "error"}

Teardown ==
    /\ app = "user" /\ (Patient => Finished)
    /\ app' = "post"
    /\ UNCHANGED <<waiting, told, packet, received, demuxerVars, busVars, srcVars>>

(* _gst_demuxer_es_cleanup_bus_watch: ask the bus thread to exit, join it. *)
PostExit_StopsFirst ==
    /\ app = "post" /\ src # "ready"
    /\ app' = "join"
    /\ src' = "stopped" /\ queue' = <<>>
    /\ bus' = <<>> /\ flushing' = TRUE
    /\ UNCHANGED <<waiting, told, packet, received, demuxerVars, bus_thread,
                   popped, active, sent, is_eos, error>>

PostExit ==
    /\ app = "post"
    /\ app' = "join"
    /\ Post("exit")
    /\ UNCHANGED <<waiting, told, packet, received, demuxerVars, bus_thread,
                   popped, flushing, srcVars>>

Join_Detached ==
    /\ app = "join"
    /\ app' = "stop"
    /\ bus_exit' = TRUE
    /\ UNCHANGED <<waiting, told, packet, received, state, streams, current,
                   pending, busVars, srcVars>>

Join ==
    /\ app = "join" /\ bus_thread = "ended"
    /\ app' = "stop"
    /\ bus_exit' = TRUE
    /\ UNCHANGED <<waiting, told, packet, received, state, streams, current,
                   pending, busVars, srcVars>>

(* gst_element_set_state (NULL): waits for the streaming thread to leave   *)
(* its callback, stops it and flushes the queue and the bus.               *)
StopPipeline ==
    /\ app = "stop" /\ src # "ready"
    /\ app' = "free"
    /\ src' = "stopped" /\ queue' = <<>>
    /\ bus' = <<>> /\ flushing' = TRUE
    /\ UNCHANGED <<waiting, told, packet, received, demuxerVars, bus_thread,
                   popped, active, sent, is_eos, error>>

(* The demuxer and its private data are freed.                             *)
Free ==
    /\ app = "free"
    /\ app' = "freed"
    /\ UNCHANGED <<waiting, told, packet, received, demuxerVars, busVars, srcVars>>

-----------------------------------------------------------------------------
(* gst_demuxer_es_read_packet.                                             *)

Read ==
    /\ app = "user" /\ (Patient => ~Finished)
    /\ app' = "messages"
    /\ UNCHANGED <<waiting, told, packet, received, demuxerVars, busVars, srcVars>>

(* check_for_bus_message comes back once the bus is empty.                 *)
BusChecked ==
    /\ app = "messages" /\ popped["app"] = NoMessage /\ bus = <<>>
    /\ app' = "state"
    /\ UNCHANGED <<waiting, told, packet, received, demuxerVars, busVars, srcVars>>

CheckError ==
    /\ app = "state"
    /\ IF state = "error" THEN app' = "user" /\ told' = "error"
                          ELSE app' = "pull" /\ UNCHANGED told
    /\ UNCHANGED <<waiting, packet, received, demuxerVars, busVars, srcVars>>

(* find_stream, and the id it has in the list.                             *)
StreamIds_FromOne(p) == {i \in DOMAIN streams : streams[i] = p}
StreamIds(p) == {i - 1 : i \in {j \in DOMAIN streams : streams[j] = p}}

(* appsink_handle_event; "handled" is what it returns.                     *)
HandleEvent_FallsThrough(e) ==
    /\ IF e.kind = "stream-start" /\ StreamIds(e.pad) # {}
         THEN current' \in StreamIds(e.pad)
         ELSE UNCHANGED current
    /\ IF e.kind \in {"stream-start", "stream-group-done"}
         THEN SetState("eos")
         ELSE UNCHANGED <<state, waiting>>

HandleEvent_StartOnly(e) ==
    /\ IF e.kind = "stream-start" /\ StreamIds(e.pad) # {}
         THEN current' \in StreamIds(e.pad)
         ELSE UNCHANGED current
    /\ UNCHANGED <<state, waiting>>

HandleEvent(e) ==
    /\ IF e.kind = "stream-start" /\ StreamIds(e.pad) # {}
         THEN current' \in StreamIds(e.pad)
         ELSE UNCHANGED current
    /\ IF e.kind = "stream-group-done"
         THEN SetState("eos")
         ELSE UNCHANGED <<state, waiting>>

handled(e) == e.kind \in {"stream-start", "stream-group-done"}

NextIsEvent == queue # <<>> /\ Head(queue).kind # "sample"
NextIsSample == queue # <<>> /\ Head(queue).kind = "sample"
PullsNothing == queue = <<>> /\ is_eos

(* gst_app_sink_try_pull_object waits for an object or EOS.                *)
PullEvent ==
    /\ app = "pull" /\ pending = NoSample /\ NextIsEvent
    /\ HandleEvent(Head(queue))
    /\ queue' = Tail(queue)
    /\ UNCHANGED <<app, told, packet, received, streams, pending, bus_exit,
                   busVars, src, active, sent, is_eos, error>>

PullSample ==
    /\ app = "pull" /\ pending = NoSample /\ NextIsSample
    /\ packet' = [n |-> Head(queue).n, id |-> current]
    /\ queue' = Tail(queue)
    /\ app' = "look"
    /\ UNCHANGED <<waiting, told, received, demuxerVars, busVars,
                   src, active, sent, is_eos, error>>

PullPending_Keeps ==
    /\ app = "pull" /\ pending # NoSample
    /\ packet' = [n |-> pending, id |-> current]
    /\ UNCHANGED pending
    /\ app' = "look"
    /\ UNCHANGED <<waiting, told, received, state, streams, current, bus_exit,
                   busVars, srcVars>>

PullPending ==
    /\ app = "pull" /\ pending # NoSample
    /\ packet' = [n |-> pending, id |-> current]
    /\ pending' = NoSample
    /\ app' = "look"
    /\ UNCHANGED <<waiting, told, received, state, streams, current, bus_exit,
                   busVars, srcVars>>

PullEos ==
    /\ app = "pull" /\ pending = NoSample /\ PullsNothing
    /\ app' = "look"
    /\ UNCHANGED <<waiting, told, packet, received, demuxerVars, busVars, srcVars>>

(* "Look for stream_start or eos event": the next sample is set aside.     *)
LookAtEvent ==
    /\ app = "look" /\ NextIsEvent
    /\ HandleEvent(Head(queue))
    /\ queue' = Tail(queue)
    /\ app' = IF handled(Head(queue)) THEN "result" ELSE "look"
    /\ UNCHANGED <<told, packet, received, streams, pending, bus_exit,
                   busVars, src, active, sent, is_eos, error>>

LookAtSample ==
    /\ app = "look" /\ NextIsSample
    /\ pending' = Head(queue).n
    /\ queue' = Tail(queue)
    /\ app' = "result"
    /\ UNCHANGED <<waiting, told, packet, received, state, streams, current,
                   bus_exit, busVars, src, active, sent, is_eos, error>>

LookAtEos ==
    /\ app = "look" /\ PullsNothing
    /\ app' = "result"
    /\ UNCHANGED <<waiting, told, packet, received, demuxerVars, busVars, srcVars>>

(* The state is read again, without the mutex, to tell the last packet.    *)
ReturnPacket ==
    /\ app = "result" /\ packet # NoPacket
    /\ told' = IF state = "eos" THEN "last" ELSE "new"
    /\ received' = Append(received, packet)
    /\ packet' = NoPacket
    /\ app' = "user"
    /\ UNCHANGED <<waiting, demuxerVars, busVars, srcVars>>

ReturnNothing ==
    /\ app = "result" /\ packet = NoPacket
    /\ told' = "no packet"
    /\ app' = "user"
    /\ UNCHANGED <<waiting, packet, received, demuxerVars, busVars, srcVars>>

-----------------------------------------------------------------------------
(* The bus. Both the bus thread and read_packet take messages from it and  *)
(* handle them: a message can be handled after one that was posted later.  *)

TakesMessages(t) ==
    IF t = "app" THEN app = "messages" ELSE bus_thread = "running"

Pop(t) ==
    /\ TakesMessages(t) /\ popped[t] = NoMessage /\ bus # <<>>
    /\ popped' = [popped EXCEPT ![t] = Head(bus)]
    /\ bus' = Tail(bus)
    /\ UNCHANGED <<appVars, demuxerVars, bus_thread, flushing, srcVars>>

(* handle_bus_message *)
HandleBusMessage(t) ==
    /\ popped[t] # NoMessage
    /\ popped' = [popped EXCEPT ![t] = NoMessage]
    /\ \/ popped[t] = "error" /\ SetState("error") /\ UNCHANGED bus_exit
       \/ popped[t] = "eos" /\ SetState("eos") /\ UNCHANGED bus_exit
       \/ popped[t] = "exit" /\ bus_exit' = TRUE /\ UNCHANGED <<state, waiting>>
    /\ error' = IF popped[t] = "error" THEN "handled" ELSE error
    /\ UNCHANGED <<app, told, packet, received, streams, current, pending,
                   bus_thread, bus, flushing, src, active, sent, queue, is_eos>>

BusThreadEnds ==
    /\ bus_thread = "running" /\ popped["bus"] = NoMessage /\ bus = <<>>
    /\ bus_exit
    /\ bus_thread' = "ended"
    /\ UNCHANGED <<appVars, demuxerVars, popped, bus, flushing, srcVars>>

-----------------------------------------------------------------------------
(* The streaming thread: callbacks of uridecodebin, then data through the  *)
(* funnel to the appsink.                                                  *)

(* uridecodebin_pad_added_cb: the stream gets the next id.                 *)
PadAdded(p) ==
    /\ src = "pads" /\ \A i \in DOMAIN streams : streams[i] # p
    /\ streams' = Append(streams, p)
    /\ UNCHANGED <<appVars, state, current, pending, bus_exit, busVars, srcVars>>

AllPadsAdded == \A p \in Pads : \E i \in DOMAIN streams : streams[i] = p

(* uridecodebin_pad_no_more_pads reads the state without the mutex ...     *)
NoMorePads ==
    /\ src = "pads" /\ AllPadsAdded
    /\ src' = IF state = "idle" THEN "ready" ELSE "streaming"
    /\ UNCHANGED <<appVars, demuxerVars, busVars, active, sent, queue, is_eos, error>>

(* ... and then sets it.                                                   *)
SetReady ==
    /\ src = "ready"
    /\ SetState("ready")
    /\ src' = "streaming"
    /\ UNCHANGED <<app, told, packet, received, streams, current, pending,
                   bus_exit, busVars, active, sent, queue, is_eos, error>>

(* The funnel sends the sticky events of a pad before the first buffer of  *)
(* it that follows one of another pad.                                     *)
Switch(p) ==
    /\ src = "streaming" /\ Len(sent) < MaxPackets
    /\ IF active = {p} THEN UNCHANGED queue
                       ELSE queue' = queue \o <<StreamStart(p), OtherEvent>>
    /\ active' = {p}
    /\ src' = "push"
    /\ UNCHANGED <<appVars, demuxerVars, busVars, sent, is_eos, error>>

Push(p) ==
    /\ src = "push" /\ active = {p}
    /\ sent' = Append(sent, p)
    /\ queue' = Append(queue, Sample(Len(sent) + 1))
    /\ src' = "streaming"
    /\ UNCHANGED <<appVars, demuxerVars, busVars, active, is_eos, error>>

(* An element may post an error, and end the stream afterwards.            *)
PostError ==
    /\ CanError /\ error = "none" /\ src \in {"pads", "ready", "streaming", "push"}
    /\ Post("error")
    /\ error' = "posted"
    /\ UNCHANGED <<appVars, demuxerVars, bus_thread, popped, flushing,
                   src, active, sent, queue, is_eos>>

EndOfStream ==
    /\ src = "streaming" /\ (sent # <<>> \/ error # "none")
    /\ queue' = IF GroupDone THEN Append(queue, GroupDoneEvent) ELSE queue
    /\ src' = "eos"
    /\ UNCHANGED <<appVars, demuxerVars, busVars, active, sent, is_eos, error>>

(* The appsink sees EOS, waits until its samples are taken and posts it.   *)
EosEvent ==
    /\ src = "eos"
    /\ is_eos' = TRUE
    /\ src' = "drain"
    /\ UNCHANGED <<appVars, demuxerVars, busVars, active, sent, queue, error>>

EosMessage ==
    /\ src = "drain" /\ Samples(queue) = {}
    /\ Post("eos")
    /\ src' = "done"
    /\ UNCHANGED <<appVars, demuxerVars, bus_thread, popped, flushing,
                   active, sent, queue, is_eos, error>>
-----------------------------------------------------------------------------
New == StartBusThread \/ Play \/ PlayFails \/ PlayFailsStop \/ WaitReady \/ Woken
Tear == PostExit \/ Join \/ StopPipeline \/ Free
Reading ==
    \/ Pop("app") \/ HandleBusMessage("app") \/ BusChecked \/ CheckError
    \/ PullEvent \/ PullSample \/ PullPending \/ PullEos
    \/ LookAtEvent \/ LookAtSample \/ LookAtEos
    \/ ReturnPacket \/ ReturnNothing
Client == Read \/ Teardown
Application == New \/ Tear \/ Reading \/ Client

BusThread == Pop("bus") \/ HandleBusMessage("bus") \/ BusThreadEnds

Streaming ==
    \/ NoMorePads \/ SetReady \/ EndOfStream \/ EosEvent \/ EosMessage
    \/ \E p \in Pads : PadAdded(p) \/ Switch(p) \/ Push(p)

Next == Application \/ BusThread \/ Streaming \/ PostError

Spec == Init /\ [][Next]_vars

(* The scheduler runs each of the three threads; a file is finite. A       *)
(* client in the loop of testdemuxeres.cpp goes on to its next call.       *)
FairSpec ==
    Spec /\ WF_vars(Application) /\ WF_vars(BusThread) /\ WF_vars(Streaming)

-----------------------------------------------------------------------------
Places == {"new", "play", "null", "wait", "woken", "user", "messages", "state",
           "pull", "look", "result", "post", "join", "stop", "free", "freed"}
InUse == {"user", "messages", "state", "pull", "look", "result"}

AppTypeOK ==
    /\ app \in Places /\ waiting \in BOOLEAN
    /\ told \in {"nothing", "null", "new", "last", "no packet", "error"}
    /\ packet \in [n : Numbers, id : Nat] \union {NoPacket}
    /\ received \in Seq([n : Numbers, id : Nat])

DemuxerTypeOK ==
    /\ state \in {"idle", "error", "ready", "eos"}
    /\ streams \in Seq(Pads)
    /\ current \in Nat /\ (current = 0 \/ current + 1 \in DOMAIN streams)
    /\ pending \in Numbers \union {NoSample}
    /\ bus_exit \in BOOLEAN

BusTypeOK ==
    /\ bus_thread \in {"none", "running", "ended"}
    /\ popped \in [{"app", "bus"} -> Messages \union {NoMessage}]
    /\ bus \in Seq(Messages) /\ flushing \in BOOLEAN

SrcTypeOK ==
    /\ src \in {"stopped", "pads", "ready", "streaming", "push", "eos", "drain", "done"}
    /\ active \in SUBSET Pads
    /\ sent \in Seq(Pads) /\ queue \in Seq(Objects)
    /\ is_eos \in BOOLEAN /\ error \in {"none", "posted", "handled"}

(* The variables have the shape of the C structures; a stream id is one    *)
(* that find_best_stream can return.                                       *)
TypeOK == AppTypeOK /\ DemuxerTypeOK /\ BusTypeOK /\ SrcTypeOK

(* What the client got, each packet with the pad its stream id stands for. *)
Delivered == [i \in DOMAIN received |->
                [n |-> received[i].n, pad |-> streams[received[i].id + 1]]]
Packets == INSTANCE PacketStream WITH received <- Delivered

(* The packets come in the order of the file, each once, with the id of    *)
(* the stream they belong to: the sample set aside while looking for the   *)
(* end and the events between samples confuse neither.                     *)
InOrder == Packets!Spec

(* Nothing the threads still use is freed: when teardown frees the demuxer *)
(* the bus thread has ended and no callback of the pipeline is running.    *)
NoUseAfterFree ==
    app = "freed" => bus_thread = "ended" /\ src = "stopped"

(* A client that gets a demuxer sees all its streams, although the list    *)
(* is filled by the streaming thread without a lock.                       *)
StreamsComplete == app \in InUse => AllPadsAdded

(* When a packet is reported as the last one, the file has ended and at    *)
(* most one packet of it was not delivered.                                *)
LastMissesOne ==
    told = "last" =>
        /\ src \in {"eos", "drain", "done", "stopped"}
        /\ Len(sent) - Len(received) <= 1

(* gst_demuxer_es_new returns, with a demuxer or with NULL: its wait on    *)
(* the condition is always ended, and a failure is cleaned up.             *)
NewReturns == app = "new" ~> app \in {"user", "freed"}

(* A client that reads until the last packet or an error gets there.       *)
ReaderFinishes == app = "user" ~> Finished

(* gst_demuxer_es_teardown returns: the bus thread gets the exit message   *)
(* and ends.                                                               *)
TeardownReturns == app = "post" ~> app = "freed"
=============================================================================
