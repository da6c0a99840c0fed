# Verification of GstVkVideoParser in TLA+

GstVkVideoParser turns a byte stream of H.264 or H.265 into the callbacks of
`VkParserVideoDecodeClient`: which picture buffer to allocate, what to decode into
it, which pictures to reference, when to show it. It does so without decoding
anything itself, by putting GStreamer's codec base classes behind a Vulkan-video
style API. This directory holds TLA+ modules translated from its C and C++ source,
TLC configurations that check them on small instances, and TLAPS proofs of the
results that hold for every instance.

Run in this directory, e.g. `tlc -config h264_any_stream.cfg MCH264Decoder.tla` and
`tlapm H264ClientProofs.tla`. `PROJECT.json` lists components, runs (with the module
each configuration is for), mutants, the lines each definition translates, findings,
hazards and theorems.

## 1. The system

```
client application (test/, VideoParserClient.h)
   |  CreateVulkanVideoDecodeParser / Initialize / ParseByteStream / Deinitialize / Release
VulkanVideoDecodeParser        lib/vkvideoparser/vkvideodecodeparser.cpp
   |  Build / PushData / Eos
GstVkVideoParser               lib/vkvideoparser/gstvkvideoparser.cpp
   |  a GstHarness: h26xparse ! vkh26xparse ! fakesink, synchronous
GstVkH264Dec / GstVkH265Dec    lib/plugins/gstvkh26{4,5}dec.cpp      -> client callbacks
GstH264Decoder / GstH265Decoder + DPB   lib/codecs/
GstVideoDecoder (GStreamer: codec frames, external)

GstDemuxerES                   lib/demuxeres/gstdemuxeres.c: separate, feeds test programs
```

| Component | State | Operations | What is hard | What makes it correct |
|---|---|---|---|---|
| H.264 DPB (`gsth264picture.c`) | array of pictures, two limits, a counter of pictures to output, the last output | add, delete_unused, needs_bump, bump, mark, MMCO 1-6, clear | flags, counter and array are updated by different functions; early output in four modes | the counter equals the flags; size within the limits; no reference lost; output order |
| H.264 decoder (`gsth264decoder.c`) | current picture and frame, slice header, SPS, `prev_ref_frame_num`, last output order count | handle_frame (NAL units, new picture, gaps, end), finish_picture, drain, flush, start, stop | loops that call the client in the middle of an update; errors at each of those points; gaps; IDR, SPS changes and MMCO 5 that restart the order | every buffer and codec frame is accounted for; nothing is lost; the order and the references are the standard's |
| H.264 element (`gstvkh264dec.cpp`) | parameter sets and the picture under construction | new_sequence, new_picture, start_picture, decode_slice, end_picture, output_picture | callbacks that return false; reference counts of `VkPicIf` | client sees allocate, decode, show, release in that order |
| H.265 DPB, decoder, element | as H.264, with reference picture sets, RASL and IRAP state | same shape | latency counts, RASL skipping, NoOutputOfPriorPics | same, plus the RPS names only pictures of the buffer |
| Parser session (`vkvideodecodeparser.cpp`, `gstvkvideoparser.cpp`) | the harness, the bus, a reference count | Initialize, ParseByteStream, Deinitialize, AddRef, Release | owners that come and go, errors that belong to an earlier packet, EOS with data | destroyed once and by the last owner, EOS brings everything out, what is returned is true |
| Elementary stream demuxer (`gstdemuxeres.c`) | state, list of streams, the sample set aside, mutex and condition | new, read_packet, find_best_stream, teardown; pad-added, no-more-pads, events, bus messages | application, streaming and bus threads; an unlocked check; last packet against EOS and errors | each packet delivered once and in order; `new` and `teardown` return |
| Frame rate packing (`videoutils.c`), VUI and DPB entries of `start_picture` | none | pure functions | boundaries | agree with their definition |
| Harness (`lib/harness`), registration, build, tests | | | copies of GStreamer code, glue | not modelled |

The decoder is single-threaded: the application's `ParseByteStream` pushes a buffer
through the harness, and parser, decoder and callbacks run inside that call. What
interleaves are the turns of nested loops, each of which calls the client and may get
an error back. Only the demuxer has threads.

`PROJECT.json` lists the hazards, with the line where each bites and the properties
aimed at it.

## 2. Modules

| Module | Models | Uses |
|---|---|---|
| `H264Dpb` | `gsth264picture.c` as operators on a value | |
| `H264Order` | `gst_h264_decoder_calculate_poc` beside the decoder | `H264Decoder` |
| `H264Element` | the list of references `start_picture` hands to the client | `H264Decoder` |
| `H265Dpb` | `gsth265picture.c` and the reference picture sets, as operators | |
| `H265Stream` | what a conforming H.265 stream is (input, abstract) | |
| `H265Decoder` | `gsth265decoder.c` and the callbacks of `gstvkh265dec.cpp` | `H265Dpb`, `H265Stream`, `ClientPictures` |
| `ParserSession` | `vkvideodecodeparser.cpp` and `gstvkvideoparser.cpp` | |
| `H264Decoder` | `gsth264decoder.c` and the callbacks of `gstvkh264dec.cpp`: the state machine, its properties | `H264Dpb`, `ClientPictures` |
| `ClientPictures` | what the application is promised about picture buffers (abstract) | |
| `MCH264Decoder`, `MCH264Order`, `MCH264Element`, `MCH265Decoder`, `MCParserSession` | constants for TLC | the module each is named after |
| `DemuxerES` | `gstdemuxeres.c`: three threads, the bus and the appsink's queue, its properties | `PacketStream` |
| `PacketStream` | what a reader of the demuxer is promised (abstract) | |
| `MCDemuxerES` | constants for TLC | `DemuxerES` |
| `H264DecoderProofs` | lemmas about each DPB operation, how it changes the numbers of pictures and references; inductive invariant, types, output counter; conforming streams: long-term indices, limits | `H264Decoder` |
| `H264ClientProofs` | buffers, frames, lost pictures, refinement, number of buffers; the references of conforming streams | `H264DecoderProofs` |
| `H264OrderProofs` | the order of output of conforming streams; the calculation of order counts | `H264Order`, `H264ClientProofs` |
| `H265DecoderProofs` | lemmas about each DPB operation and the reference picture sets; inductive invariant, types, output counter | `H265Decoder` |
| `H265ClientProofs` | buffers, frames, lost pictures, refinement | `H265DecoderProofs` |
| `H265StreamProofs` | conforming streams: order counts, references, pictures decoded, limits of the buffer, output order | `H265ClientProofs` |
| `ParserSessionProofs` | counting of references, end of stream | `ParserSession` |
| `DemuxerESProofs` | queue lemmas, inductive invariant, delivery, teardown, refinement | `DemuxerES` |

Definitions ending in `_Something` next to a definition (`Leaves_OnlyDrained`,
`FailFrame_KeepsPicture`) are plausible mistakes in that code; `PROJECT.json` pairs
each with the property that TLC must then find violated. Nothing else uses them.

### H264Dpb

The struct becomes a record; `pic_list` (a `GArray`) becomes a set of records whose
`order` is the position in the array. Pictures are only appended and removals keep
the order, so comparing `order` is comparing indices, and "the first in the array"
is `First`. A picture is named by its `system_frame_number`, `id`; a picture
inferred for a gap has no frame and no buffer, and id 0. `pic_num` and `frame_num_wrap`,
which `update_pic_nums` recomputes from `frame_num` whenever they are read for
frames, are the operator `FrameNumWrap`; `long_term_pic_num`, which may be stale,
is kept. `NeedsBump`, `NormalBump` and `LowLatencyBump` follow the sequence of tests
of `gst_h264_dpb_needs_bump`; `Modes` are the four bump levels that matter here.
`low.poc - last_output_poc` overflows a 32-bit integer when nothing was output yet
(`last_output_poc` is `G_MININT32`): the outcome of that comparison is a
nondeterministic choice.

### H264Decoder

`phase` is the place in the code where the streaming thread is; each loop that calls
the client takes one step per turn:

```
idle --HandleFrame--> nals --NewPicture--> gap <--> gapbump        handle_frame_num_gap
                       |  ^                 |
              ParseSps v  |                 v  StartPicture
                     drain (after=newseq)  [drain (after=slices)] -> slices
                                            |  EndPicture
                                            v
                       marking (MMCOs) -> [drain (after=bump)] -> bump -> livebump -> idle
fail: handle_frame drops the frame and the current picture
stopped: between stop and start
```

- One access unit is one codec frame, one picture and one client buffer, so a number
  stands for all three; `held`, `decoded`, `shown` and `discarded` record what
  happened to them, `pending` which frames the GstVideoDecoder class still has.
- `Finish`, `Store`, `OutputDirectly`, `DrainOver` and `ClearDpb` are whole handlers:
  `delete_unused` after marking, the reset of `last_output_poc` after a drain, the
  release of the frames in `clear_dpb` are parts of the action.
- `CanFail` names the callbacks that may return false: `AllocPictureBuffer` fails
  `NewPicture`, `DecodePicture` fails `EndPicture`, `DisplayPicture` makes
  `OutputPicture` discard the picture and set `ret`, which the loops carry on.
- A memory management operation the code cannot carry out is skipped and the next
  one is tried, as in the code; `hdr.adaptive` pictures take any sequence of up to
  `MaxMmco` operations with arguments that a slice header can hold.
- `Conforming` restricts the *input*, never the decoder: `MayFollow` and `Fits` are
  clauses of the H.264 standard (frame_num steps or gaps allowed by the SPS, distinct
  picture order counts, at most `num_reorder_frames` preceding pictures, non-reference
  pictures in output order, room for each reference). `cvs` is the history they need;
  no other action reads it.

External: the GstVideoDecoder class (frames are a set; flush and stop forget them), and
h264parse in front of the decoder (parameter sets come before the slices of an
access unit).

### H264Order

`H264Decoder` takes the picture order count of a picture as an input. `H264Order` adds
the state of `calculate_poc` (`prev_ref_*`, `prev_frame_num*`, the two MMCO 5 flags) and
the other side, the encoder: `Encodes` codes the count a picture is meant to have in the
way of its `pic_order_cnt_type`, and `CalculatePoc` works it out again. `PocAsMeant`
compares the two, and the decoder of `H264Decoder` then runs on what was worked out. A
picture inferred for a gap has type 0, whatever the stream has, as in the code.

### H264Element

`ReferenceEntries` are the two loops of `start_picture` that fill the list of references,
over the buffer `H264Decoder` has at that moment. The rest of `start_picture` copies
fields.

### H265Dpb and H265Stream

As in `H264Dpb` the array is a set of records with an `order`;
`g_array_remove_index_fast` moves the last picture to the free place, and `RemoveFast`
says so because "the first in the array" decides between equal order counts. A
reference picture set refers to pictures by id. The order counts of a set are relative
to the current picture, as in the slice header; a long-term entry may have only the
lowest bits.

`H265Stream` is the input of conforming runs and contains no code of the repository: a
stream is a sequence of pictures with the order count, the references and the
coded video sequence the encoder means; `SliceOf` is the header that says so, and
`TypeConforms`, `OrderConforms`, `ReferencesConform`, `OutputConforms` are the clauses of
the standard on IRAP, RADL, RASL and trailing pictures, on order, on what may be
kept and on `sps_max_dec_pic_buffering` and `sps_max_num_reorder_pics`.

### H265Decoder

```
idle --HandleFrame--> nals (parses every unit) --ParseOver/BadSlice--> decode
decode: KeepSps | ChangeSps -> [drain] -> newseq -> decode
        MoreSlice | NewPicture -> begin -> DropPicture -> decode            (RASL)
                               begin -> clear | room | start -> decode      (dpb_init)
        FinishPicture -> bump -> idle
fail: handle_frame drops the frame and the current picture
```

- The H.265 decoder parses an access unit as a whole into `nalu` and then decodes it:
  `no_output`, `new_bitstream` and `prev_nal_is_eos` have the values of the end of the
  unit when its first slice is decoded. So parsing and decoding are separate phases.
- The RefPicSets (`sets`) hold references on pictures from one access unit to the next;
  a client buffer is released when neither the array, the current picture nor a set
  refers to it (`Released`).
- The limits of the sequence are read from `sps`, the one the parser has activated,
  while `max_latency` and the size are the decoder's own copies.
- `stream` and `begin` are the history of a conforming stream; only `ParseNextPicture`
  reads them.

### ParserSession

Owners are threads that hold references; one of them, the reader, creates the parser and
parses. The pipeline is synchronous, so `ParseByteStream` is a short sequence of steps
(`call`), and what is in the pipeline is what became of each unit: `kept` by h26xparse
(which holds a unit back until the next one begins), `waiting` for its output, `shown`,
`failed`, `refused` after EOS, `dropped` by the teardown. A failure in decoding comes back to
`ParseByteStream` or is hidden by the base class, either of which `PushFails` allows. `AddRef` and `Release` are two steps
each, the atomic operation and the reading of the count for the return value, between which
other owners run.

The client keeps to what test.cpp does: it makes no call on a missing pipeline and leaves
alone a parser whose `Build` failed.

### ClientPictures

Four actions (`Alloc`, `Decode`, `Show`, `Release`) over what the application can see.
A buffer is decoded into once, while held; shown at most once, after that and while
held; never touched after its release. `H264Decoder` implements it with `held`,
`decoded` and `shown` as the refinement mapping.

### DemuxerES

`app` and `src` are the places where the application thread and the streaming thread
are; the bus thread is a loop around `Pop` and `HandleBusMessage`.

```
application  new -> play -> wait -> woken -> user <-> messages -> state -> pull -> look -> result -> user
                      \-> null ----------\-> post <- user (teardown)
             post -> join -> stop -> free -> freed
streaming    stopped -> pads -> ready -> streaming <-> push;  streaming -> eos -> drain -> done
bus thread   none -> running -> ended
```

- An action is a stretch of one thread's code between two points where another
  thread can be noticed: taking a message and handling it are two actions, so are the
  unlocked read of the state in `no_more_pads` and the setting of READY, the check for
  ERROR at the start of a read and the second look at the state at its end.
- What is done under the mutex (`SetState`, the test and the wait) is one action.
- A packet is named by its position in the file; `sent` gives the pad of each. The
  appsink's `queue` holds samples and serialized events in one order, as
  `gst_app_sink_try_pull_object` returns them, and a pull waits while it is empty and
  there was no EOS.
- `PullSample`/`PullPending` and the `LookAt...` actions are the two halves of
  `appsink_read_packet`: the next sample is set aside as `pending`, an event in the second half
  ends it when `appsink_handle_event` handled it.
- The client either reads and tears down at any time, or (`Patient`) is the loop of
  `testdemuxeres.cpp`.

External, modelled from how the code uses it: uridecodebin (pads, then no-more-pads,
then data), the funnel (a STREAM_START and other sticky events when the pad
changes), the appsink (EOS event; the EOS message once its samples are taken), the bus
(a flushing bus drops what is posted; NULL makes it flush). STREAM_GROUP_DONE at the
end depends on the upstream elements, so it is the constant `GroupDone`.

### PacketStream

Two variables: the packets of the file and what the reader got. `Receive` hands over
the next packet with its own stream. `DemuxerES` implements it; the stream id of a
received packet is mapped to the pad it stands for.

## 3. Runs

| Run | Question | Instance |
|---|---|---|
| `h264_any_stream` | Are the counter, the buffers and the frames right on every path, for any stream, damaged ones included? | 3 access units, frame_num modulo 3 (so gaps occur), two SPS of different size, one MMCO each, pool may be empty |
| `h264_failing_client` | Is any picture lost, or a buffer used out of turn, when each callback may fail, and does every call return? | 2 access units, an SPS that is refused, all callbacks may fail, fairness |
| `h264_conforming` | Are the order counts the ones meant, is the output in order, and are the buffer, the references, the client's buffers and the long-term indices within bounds? | strict compliance, 5 access units, order count types 0 to 2, 16 low bits, gaps, two long-term indices, two MMCOs per picture, drains and flushes |
| `h264_low_latency` | Is early output by `num_reorder_frames` safe, and are the references exactly those of the standard's window? | flexible compliance and live as the library sets them, 6 access units, buffer of 3, frame_num modulo 3: it wraps |
| `h265_any_stream` | The accounting questions of the first two rows, for H.265 | 3 access units of up to 2 parameter sets and slices, two SPS of different size, end of bitstream, drain, flush, stop, all callbacks may fail, fairness |
| `h265_conforming` | Are order counts, references and the pictures decoded the ones meant, within the size, in order? | 4 access units, IDR, CRA, RASL and trailing pictures of two temporal layers, long-term references, order counts modulo 8, a second smaller SPS, end of sequence, drain, flush |
| `parser_session` | Is the parser destroyed once, does EOS bring everything out, also when units fail and the caller is not told? | 3 owners, 4 packets with data, EOS or both, 2 sessions, failing parameters, codec and decoding |
| `demuxer_delivery` | Are packets delivered in order with their streams, is the end announced at the end, is teardown safe, in every interleaving? | 2 pads, 4 packets, errors, missing file, teardown at any time |
| `demuxer_ends` | Do `new`, a reading client and `teardown` finish? | 2 pads, 4 packets, intact file, fairness |
| `h264_end_picture_leak`, `h264_dpb_entries`, `demuxer_missing_file` | findings, below | smallest instance that shows each |

Bounds. A picture leaves a buffer of `size` frames after at most `size + 1` further
pictures, and each hazard needs one picture that causes it, one that fills the
buffer and one that meets the consequence; three access units with a buffer of at
most two are enough for that (two where only the answers of the client matter), and the runs about order, windows and references take
as many more as a wrap of frame_num or the reordering depth needs. Picture order counts are drawn from
three to five values that include a negative one or 0 where the code compares with 0, since the
comparison with 0, the order and a distance of at most 2 are all that is ever tested.
`MaxMmco` is 10 in the code; one or two operations per picture reach each pair of
interacting operations over several pictures. What the bounds cut off is what the
proofs of section 5 cover without any bound. The mutants (one per property) show
that each property's violation is within the bounds.

The demuxer looks at most one sample ahead and its queue mixes samples with events of
two pads: with four packets each pad is left and entered again while one sample is set
aside and others wait in the queue; a file of one packet and one of several are both among the
behaviours, because the file may end after any packet. One error is enough, as only
the first that is handled counts.

For H.265, a picture needs one access unit to be stored, one to be marked or dropped
and one to be missed: three units of arbitrary streams are enough, and four conforming ones
hold an IRAP picture, what it leads, and a wrap of the order count in both directions
(counts from -1 to 9 modulo 8, beginning at 0 with an IDR and at 2
with a CRA picture). A RASL picture that is dropped needs a CRA picture that
begins a sequence, which an end of sequence, a drain or a flush makes of the second. The
conforming streams leave out BLA and RADL pictures (a BLA picture behaves like a CRA picture
after an end of sequence here, and a RADL picture like a trailing one that does not count
for the next order count, a case two temporal layers also give), sub-layer non-reference pictures, and pictures that
are not output; the modules have them.

In a session one unit is held back, one waits and one is offered: four packets over two
sessions reach every combination. Three owners are the least for one to be destroying the parser
while another reads the count of the freed object and a third has just come and gone.

The decoder runs check deadlock: after `MaxAus` access units a drain, flush or stop is still
possible, and no intermediate phase is stuck. The demuxer does stop (it is freed), so its runs do not;
that it stops only there is what `demuxer_ends` shows. A session stops when the parser is
destroyed.

Fairness (`FairSpec` of `H264Decoder`). `WF_vars(Work)`: the streaming thread runs its call to the end;
no other thread can stop it. `SF_vars(Nals)`: an access unit has finitely many NAL
units, so parameter sets do not arrive forever without a slice or the end of the
unit. Nothing is assumed about the application: `Calls` is not fair. In `H265Decoder`
`WF_vars(Work)` is enough, because `MaxNalu` bounds the units parsed before any is decoded.

In `DemuxerES` each of the three threads is weakly fair (the scheduler runs them), a file
is finite, and the client goes on to its next call as the test program does. Nothing
is assumed about errors. `demuxer_ends` leaves errors and a missing file out because with them the
findings below show that the properties fail or hold for another reason.

`ShownInOrder` is checked for a buffer with room for the references, the reordering
depth and the current picture: with a smaller one the buffer is full of references
and pictures are forced out early, which the standard calls non-conforming.

## 4. Findings

1. **A buffer leaks when `DecodePicture` returns false** (`h264_end_picture_leak`).
   `finish_current_picture` sets `current_picture` to NULL on that path although only
   `finish_picture`, which is skipped, takes ownership of it
   (`gsth264decoder.c:1887-1893`).
2. **References are missing from the list handed to the client** (`h264_dpb_entries`). The
   loop over the long-term references goes on with the index the loop over the short-term
   ones ended with, and leaves out as many long-term references as there are short-term ones
   (`gstvkh264dec.cpp:782`).
3. **`gst_demuxer_es_new` hangs on a file that cannot be opened**
   (`demuxer_missing_file`). The pipeline is set to NULL before the teardown, which
   makes its bus flush; the "exit" message is dropped and the join of the bus thread
   waits forever (`gstdemuxeres.c:606`, `:705`, `:712`). The test program expects NULL.

Each is a run that TLC finds violated, under the constants that keep everything else
ordinary (a conforming stream, and only the one callback failing).

Also noted while modelling. Where a model contains the behaviour, no property is kept
for it.

H.264:

- A refused `DisplayPicture` leaves the codec frame behind: the element "must" consume
  it (`gsth264decoder.h:216`) and does not (`gstvkh264dec.cpp:368`). This is why
  `FramesOwedCorrect` needs its hypothesis.
- A refused SPS is half applied: the buffer has the new size, the reordering depth and
  the parameter set are the old ones (`gsth264decoder.c:2519`).
- Live mode waits once the buffer is full: the extra bump "to avoid waiting for another
  decoding circle" never bumps in that state, because with no picture to insert
  `normal_bump` says no (`gsth264decoder.c:2208`, `gsth264picture.c:831`).
- The low-latency rule for consecutive non-reference pictures, marked "Safe.", disorders
  conforming streams: a reference picture that belongs between them may still follow
  (`gsth264picture.c:743`).
- After a gap in frame_num `prev_ref_frame_num` is not updated. If the picture after the gap
  is not a reference, the next one meets the gap again: the same pictures are
  inferred twice, two short-term references have one frame_num, and real references are
  evicted (`gsth264decoder.c:1025`). A conforming stream of three access units does it; the
  limits and the order counts still hold.
- The packed frame rate is multiplied by 1000 and overflows (`gstvkh264dec.cpp:236`; the
  H.265 element does not multiply).

H.265:

- `SpsMaxLatencyPictures` is kept from an earlier SPS when the new one has no limit, and
  forces pictures out early (`gsth265decoder.c:439`); five access units violate
  `ShownInOrder`. The conforming run uses sets without a limit.
- With a latency limit `ShownInOrder` fails in any case (buffer of 6, reordering 2, latency 1, five access
  units): `gst_h265_dpb_add` ages every picture that waits (`gsth265picture.c:205`), where C.5.2.3, which
  its comment names, ages only those that follow the current picture in output order.
- At the first picture of a sequence with a smaller SPS the pictures and RefPicSets of the sequence before
  still hold their buffers, which may be more than the `nMinNumDecodeSurfaces` just announced.
  `BuffersWithinSequence` excepts that moment (`Renewing`).
- When `DecodePicture` returns false the picture is stored and shown all the same (`:1830`),
  while the H.264 decoder drops it.
- An end of bitstream sets `new_bitstream`, so that the next IRAP picture neither clears nor
  outputs what is in the buffer (`:853`). A flush and a drain leave `new_bitstream` alone,
  and the RefPicSets keep client buffers after both.
- Only the first slice of an IDR picture finds `new_bitstream` set; a second one in the same
  access unit is given `clear_dpb`, which nothing reads from it.
- `nMinNumDecodeSurfaces` is MIN(size + 1, 8), too small for a sequence that buffers 8
  pictures or more (`gstvkh265dec.cpp:186`).
- Parameter sets are handed to the client even when their parsing failed, `pStdVps` may point to a
  VPS that was never filled, and the count of VPS updates is taken from that of the PPS
  (`gstvkh265dec.cpp:893`).

Session:

- A failed `Build` leaves a parser whose harness was never made; its teardown reads
  uninitialised members (`gstvkvideoparser.cpp:117`). A second `Initialize` leaks the first
  pipeline, and `ParseByteStream` before `Initialize` dereferences NULL.
- `Release` reads the count again for its return value, possibly of an object another
  owner has destroyed (`vkvideodecodeparser.cpp:135`). The model shows that only the value returned
  can be wrong: the decision to destroy is atomic (`DestroyedOnce`).
- A client that refuses `AllocPictureBuffer`, `DecodePicture` or `DisplayPicture` normally gets true
  from `ParseByteStream` all the same: `handle_frame` passes its error through `GST_VIDEO_DECODER_ERROR`
  (`gsth264decoder.c:567`, `:583`, `gsth265decoder.c:1933`, `:1952`), which hides it while the error count of the
  base class is within `max-errors`, and nothing here sets that property. `PushFails` leaves
  open whether the error comes back, so no bound on the failures that go unreported is claimed.
- When a false return does come it concerns the unit before; the pipeline has taken the data, and a
  client that offers it again decodes it twice. If bEOS came with that data, EOS is never sent
  (`vkvideodecodeparser.cpp:104-106`). An error of the last unit, which EOS brings to the decoder, is never
  reported. test.cpp forgets an error in the middle of a stream.

Demuxer:

- Without STREAM_GROUP_DONE reading need not end: the EOS message can be handled after the
  last packet was returned as new, and later reads return NO_PACKET (`gstdemuxeres.c:657`).
- The last packet can be lost: while it is set aside the EOS message is handled, the packet
  before it is reported as the last, and the test program stops. `LastMissesOne`, proved, says
  that never more than one is lost.
- An error can be forgotten: READY, ERROR and EOS share one state variable. An EOS handled
  after the error overwrites it before a read looks (`gstdemuxeres.c:494`), and so does `no_more_pads` when the
  error comes between its test and READY (`:402`).

## 5. Proofs

The H.264 theorems hold for every value of the constants that satisfies
`ConstantsAssumption` and `MinPocAssumption` (types only: any SPS set, any number of
access units, any `CanFail`). The first six hold for any stream, the next nine assume
`Conforming`. Of these the limits, the references and the output order also assume
`SoundSps`: each SPS has room for the references and for the reordering it announces. Those on
order, references, gaps and order counts have further hypotheses, given with their argument. `OrderImplementsDecoder` needs none: it
carries the safety results over to `H264Order`.

| Theorem | States |
|---|---|
| `TypeCorrect` | `Spec => []TypeOK` |
| `OutputCounterCorrect` | `num_output_needed` is the number of pictures flagged and not negative |
| `NothingLostCorrect` | each decoded picture is shown, waits, or was dropped for a reason |
| `BuffersAccountedCorrect` | unless `DecodePicture` fails, the buffers held are those of the decoder's pictures |
| `FramesOwedCorrect` | unless `DisplayPicture` fails, frames held and pictures waiting correspond |
| `ImplementsClientPictures` | `Spec => ClientSpec` |
| `LongTermUniqueCorrect` | no two long-term references have one index |
| `DpbWithinSizeCorrect` | the buffer has at most `max_num_frames` pictures |
| `RefsWithinLimitCorrect` | and at most `max_num_ref_frames` references, but while `Renewing` |
| `BuffersWithinSequenceCorrect` | unless `DecodePicture` fails, at most one buffer more than `max_num_frames` is held |
| `RefsAreLatestCorrect` | with the sliding window alone, the references are the long-term IDR picture and the latest reference pictures that fit beside it |
| `ReorderRuleSafeCorrect` | nothing that belongs before a picture output by the reordering rule is shown after it |
| `ShownInOrderCorrect` | strict compliance: the client is shown the pictures in output order |
| `GapsNeverFail` | filling a gap in frame_num always finds a reference the sliding window may remove |
| `PocAsMeantCorrect` | the order count calculated is the one the encoder gave the picture, in all three types |
| `OrderImplementsDecoder` | `OrderSpec => Spec`: a decoder that works out the order counts is a decoder that is told them |

The H.265 theorems hold for every value of the constants that satisfies
`ConstantsAssumption` and `StreamAssumption` (types, and an even number of values of the low bits). The
first six hold for any slices and SPS, any `CanFail`, streams that conform or not. The last six assume
`Conforming` and `Accepting` (no callback fails, since a refused picture is missing from the references), all of them but
`PocAsMeantCorrect` that no SPS asks for more than 16 pictures (`SmallBuffers`), which is the limit of `start_picture` and
of the levels, and the order of output what `PlainSps` and `PlainEnds` say: no latency limit, no SPS that asks for more
pictures than the buffer has, no end of bitstream unit. The constants of `h265_conforming` satisfy all of these.

| Theorem | States |
|---|---|
| `TypeCorrect` | `Spec => []TypeOK` |
| `OutputCounterCorrect` | `num_output_needed` is the number of pictures flagged and not negative |
| `BuffersAccountedCorrect` | the buffers held are those of the pictures in the buffer, the current one and those the reference picture sets name |
| `FramesOwedCorrect` | pictures waiting have their frames; between calls only pictures the client refused to display keep one besides |
| `NothingLostCorrect` | each picture passed to `DecodePicture` is shown, waits, or was dropped for a reason |
| `ImplementsClientPictures` | `Spec => ClientSpec`, `decoded` being the pictures passed to `DecodePicture` |
| `PocAsMeantCorrect` | the order count worked out from its lowest bits is the one the encoder meant |
| `ReferencesAsMeantCorrect` | the references handed to the client are those the encoder referred to |
| `DecodedAsMeantCorrect` | every picture of the stream reaches the client but the RASL pictures that cannot be decoded |
| `DpbWithinSizeCorrect` | bumping keeps the buffer within `sps_max_dec_pic_buffering`, with a free place for the picture decoded |
| `BuffersWithinSequenceCorrect` | at most one client buffer more than that is held, but while a sequence begins (`Renewing`) |
| `ShownInOrderCorrect` | the client is shown the pictures in output order |

The first six need no hypothesis about failures: the H.265 decoder stores a picture whose
`DecodePicture` failed, so its buffer has an owner, and `FramesOwed` names the pictures whose display
was refused (`refused`, a history variable that no action reads). They are its only exception: a picture that is
not output, one cleared unseen, a dropped RASL picture and a failed unit must have given their frames back. The refinement therefore says less than for
H.264, where `decoded` holds the accepted pictures only: a picture the client refused to decode
may be shown.

Those of `DemuxerESProofs` hold for any finite nonempty set of pads, any number of
packets and any values of the four switches (`DemuxerAssumption`).

| Theorem | States |
|---|---|
| `DemuxerTypeCorrect` | `Spec => []TypeOK` |
| `NoUseAfterFreeCorrect` | teardown frees only what no thread uses |
| `StreamsCompleteCorrect` | a client that has a demuxer sees all streams |
| `LastMissesOneCorrect` | LAST_PACKET comes at the end, at most one packet early |
| `ImplementsPacketStream` | `Spec => InOrder` |

Those of `ParserSessionProofs` hold for any finite set of owners, any number of packets and
sessions, and any failures (`SessionAssumption`).

| Theorem | States |
|---|---|
| `ParserDestroyedOnce` | while an owner holds a reference the parser lives; when none does, exactly one destroys it |
| `PipelineEmptied` | with the parser everything in the pipeline is gone |
| `EndOfStreamFlushes` | when true is returned for an EOS packet, nothing it took is in the pipeline |

The hypotheses of the fourth and fifth H.264 theorem are the refused `DecodePicture` and
`DisplayPicture` of section 4: without them the statements are false.

The argument. `IInv` (`H264DecoderProofs`) is the types, `DpbOk(dpb)`,
`CurrentPicture` and `StoredEarlier`. `DpbOk` is what each DPB operation preserves:
finitely many pictures at distinct positions, distinct frames, gap pictures never
output, and the counter equal to the number of flags. The counter alone is not
inductive: that `bump` lowers both sides by one needs finiteness, that `add` raises
both needs the new position to be fresh, and that marking changes neither needs
positions to identify pictures. Marking is treated once: every marking operation is
a `Remarked` buffer (the same pictures, other reference marks), and a lemma says
what that preserves. `CurrentPicture` and `StoredEarlier` say where the picture in
progress is; they are what keeps frames distinct when it is stored.

`ClientInv` (`H264ClientProofs`) adds `Backed` and `NoLeak` (buffers held against
pictures in the decoder, from both sides), `Stages` (before `end_picture` the picture
in progress is not decoded, after it is; pictures waiting for output are decoded
and not shown), `NothingLost` and `Owed`. `Stages` is what makes the refinement
work: `Show` is allowed only for a decoded picture that was not shown, and a
picture is flagged `needed_for_output` only once it was decoded. The steps fall into four
kinds with a lemma each: nothing the client sees (`IdleClient`), unused pictures
leave (`DeleteClient`), the buffer is emptied (`ClearClient`), one picture is
output (`BumpClient`); the rest are single actions. Each lemma proves the invariant
and the corresponding step of `ClientPictures` together.

The argument for conforming streams. `LongTermInv` is `LongTermUnique` with the current picture
told apart from those of the buffer (`Apart`), since MMCO 6 gives it an index before it is stored;
MMCO 3 has to remove the owner of the index before it converts another picture. `Limits` bounds the
numbers of pictures and references. That adding one keeps the bounds is known long before the
addition: `Slides` (the sliding window will find a short-term reference to remove) and `Free` (the
place is free) carry it from `MayFollow` and `Fits` at the beginning of the picture over the loops in
between. That the window finds one is not a result: section 8.2.5.3 demands it of the stream, and the last
clause of `MayFollow` says so of the buffer the picture finds. The sliding window finds its picture because a nonempty set of frame numbers has a lowest
(`Ranking`), and so does the bumping. That the loop of bumping leaves an empty buffer for a
reference picture follows in two ways: while a picture waits for its output, every mode goes on
bumping until there is one (`NormalBump`); and when none waits, only references are
in the buffer, because nothing in it is unused (`Clean`), and of those there are few enough (`Free`). `Sized` and `Opens` say when
the size of the buffer is that of the SPS in force and that a new SPS is followed by an IDR
picture. Between the two (`Renewing`) the references are those of the earlier sequence, which
may be more than the new SPS allows. Without `SoundSps` the bounds can fail: `process_sps` refuses an SPS
whose reordering exceeds the buffer after it has changed its size (section 4).

The argument for the order of output (`H264OrderProofs`). `OrderInv` says that nothing that waits
belongs before the last picture shown, and (`Passed`) that more than `num_reorder_frames` pictures of
the sequence are at or behind that one, so that by `MayFollow` none that belongs before it can still
come. Both are broken while an IDR picture or operation 5 waits for the earlier pictures to be drained
(`Restarting`). The reordering rule re-establishes `Passed` in every mode: it lets a picture out only when
`num_reorder_frames` others wait behind it. In strict compliance a picture
is also output because the buffer is full, and then the count has to come from the buffer: it holds at most
`MaxRefs` references, so that at least `size - MaxRefs` pictures wait. `Roomy` (`MaxRefs + num_reorder_frames <= size`
for each SPS) makes these enough. Without it a conforming stream exists that keeps references which were
all shown already, and the picture under way is output at once although one that
precedes it can follow. `SoundPocs` is that `MinPoc` is below every order count, which `G_MININT32` is.

The argument for the references (`H264ClientProofs`). `RefsInv` speaks of the references that the
marking of the picture under way will leave (`Meant`), since the deletion of the oldest comes only with
it: none that is missing is later than one that is there (`Latest`), and there are as many as the
window has room for, or all of them (`Filled`). That the sliding window takes the earliest follows
from `LaterOrder`: the reference pictures have consecutive values of frame_num modulo `MaxFrameNum`, and
the `FrameNumWrap` of two of them are ordered as they are if fewer than `MaxFrameNum` came since. Hence the
hypothesis in `SlidingOnly`: with 16 references and four bits of frame_num the oldest of them and a
picture that repeats its frame_num cannot be told apart, neither by the code nor by section 8.2.4.1, and TLC
shows the property violated there. Gaps are excluded because a picture inferred for one has no number of
its own, and failures of `DecodePicture` and `DisplayPicture` (`Accepting`) because a dropped
picture is missing from the references.

The argument for the order counts (`H264OrderProofs`). `calculate_poc` counts on from what it remembers of the
previous picture, the encoder from what it coded. `Synced` says that the two are in step in everything but
the counts: no call fails (`Untroubled`), the frame_num the stream counts on from is the one of the
picture under way (`Headed`), and pictures inferred for a gap find room (`Roomful`). The last is not obvious,
since the code leaves `prev_ref_frame_num` behind when the picture after a gap is no reference, and then
fills the same gap again: there is room because such a picture makes no long-term reference, and the sliding
window needs one short-term reference only. It gives `GapsNeverFail`, and it is what keeps a conforming
stream from being cut short in the middle of a gap. `CountInv` follows a picture through the
header (`Coded`), the calculation (`Calculated`) and the memory (`Anchored`): what is remembered is the order
count and the frame number of the last picture, or those after operation 5 has rebased them. The steps
between are arithmetic: a count less than half the range away is got back from its low bits
(`Wrap`); the frame number is got back from its residue, as it grows by less than `MaxFrameNum` (`NumberFromFrameNum`);
and in type 1 the sums over the cycle are those of the encoder, whose recursion runs over the pictures, and not
over the cycle (`RefCountDef`). That a recursive function satisfies its equation has to be proved first. For
the two functions here it follows without the induction theorems: a nonempty set of numbers
has a least member (`LeastNumber`). `Accepting` is needed because a refused picture is not remembered;
`SoundCoding` because `log2_max_frame_num_minus4` makes frame_num at least four bits wide, and because
section 7.4.3 bounds `delta_pic_order_cnt_bottom` from below when operation 5 makes the lower of the
two counts zero: `tempPicOrderCnt` has to be a value the low bits of the next picture can count on from.

The argument for H.265. `IInv` (`H265DecoderProofs`) has `DpbOk` as above, preserved
by each operation of the buffer. The operations differ in one thing: removal moves the last picture
to the free place, so they are described by `Updated(d, S, N, d2)`, which says
that the pictures left are those of `S`, each at some position, and those of `N` wait. `Current` and
`Earlier` place the picture in progress: it is neither in the buffer nor in the reference picture
sets until it is stored. The sets have to be part of it because they outlive a drain
and a flush. `Front` says that the unit being decoded is still the first of the array. `StreamOk`
types the conforming stream the headers come from: the pictures a picture keeps
are earlier ones, for which a nonempty set of positions must have a last member (well-founded
induction). `ClientInv` (`H265ClientProofs`) is `BuffersAccounted`, `Owing`
(frames held, in the middle of a call too), `Stages` and `NothingLost`. Four lemmas cover
the kinds of steps: buffers are given back (`ShrinksClient`), nothing the client sees
(`QuietClient`), the unit fails (`GivesUpClient`), a picture is output (`BumpClient`).

The argument for conforming H.265 streams (`H265StreamProofs`). `ConformingInv` has four parts
besides these. `Reading` says that what was read is conforming and where in the access unit the decoder is:
the units left of it, the picture they belong to, and that an SPS comes only before the first slice of a sequence
(`Shape`). It is not enough to say this between calls, since a drain may come between the SPS
and its picture. `Answered` is that no callback has failed. `Counts` is the anchor of the order counts: `prev_tid0`
is that of the last picture of temporal layer 0 that is neither RASL nor RADL (`CountsKept`), which every
later picture of its sequence must be within half the range of; `PocMsbRight` is the
arithmetic, a count less than half the range away is got back from its low bits. A RASL picture
that is dropped has to leave the anchor alone, and the IRAP picture that causes the drop must have set it.

`RefsInv` says which references the buffer holds: up to `prepare_rps` those the last
decodable picture kept and itself, if no sequence begins (`DecodedUpTo`), afterwards those the new picture keeps, and
`sets` and `data` are then the ones the encoder meant. That the search of `prepare_rps` finds the
right picture is where the standard's constraints come in: the order counts of the references
of a sequence differ (`Distinct`), and low bits are sent without the rest only if no other reference has them (`Codes`).
That no reference was dropped too early follows from the reference marks (`Marked`): bumping and
clearing remove unused pictures only. `MoreSlice`, `FailFrame` and the clearing with
`no_output` have to be excluded or shown harmless: a conforming picture is never refused, since it has at most
16 references (`Fits`, `SmallBuffers`). `DecodedInv` says the same of the pictures submitted, in the middle
of an access unit too.

`SizeInv` counts what is stored, the pictures of the buffer and those only the RefPicSets name (`Stored`): at most
`sps_max_dec_pic_buffering` when all of it is of the sequence in force (`Settled`), and fewer once a picture was
given room (`Started`). The loop of `dpb_init` may end for want of a picture to output with a buffer that is still
full of pictures. It is not, because then nothing waits and nothing is unused, so that only the references
of the new picture are left, of which there are few enough (`Fits`). The RefPicSets add nothing to the buffer except
after a drain or a flush, which leave the buffer empty.

`OrderInv` says that what was shown precedes what waits and the picture in progress, and, as long as the sequence goes
on, that a picture shown has been passed (`Passed`): more than `sps_max_num_reorder_pics` pictures are at or behind it in
output order, or those and the references of one picture filled the buffer. By the limits a
conforming stream keeps to, no picture that precedes it can then come (`PassedPrecedes`). `BumpPasses` is the
reason the two rules of `needs_bump` establish it, the second in `dpb_init` only, where the buffer holds exactly the
references of the new picture and what waits. The other two rules never apply: the buffer does not outgrow the
size of the SPS (`SizeInv`, and `buffering <= size` in `PlainSps`), and there is no latency limit. `FreshInv` says that these
values are the ones of the SPS in force when it matters, and that nothing waits when a sequence begins
without clearing the buffer. The latency rule and the end of bitstream are excluded (`PlainSps`, `PlainEnds`) because with them
the statement is false (section 4).

The argument for the demuxer. `IInv` (`DemuxerESProofs`) has five parts besides the types.
`Threads` says where each thread can be while another is somewhere; it alone gives
`NoUseAfterFree`. `Complete`: no state that ends the wait of `new` is set, and no EOS
message is under way, before the last pad is there. It has to speak of messages not
yet handled, because the state changes only when one is. `Delivery` says that the file is
the packets received, then the one being returned, then the one set aside, then
the samples of the queue, in this order and without a gap (`Ordered`), and that each
sample of the queue will be labelled with its own pad: the last STREAM_START in front of
it, or the current stream if there is none, is its pad (`Labelled`, `Serves`). The
label of the pad the funnel forwards is part of it, since the next packet may come without
a new STREAM_START. `Ending`: STREAM_GROUP_DONE, an EOS message and the EOS state exist
only after the file has ended, the latter two only with no sample left in the queue. The
queue lemmas say what taking the first object and appending one do to `Ordered` and
`Labelled`; every step of the threads is one of these or leaves the queue alone.

The argument for the session. `Counted` says that `m_refCount` is the number of owners whose reference
is still counted, that nobody is destroying while there is one, and that only one does
afterwards; it is inductive because `Release` tests the value it wrote. `Reading` and `InPipeline`
connect the two halves: a unit is in the pipeline only while the parser lives, is built and has
not seen EOS, so that `Destroy` and EOS are the ends of every unit. `Flushed` is the order of the steps of
`ParseByteStream`: true is about to be returned for a packet with bEOS only once EOS went through, whatever
became of the data of that packet.

Only model-checked: `CallsReturn`, `NewReturns`, `ReaderFinishes` and `TeardownReturns`, because
liveness under fairness is outside what the prover handles.

## 6. Not modelled, and the plan

Most lines of the repository are not its own behaviour: the Vulkan headers (about 16 000 lines of
declarations) and the harness copied from GStreamer (about 5 000 lines). They are left
out, and so are the registration of the plugin, the build files and the samples.

Within H.264: interlaced streams (fields, `second_field`, `other_field`;
the branches on them are those taken for frames), the arithmetic of `process_sps` from levels
and VUI (the SPS set is an input), reference picture lists (`process_ref_pic_lists` is FALSE in
the elements, so that code is dead), output delay (`preferred_output_delay` is 0), what becomes of an error
after `handle_frame` (`GST_VIDEO_DECODER_ERROR`; `ParserSession` has both outcomes), the copying of fields in `start_picture`, `fill_sps` and
`fill_pps`, and a failing `BeginSequence` (its result only sets the number of surfaces). In type 1
the bottom field of a frame has no offset of its own, and the slices of a stream that does not conform repeat one
header per access unit.

Within H.265: SEI messages and field flags, hvcC codec data, the output delay, the reference picture
lists, the size computed from the level (`process_sps`), and the filling of Vulkan structures.

In the session: the error count itself (that an error is hidden is a choice), logging of bus messages, and the calls a client must not make (section 4).
`bPTSValid` and `bDiscontinuity` are ignored by the code.

Not modelled in the demuxer: what a packet contains, caps and the codec names read from
them, the autoplug callbacks, live sources, pads that appear after no-more-pads or fail to
link, a read after the demuxer reported an error, reference counts of samples (the one set
aside is not released by the teardown).

Order of the work:

1. `H264Dpb`, `H264Decoder`, `ClientPictures` and their proofs: done.
2. `DemuxerES`, `PacketStream` and their proofs: done.
3. `H264Order`, `H264Element`: done.
4. `H265Dpb`, `H265Stream`, `H265Decoder`: done.
5. `ParserSession` and its proofs: done.
6. Proofs about `H265Decoder`, types, the output counter, buffers, frames and the refinement: done.
7. `H264Fields`: pairing of fields, second fields in the buffer.
8. Proofs for conforming H.264 streams, long-term indices, limits, references, output order and order
   counts: done.
9. Proofs for conforming H.265 streams, order counts, references, decoded pictures, limits of the buffer and
   output order: done.
