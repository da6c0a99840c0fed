---------------------------- MODULE ParserSession ----------------------------
(***************************************************************************)
(* The library's entry points (lib/vkvideoparser): the reference-counted   *)
(* VulkanVideoDecodeParser, and the pipeline h26xparse ! vkh26xparse !     *)
(* fakesink it builds in a GstHarness, through which the client's packets  *)
(* run synchronously, in the thread that calls ParseByteStream.            *)
(*                                                                         *)
(* Several owners, each a thread, hold references on the parser; one of    *)
(* them, the reader, initializes it and parses, as test/test.cpp does. A   *)
(* packet is an access unit. H264Decoder and H265Decoder are what happens  *)
(* to a unit from its decoding on; here a picture waits, is shown or is    *)
(* refused.                                                                *)
(***************************************************************************)
EXTENDS Integers, FiniteSets

CONSTANTS
    Owners,      (* the threads that may hold a reference                  *)
    Reader,      (* the one that creates the parser and parses             *)
    CanFail,     (* "params" and "codec" in Initialize, "decode" of a unit *)
    MaxUnits,    (* bound: packets offered                                 *)
    MaxSessions  (* bound: calls of Initialize                             *)

ASSUME SessionAssumption ==
    /\ IsFiniteSet(Owners) /\ Reader \in Owners
    /\ CanFail \subseteq {"params", "codec", "decode"}
    /\ MaxUnits \in Nat /\ MaxSessions \in Nat

VARIABLES
    alive,      \* the GstVkVideoDecoderParser exists
    m_refCount, \* its count
    place,      \* where each owner is in AddRef and Release
    m_parser,   \* the GstVkVideoParser: null, built, or broken by a failed Build
    at_eos,     \* EOS went through the harness
    sessions,   \* calls of Initialize
    call,       \* where ParseByteStream is
    packet,     \* its argument: a unit, or 0 for no data, and bEOS
    result,     \* what it returned last
    offered,    \* packets offered
    unit        \* what became of each unit

refVars == <<alive, m_refCount, place>>
sessionVars == <<m_parser, at_eos, sessions>>
callVars == <<call, packet, result, offered>>
vars == <<refVars, sessionVars, callVars, unit>>

Units == 1..MaxUnits
In(states) == {n \in Units : unit[n] \in states}
(* h26xparse holds a unit back until it sees the beginning of the next.    *)
Kept == In({"kept"})

(* Owners whose reference is still counted.                                *)
Holding == {o \in Owners : place[o] \in {"holds", "added"}}

-----------------------------------------------------------------------------
(* CreateVulkanVideoDecodeParser: one reference, for its caller.           *)
Init ==
    /\ alive = TRUE /\ m_refCount = 1
    /\ place = [o \in Owners |-> IF o = Reader THEN "holds" ELSE "none"]
    /\ m_parser = "null" /\ at_eos = FALSE /\ sessions = 0
    /\ call = "idle" /\ packet = [unit |-> 0, eos |-> FALSE] /\ result = "none"
    /\ offered = 0
    /\ unit = [n \in Units |-> "new"]

(* The reader may call: it has a reference, is in no other call, and has   *)
(* no parser that a failed Build left behind. test.cpp leaves such a       *)
(* parser alone: the destructor would tear down a harness never made.      *)
Ready ==
    /\ place[Reader] = "holds" /\ call = "idle"
    /\ m_parser # "broken"

-----------------------------------------------------------------------------
(* Initialize. Bad parameters leave the parser as it was.                  *)
Initialize ==
    /\ Ready /\ m_parser = "null" /\ sessions < MaxSessions
    /\ sessions' = sessions + 1
    /\ \/ m_parser' = "built" /\ at_eos' = FALSE
       \/ "params" \in CanFail /\ UNCHANGED <<m_parser, at_eos>>
       \/ "codec" \in CanFail /\ m_parser' = "broken" /\ UNCHANGED at_eos
    /\ UNCHANGED <<refVars, callVars, unit>>

(* The teardown of the harness: what is in the pipeline goes unseen.       *)
TornDown == [n \in Units |-> IF unit[n] \in {"kept", "waiting"} THEN "dropped" ELSE unit[n]]

Deinitialize ==
    /\ Ready
    /\ m_parser' = "null"
    /\ unit' = TornDown
    /\ UNCHANGED <<refVars, at_eos, sessions, callVars>>

-----------------------------------------------------------------------------
(* ParseByteStream, called with data, with bEOS, or with both.             *)
ParseByteStream ==
    /\ Ready /\ m_parser = "built" /\ offered < MaxUnits
    /\ offered' = offered + 1
    /\ \E data, eos \in BOOLEAN :
          /\ data \/ eos
          /\ packet' = [unit |-> IF data THEN offered + 1 ELSE 0, eos |-> eos]
          /\ call' = IF data THEN "push" ELSE "eos"
    /\ UNCHANGED <<refVars, sessionVars, result, unit>>

AfterPush_ElseIf == "return"
AfterPush == IF packet.eos THEN "eos" ELSE "return"

Returns(value) == call' = "idle" /\ result' = value

(* A pad that saw EOS takes no more data. PushBuffer passes FLOW_EOS on    *)
(* and ParseByteStream takes it for an error.                              *)
PushAtEos ==
    /\ call = "push" /\ at_eos
    /\ unit' = [unit EXCEPT ![packet.unit] = "refused"]
    /\ Returns("false")
    /\ UNCHANGED <<refVars, sessionVars, packet, offered>>

(* The unit held back is decoded, then some of the pictures that wait for  *)
(* their output are shown.                                                 *)
Decoded(shown) ==
    [n \in Units |-> IF n \in shown THEN "shown"
                     ELSE IF n \in Kept THEN "waiting" ELSE unit[n]]

Push ==
    /\ call = "push" /\ ~at_eos
    /\ \E shown \in SUBSET In({"kept", "waiting"}) :
          unit' = [Decoded(shown) EXCEPT ![packet.unit] = "kept"]
    /\ call' = AfterPush
    /\ UNCHANGED <<refVars, sessionVars, packet, result, offered>>

(* The client fails in the decoding of the unit held back, some pictures   *)
(* perhaps shown before. The pipeline has taken the new unit by then.      *)
Failed(shown) ==
    [n \in Units |-> IF n \in shown THEN "shown"
                     ELSE IF n \in Kept THEN "failed" ELSE unit[n]]

(* GST_VIDEO_DECODER_ERROR decides whether the caller hears of it: it      *)
(* counts the error and turns GST_FLOW_ERROR into GST_FLOW_OK unless the   *)
(* base class's count exceeds its max-errors, which nothing here sets.     *)
(* The count starts again with every frame finished: either may happen.    *)
PushFails ==
    /\ call = "push" /\ ~at_eos
    /\ "decode" \in CanFail /\ Kept # {}
    /\ \E shown \in SUBSET In({"waiting"}) :
          unit' = [Failed(shown) EXCEPT ![packet.unit] = "kept"]
    /\ \/ call' = AfterPush /\ UNCHANGED result
       \/ Returns("false")
    /\ UNCHANGED <<refVars, sessionVars, packet, offered>>

(* EOS is pushed once. It makes h26xparse give the unit it holds back and  *)
(* the decoder drain; the flow return of that last unit is not seen.       *)
Eos ==
    /\ call = "eos" /\ ~at_eos
    /\ at_eos' = TRUE
    /\ \E last \in {Failed({}) : f \in CanFail \intersect {"decode"}} \union {Decoded({})} :
          unit' = [n \in Units |-> IF last[n] = "waiting" THEN "shown" ELSE last[n]]
    /\ call' = "return"
    /\ UNCHANGED <<refVars, m_parser, sessions, packet, result, offered>>

EosAgain ==
    /\ call = "eos" /\ at_eos
    /\ Returns("false")
    /\ UNCHANGED <<refVars, sessionVars, packet, offered, unit>>

Return ==
    /\ call = "return"
    /\ Returns("true")
    /\ UNCHANGED <<refVars, sessionVars, packet, offered, unit>>

-----------------------------------------------------------------------------
(* An owner with a reference gives another one a reference of its own. The *)
(* count is incremented, and read for the return value afterwards.         *)
AddRef(o, p) ==
    /\ place[o] = "holds" /\ place[p] = "none"
    /\ m_refCount' = m_refCount + 1
    /\ place' = [place EXCEPT ![p] = "added"]
    /\ UNCHANGED <<alive, sessionVars, callVars, unit>>

Added(o) ==
    /\ place[o] = "added"
    /\ place' = [place EXCEPT ![o] = "holds"]
    /\ UNCHANGED <<alive, m_refCount, sessionVars, callVars, unit>>

(* Release decrements and tests in one atomic step; the owner that finds 0 *)
(* destroys the parser, the others read the count for the return value, by *)
(* then perhaps of an object that is gone.                                 *)
Release(o) ==
    /\ place[o] = "holds" /\ m_parser # "broken"
    /\ o = Reader => call = "idle"
    /\ m_refCount' = m_refCount - 1
    /\ place' = [place EXCEPT ![o] = IF m_refCount = 1 THEN "last" ELSE "reads"]
    /\ UNCHANGED <<alive, sessionVars, callVars, unit>>

ReadCount_Tests(o) ==
    /\ place[o] = "reads"
    /\ place' = [place EXCEPT ![o] = IF m_refCount = 0 THEN "last" ELSE "none"]
    /\ UNCHANGED <<alive, m_refCount, sessionVars, callVars, unit>>

ReadCount(o) ==
    /\ place[o] = "reads"
    /\ place' = [place EXCEPT ![o] = "none"]
    /\ UNCHANGED <<alive, m_refCount, sessionVars, callVars, unit>>

(* Deinitialize and delete: the class has no destructor of its own to tear *)
(* the harness down.                                                       *)
Destroy_OnlyDeletes(o) ==
    /\ place[o] = "last"
    /\ alive' = FALSE
    /\ place' = [place EXCEPT ![o] = "none"]
    /\ UNCHANGED <<m_refCount, sessionVars, callVars, unit>>

Destroy(o) ==
    /\ place[o] = "last"
    /\ alive' = FALSE
    /\ m_parser' = "null" /\ unit' = TornDown
    /\ place' = [place EXCEPT ![o] = "none"]
    /\ UNCHANGED <<m_refCount, at_eos, sessions, callVars>>

-----------------------------------------------------------------------------
Parsing == PushAtEos \/ Push \/ PushFails \/ Eos \/ EosAgain \/ Return
Counting(o) == Added(o) \/ ReadCount(o) \/ Destroy(o)

Next ==
    \/ Initialize \/ Deinitialize \/ ParseByteStream \/ Parsing
    \/ \E o \in Owners : Release(o) \/ Counting(o) \/ \E p \in Owners : AddRef(o, p)

Spec == Init /\ [][Next]_vars

-----------------------------------------------------------------------------
(* The variables have the types of the C++ members, and the places and     *)
(* states are the ones named above.                                        *)
TypeOK ==
    /\ alive \in BOOLEAN /\ m_refCount \in Nat
    /\ place \in [Owners -> {"none", "holds", "added", "reads", "last"}]
    /\ m_parser \in {"null", "built", "broken"} /\ at_eos \in BOOLEAN
    /\ sessions \in 0..MaxSessions
    /\ call \in {"idle", "push", "eos", "return"}
    /\ packet \in [unit: 0..MaxUnits, eos: BOOLEAN]
    /\ call = "push" => packet.unit \in Units
    /\ result \in {"none", "true", "false"}
    /\ offered \in 0..MaxUnits
    /\ unit \in [Units -> {"new", "kept", "waiting", "shown", "failed", "refused", "dropped"}]

(* Whatever the order in which the owners come and go, the parser lives as *)
(* long as one of them holds a reference, and when none does exactly one   *)
(* of them is destroying it, or has.                                       *)
Destroying == {o \in Owners : place[o] = "last"}
DestroyedOnce ==
    /\ Holding # {} => alive /\ Destroying = {}
    /\ Holding = {} => (alive <=> Destroying # {})
    /\ \A o, p \in Destroying : o = p

(* With the parser the pipeline is gone, and in it every unit it held back *)
(* and every picture that waited: no client buffer stays behind.           *)
NothingLeftBehind == ~alive => m_parser = "null" /\ In({"kept", "waiting"}) = {}

(* "true if this is an End-Of-Stream packet (flush everything)": when      *)
(* ParseByteStream returns true for such a packet nothing it ever took is  *)
(* still in the pipeline: the unit held back was decoded, or failed, and   *)
(* every picture that waited was handed over, in this and earlier sessions.*)
EosFlushes ==
    call = "idle" /\ result = "true" /\ packet.eos => In({"kept", "waiting"}) = {}

=============================================================================
