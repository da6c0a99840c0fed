--------------------------- MODULE ClientPictures ---------------------------
(***************************************************************************)
(* What the application sees of the parser through the callbacks of        *)
(* VulkanVideoParserIf.h: picture buffers it hands out in                  *)
(* AllocPictureBuffer, is asked to decode into in DecodePicture and to     *)
(* show in DisplayPicture, and gets back when their last reference is      *)
(* released. Each buffer is named by the picture it was handed out for.    *)
(***************************************************************************)
EXTENDS Naturals

CONSTANT Pictures

VARIABLES
    held,     \* buffers the parser has a reference on
    decoded,  \* pictures passed to DecodePicture (for H.264, and accepted)
    shown     \* pictures DisplayPicture accepted

vars == <<held, decoded, shown>>

Init == held = {} /\ decoded = {} /\ shown = {}

Alloc(p) ==
    /\ p \notin held \union decoded \union shown
    /\ held' = held \union {p}
    /\ UNCHANGED <<decoded, shown>>

(* A buffer is decoded into once, while it is held, and given back later.  *)
(* The parser may release others at that moment.                           *)
Decode(p) ==
    /\ p \in held \ decoded
    /\ decoded' = decoded \union {p}
    /\ held' \in {S \union {p} : S \in SUBSET held}
    /\ UNCHANGED shown

(* A buffer is shown once, after it is decoded and while it is held: its   *)
(* content is what was decoded.                                            *)
Show(p) ==
    /\ p \in (held \intersect decoded) \ shown
    /\ shown' = shown \union {p}
    /\ held' \in {held, held \ {p}}
    /\ UNCHANGED decoded

Release ==
    /\ held' \in SUBSET held
    /\ UNCHANGED <<decoded, shown>>

Next ==
    \/ \E p \in Pictures : Alloc(p) \/ Decode(p) \/ Show(p)
    \/ Release

Spec == Init /\ [][Next]_vars
=============================================================================
