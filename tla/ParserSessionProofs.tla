------------------------ MODULE ParserSessionProofs ------------------------
(***************************************************************************)
(* Theorems about ParserSession for any finite set of owners, any number   *)
(* of packets and sessions, and any failures.                              *)
(***************************************************************************)
EXTENDS ParserSession, FiniteSetTheorems, TLAPS

(* The count is the number of owners whose reference is still counted; the *)
(* one that took it to 0 is alone, and nobody can add a reference then.    *)
Counted ==
    /\ m_refCount = Cardinality(Holding)
    /\ Holding # {} => alive /\ Destroying = {}
    /\ Holding = {} => (alive <=> Destroying # {})
    /\ \A o, p \in Destroying : o = p

(* The reader is inside ParseByteStream only with a reference of its own,  *)
(* and with a pipeline.                                                    *)
Reading == call # "idle" => place[Reader] = "holds" /\ m_parser = "built"

(* Units wait only in the pipeline of a parser that has seen no EOS.       *)
InPipeline == In({"kept", "waiting"}) # {} => alive /\ m_parser = "built" /\ ~at_eos

(* Before true is returned for an End-Of-Stream packet, EOS went through.   *)
Flushed == call = "return" /\ packet.eos => at_eos

IInv == TypeOK /\ Counted /\ Reading /\ InPipeline /\ NothingLeftBehind /\ Flushed
             /\ EosFlushes

-----------------------------------------------------------------------------
LEMMA HoldingFinite == IsFiniteSet(Holding) /\ Cardinality(Holding) \in Nat
<1>1. Holding \subseteq Owners
  BY DEF Holding
<1>2. IsFiniteSet(Holding)
  BY <1>1, SessionAssumption, FS_Subset
<1> QED
  BY <1>2, FS_CardinalityType

LEMMA InitInv == Init => IInv
<1> SUFFICES ASSUME Init PROVE IInv
  OBVIOUS
<1> USE SessionAssumption
<1>1. Holding = {Reader} /\ Destroying = {}
  BY DEF Init, Holding, Destroying
<1>2. Cardinality({Reader}) = 1
  BY FS_Singleton
<1>3. TypeOK
  <2>1. packet \in [unit: 0..MaxUnits, eos: BOOLEAN] /\ place \in [Owners -> {"none", "holds", "added", "reads", "last"}]
    BY DEF Init
  <2>2. unit \in [Units -> {"new", "kept", "waiting", "shown", "failed", "refused", "dropped"}]
    BY DEF Init
  <2>3. alive \in BOOLEAN /\ at_eos \in BOOLEAN
    BY DEF Init
  <2>4. /\ m_refCount \in Nat /\ sessions \in 0..MaxSessions /\ offered \in 0..MaxUnits
        /\ m_parser = "null" /\ call = "idle" /\ result = "none"
    BY DEF Init
  <2> QED
    BY <2>1, <2>2, <2>3, <2>4 DEF TypeOK
<1>4. In({"kept", "waiting"}) = {}
  BY DEF Init, In
<1> QED
  BY <1>1, <1>2, <1>3, <1>4
  DEF Init, IInv, Counted, Reading, InPipeline, NothingLeftBehind, Flushed, EosFlushes

-----------------------------------------------------------------------------
(* The counting of references.                                             *)

LEMMA SameOwners ==
  ASSUME Counted, UNCHANGED refVars
  PROVE  Counted'
BY DEF Counted, refVars, Holding, Destroying

LEMMA AddRefCounted ==
  ASSUME TypeOK, Counted, NEW o \in Owners, NEW p \in Owners, AddRef(o, p)
  PROVE  Counted'
<1>1. Holding' = Holding \union {p} /\ p \notin Holding /\ o \in Holding
  BY DEF AddRef, Holding, TypeOK
<1>2. Destroying' = Destroying
  BY DEF AddRef, Destroying, TypeOK
<1>3. Cardinality(Holding') = Cardinality(Holding) + 1
  BY <1>1, HoldingFinite, FS_AddElement
<1> QED
  BY <1>1, <1>2, <1>3 DEF Counted, AddRef

LEMMA ReleaseCounted ==
  ASSUME TypeOK, Counted, NEW o \in Owners, Release(o)
  PROVE  Counted' /\ m_refCount' \in Nat
<1>1. Holding' = Holding \ {o} /\ o \in Holding
  BY DEF Release, Holding, TypeOK
<1>2. Cardinality(Holding') = Cardinality(Holding) - 1 /\ IsFiniteSet(Holding')
  BY <1>1, HoldingFinite, FS_RemoveElement
<1>3. Cardinality(Holding') \in Nat
  BY <1>2, FS_CardinalityType
<1>4. Destroying = {} /\ alive
  BY <1>1 DEF Counted
<1>5. CASE m_refCount = 1
  <2>1. Holding' = {}
    BY <1>2, <1>5, FS_EmptySet DEF Counted
  <2>2. Destroying' = {o}
    BY <1>4, <1>5 DEF Release, Destroying, TypeOK
  <2> QED
    BY <1>2, <1>3, <1>4, <2>1, <2>2 DEF Counted, Release
<1>6. CASE m_refCount # 1
  <2>1. Destroying' = {}
    BY <1>4, <1>6 DEF Release, Destroying, TypeOK
  <2>2. Holding' # {}
    <3>1. Cardinality(Holding) # 1
      BY <1>6 DEF Counted
    <3> QED
      BY <1>2, <3>1, HoldingFinite, FS_EmptySet
  <2> QED
    BY <1>2, <1>3, <1>4, <2>1, <2>2 DEF Counted, Release
<1> QED
  BY <1>5, <1>6

LEMMA CountingCounted ==
  ASSUME TypeOK, Counted, NEW o \in Owners, Counting(o)
  PROVE  Counted'
<1>1. CASE Added(o)
  <2>1. Holding' = Holding /\ Destroying' = Destroying
    BY <1>1 DEF Added, Holding, Destroying, TypeOK
  <2> QED
    BY <1>1, <2>1 DEF Added, Counted
<1>2. CASE ReadCount(o)
  <2>1. Holding' = Holding /\ Destroying' = Destroying
    BY <1>2 DEF ReadCount, Holding, Destroying, TypeOK
  <2> QED
    BY <1>2, <2>1 DEF ReadCount, Counted
<1>3. CASE Destroy(o)
  <2>1. o \in Destroying
    BY <1>3 DEF Destroy, Destroying
  <2>2. Holding = {} /\ Destroying = {o}
    BY <2>1 DEF Counted
  <2>3. Holding' = Holding
    BY <1>3 DEF Destroy, Holding, TypeOK
  <2>4. Destroying' = {}
    BY <1>3, <2>2 DEF Destroy, Destroying, TypeOK
  <2> QED
    BY <1>3, <2>2, <2>3, <2>4 DEF Destroy, Counted
<1> QED
  BY <1>1, <1>2, <1>3 DEF Counting

-----------------------------------------------------------------------------
(* A step of an owner leaves the session alone, or destroys it.            *)
LEMMA OwnersInv ==
  ASSUME IInv, NEW o \in Owners, NEW p \in Owners, Release(o) \/ Counting(o) \/ AddRef(o, p)
  PROVE  IInv'
<1> USE DEF IInv
<1>1. Counted' /\ m_refCount' \in Nat
  <2>1. CASE Release(o)
    BY <2>1, ReleaseCounted
  <2>2. CASE Counting(o)
    BY <2>2, CountingCounted DEF TypeOK, Counting, Added, ReadCount, Destroy
  <2>3. CASE AddRef(o, p)
    <3>1. m_refCount \in Nat /\ m_refCount' = m_refCount + 1
      BY <2>3 DEF TypeOK, AddRef
    <3> QED
      BY <2>3, <3>1, AddRefCounted
  <2> QED
    BY <2>1, <2>2, <2>3
<1>2. CASE Release(o) \/ Added(o) \/ ReadCount(o) \/ AddRef(o, p)
  <2>1. UNCHANGED <<alive, sessionVars, callVars, unit>>
    BY <1>2 DEF Release, Added, ReadCount, AddRef
  <2>2. TypeOK'
    BY <1>1, <1>2, <2>1
    DEF IInv, TypeOK, Release, Added, ReadCount, AddRef, sessionVars, callVars
  <2>3. Reading'
    <3>1. UNCHANGED <<call, m_parser>>
      BY <2>1 DEF sessionVars, callVars
    <3>2. CASE Release(o)
      BY <3>1, <3>2, SessionAssumption DEF TypeOK, Reading, Release
    <3>3. CASE Added(o) \/ ReadCount(o)
      BY <3>1, <3>3, SessionAssumption DEF TypeOK, Reading, Added, ReadCount
    <3>4. CASE AddRef(o, p)
      BY <3>1, <3>4, SessionAssumption DEF TypeOK, Reading, AddRef
    <3> QED
      BY <1>2, <3>2, <3>3, <3>4
  <2> QED
    BY <1>1, <2>1, <2>2, <2>3
    DEF IInv, InPipeline, NothingLeftBehind, Flushed, EosFlushes, In, sessionVars,
        callVars
<1>3. CASE Destroy(o)
  <2>1. In({"kept", "waiting"})' = {}
    BY <1>3 DEF Destroy, TornDown, In, IInv, TypeOK
  <2>2. TypeOK'
    BY <1>1, <1>3 DEF Destroy, TornDown, IInv, TypeOK, callVars
  <2>3. Reading'
    <3>1. Reader \notin Holding
      BY <1>3 DEF IInv, Counted, Destroy, Destroying
    <3> QED
      BY <1>3, <3>1, SessionAssumption DEF IInv, Reading, Holding, Destroy, callVars
  <2> QED
    BY <1>1, <1>3, <2>1, <2>2, <2>3
    DEF IInv, InPipeline, NothingLeftBehind, Flushed, EosFlushes, Destroy, callVars
<1> QED
  BY <1>2, <1>3 DEF Counting

-----------------------------------------------------------------------------
LEMMA ReaderAlive ==
  ASSUME IInv, Ready \/ call # "idle"
  PROVE  alive /\ place[Reader] = "holds" /\ (call # "idle" => m_parser = "built")
BY SessionAssumption DEF IInv, Ready, Reading, Counted, Holding

LEMMA InitializeInv ==
  ASSUME IInv, Initialize
  PROVE  IInv'
<1>1. In({"kept", "waiting"}) = {} /\ In({"kept", "waiting"})' = {}
  BY DEF IInv, InPipeline, Initialize, In
<1>2. TypeOK'
  <2>1. UNCHANGED <<alive, m_refCount, place, call, packet, result, offered, unit>>
    BY DEF Initialize, refVars, callVars
  <2>2. sessions' \in 0..MaxSessions
    BY SessionAssumption DEF IInv, TypeOK, Initialize
  <2>3. m_parser' \in {"null", "built", "broken"} /\ at_eos' \in BOOLEAN
    BY DEF IInv, TypeOK, Initialize
  <2> QED
    BY <2>1, <2>2, <2>3 DEF IInv, TypeOK
<1>3. Counted'
  BY SameOwners DEF IInv, Initialize
<1>4. alive
  BY ReaderAlive DEF Initialize
<1> QED
  BY <1>1, <1>2, <1>3, <1>4
  DEF IInv, Initialize, Ready, Reading, InPipeline, NothingLeftBehind, Flushed, EosFlushes,
      refVars, callVars

LEMMA DeinitializeInv ==
  ASSUME IInv, Deinitialize
  PROVE  IInv'
<1>1. In({"kept", "waiting"})' = {}
  BY DEF IInv, TypeOK, Deinitialize, TornDown, In
<1>2. TypeOK'
  BY DEF IInv, TypeOK, Deinitialize, TornDown, refVars, callVars
<1>3. Counted'
  BY SameOwners DEF IInv, Deinitialize
<1> QED
  BY <1>1, <1>2, <1>3
  DEF IInv, Deinitialize, Reading, Ready, InPipeline, NothingLeftBehind, Flushed, EosFlushes,
      refVars, callVars

LEMMA ParseByteStreamInv ==
  ASSUME IInv, ParseByteStream
  PROVE  IInv'
<1> USE SessionAssumption
<1>1. PICK data \in BOOLEAN, eos \in BOOLEAN :
         /\ packet' = [unit |-> IF data THEN offered + 1 ELSE 0, eos |-> eos]
         /\ call' = IF data THEN "push" ELSE "eos"
  BY DEF ParseByteStream
<1>2. offered' \in Units /\ offered' = offered + 1
  BY DEF IInv, TypeOK, ParseByteStream, Units
<1>3. packet' \in [unit: 0..MaxUnits, eos: BOOLEAN] /\ (call' = "push" => packet'.unit \in Units)
  BY <1>1, <1>2 DEF Units
<1>4. TypeOK'
  <2>1. UNCHANGED <<alive, m_refCount, place, m_parser, at_eos, sessions, result, unit>>
    BY DEF ParseByteStream, refVars, sessionVars
  <2>2. call' \in {"push", "eos"} /\ offered' \in 0..MaxUnits
    BY <1>1, <1>2 DEF Units
  <2> QED
    BY <1>3, <2>1, <2>2 DEF IInv, TypeOK
<1>5. Counted'
  BY SameOwners DEF IInv, ParseByteStream
<1>6. Flushed' /\ EosFlushes'
  BY <1>1 DEF Flushed, EosFlushes
<1> QED
  BY <1>1, <1>4, <1>5, <1>6
  DEF IInv, ParseByteStream, Ready, Reading, InPipeline, NothingLeftBehind, In,
      refVars, sessionVars

-----------------------------------------------------------------------------
(* The steps of ParseByteStream.                                           *)
LEMMA RefusedInv ==
  ASSUME IInv, PushAtEos \/ EosAgain
  PROVE  IInv'
<1>1. TypeOK'
  BY DEF IInv, TypeOK, PushAtEos, EosAgain, Returns, refVars, sessionVars
<1>2. Counted'
  BY SameOwners DEF IInv, PushAtEos, EosAgain
<1>3. In({"kept", "waiting"})' \subseteq In({"kept", "waiting"})
  BY DEF IInv, TypeOK, PushAtEos, EosAgain, In
<1>4. Flushed' /\ EosFlushes'
  BY DEF Flushed, EosFlushes, PushAtEos, EosAgain, Returns
<1> QED
  BY <1>1, <1>2, <1>3, <1>4, ReaderAlive
  DEF IInv, PushAtEos, EosAgain, Returns, Reading, InPipeline, NothingLeftBehind, refVars, sessionVars

LEMMA PushInv ==
  ASSUME IInv, Push \/ PushFails
  PROVE  IInv'
<1> USE SessionAssumption
<1>1. call = "push" /\ ~at_eos /\ UNCHANGED <<refVars, sessionVars, packet, offered>>
  BY DEF Push, PushFails
<1>2. packet.unit \in Units
  BY <1>1 DEF IInv, TypeOK
<1>3. unit' \in [Units -> {"new", "kept", "waiting", "shown", "failed", "refused", "dropped"}]
  BY DEF IInv, TypeOK, Push, PushFails, Decoded, Failed
<1>4. unit'[packet.unit] = "kept"
  BY <1>2 DEF Push, PushFails, Decoded, Failed
<1>5. call' \in {"idle", "eos", "return"} /\ result' \in {"none", "true", "false"}
  BY DEF IInv, TypeOK, Push, PushFails, AfterPush, Returns
<1>6. call' = "idle" => result' = "false"
  BY DEF Push, PushFails, AfterPush, Returns
<1>7. call' = "return" => ~packet.eos
  BY DEF Push, PushFails, AfterPush, Returns
<1>9. TypeOK'
  BY <1>1, <1>3, <1>5 DEF IInv, TypeOK, refVars, sessionVars
<1>10. Counted'
  BY <1>1, SameOwners DEF IInv
<1>11. alive /\ place[Reader] = "holds" /\ m_parser = "built"
  BY <1>1, ReaderAlive
<1> QED
  BY <1>1, <1>4, <1>6, <1>7, <1>9, <1>10, <1>11
  DEF IInv, Reading, InPipeline, NothingLeftBehind, Flushed, EosFlushes, refVars, sessionVars

LEMMA EosInv ==
  ASSUME IInv, Eos
  PROVE  IInv'
<1> USE SessionAssumption
<1>1. PICK last \in {Failed({}) : f \in CanFail \intersect {"decode"}} \union {Decoded({})} :
         unit' = [n \in Units |-> IF last[n] = "waiting" THEN "shown" ELSE last[n]]
  BY DEF Eos
<1>2. last = Failed({}) \/ last = Decoded({})
  BY <1>1
<1>3. unit' \in [Units -> {"new", "kept", "waiting", "shown", "failed", "refused", "dropped"}]
  BY <1>1, <1>2 DEF IInv, TypeOK, Failed, Decoded
<1>4. In({"kept", "waiting"})' = {}
  BY <1>1, <1>2 DEF IInv, TypeOK, Failed, Decoded, Kept, In
<1>5. TypeOK'
  BY <1>3 DEF IInv, TypeOK, Eos, refVars
<1>6. Counted'
  BY SameOwners DEF IInv, Eos
<1> QED
  BY <1>4, <1>5, <1>6, ReaderAlive
  DEF IInv, Eos, Reading, InPipeline, NothingLeftBehind, Flushed, EosFlushes, refVars

LEMMA ReturnInv ==
  ASSUME IInv, Return
  PROVE  IInv'
<1>1. TypeOK'
  BY DEF IInv, TypeOK, Return, Returns, refVars, sessionVars
<1>2. Counted'
  BY SameOwners DEF IInv, Return
<1>3. In({"kept", "waiting"})' = In({"kept", "waiting"})
  BY DEF Return, In
<1>4. EosFlushes'
  BY <1>3 DEF IInv, Flushed, InPipeline, EosFlushes, Return
<1> QED
  BY <1>1, <1>2, <1>3, <1>4
  DEF IInv, Return, Returns, Reading, InPipeline, NothingLeftBehind, Flushed, refVars, sessionVars

-----------------------------------------------------------------------------
LEMMA NextInv ==
  ASSUME IInv, [Next]_vars
  PROVE  IInv'
<1>1. CASE Initialize \/ Deinitialize \/ ParseByteStream
  BY <1>1, InitializeInv, DeinitializeInv, ParseByteStreamInv
<1>2. CASE Parsing
  BY <1>2, RefusedInv, PushInv, EosInv, ReturnInv DEF Parsing
<1>3. CASE \E o \in Owners : Release(o) \/ Counting(o) \/ \E p \in Owners : AddRef(o, p)
  BY <1>3, OwnersInv
<1>4. CASE UNCHANGED vars
  <2>1. Counted'
    BY <1>4, SameOwners DEF IInv, vars
  <2> QED
    BY <1>4, <2>1
    DEF IInv, TypeOK, Reading, InPipeline, NothingLeftBehind, Flushed, EosFlushes, In,
        vars, refVars, sessionVars, callVars
<1> QED
  BY <1>1, <1>2, <1>3, <1>4 DEF Next

LEMMA Invariance == Spec => []IInv
BY InitInv, NextInv, PTL DEF Spec

(* The variables keep the types of the C++ members, for any owners and any *)
(* number of packets and sessions.                                         *)
THEOREM SessionTypes == Spec => []TypeOK
<1>1. IInv => TypeOK
  BY DEF IInv
<1> QED
  BY <1>1, Invariance, PTL

(* However many threads add and release references (AddRef, Release of     *)
(* VulkanVideoDecodeParser), the parser lives as long as one of them holds *)
(* one, and exactly one of them finds the count at 0 and destroys it.      *)
THEOREM ParserDestroyedOnce == Spec => []DestroyedOnce
<1>1. IInv => DestroyedOnce
  BY DEF IInv, Counted, DestroyedOnce
<1> QED
  BY <1>1, Invariance, PTL

(* When the parser is destroyed, by whichever owner and with whatever in   *)
(* the pipeline, no unit is held back and no picture waits any more.       *)
THEOREM PipelineEmptied == Spec => []NothingLeftBehind
<1>1. IInv => NothingLeftBehind
  BY DEF IInv
<1> QED
  BY <1>1, Invariance, PTL

(* When ParseByteStream returns true for an End-Of-Stream packet, nothing  *)
(* it ever took is still in the pipeline, through any number of sessions.  *)
THEOREM EndOfStreamFlushes == Spec => []EosFlushes
<1>1. IInv => EosFlushes
  BY DEF IInv
<1> QED
  BY <1>1, Invariance, PTL

=============================================================================
