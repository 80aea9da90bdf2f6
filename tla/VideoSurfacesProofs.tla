-------------------------- MODULE VideoSurfacesProofs --------------------------
(***************************************************************************)
(* Proofs, for every set of surfaces, every size of the rings and of the   *)
(* mapping cache that ConstantsAssumption allows, and any number of        *)
(* pictures and streams, of the properties of VideoSurfaces.               *)
(*                                                                         *)
(* A frame that is the k-th newest in flight uses one of the last k        *)
(* surfaces drawn, and slices and slots at most k places behind the next   *)
(* ones; so a ring longer than the UI thread is ahead never catches up.    *)
(***************************************************************************)
EXTENDS VideoSurfaces, TLAPS, FiniteSetTheorems, SequenceTheorems

Source  == Surfaces \cup {None}
Waits   == [surface : Source, generation : Nat]
Mapping == [surface : Source, used : Nat]
Frame   == [samples : Source \cup (1..Slots), slice : 0..Slices, slot : 0..Slots]

(* How many places x is behind the place p of a ring that is written next. *)
Behind(p, x, size) == IF x < p THEN p - x ELSE p - x + size

Age(i) == Len(inFlight) - i + 1

Types ==
  /\ queue \in Seq(Waits)
  /\ front \in Waits
  /\ decoded \in Nat
  /\ rendered \in Nat
  /\ retained \in Seq(Source)
  /\ mappings \in Seq(Mapping)
  /\ current \in 0..Len(mappings)
  /\ slice \in 1..Slices
  /\ slot \in 1..Slots
  /\ bound \in Source \cup (1..Slots)
  /\ inFlight \in Seq(Frame)
  /\ Len(inFlight) <= Framebuffers

(* Outside a stream the renderer has nothing.                              *)
Idle ==
  phase \notin {"streaming", "renderer"} =>
    /\ rendered = 0 /\ retained = <<>> /\ mappings = <<>> /\ current = 0
    /\ bound = None /\ inFlight = <<>>

(* Pictures are shown and drawn in the order they were decoded.            *)
Generations ==
  /\ rendered <= front.generation /\ front.generation <= decoded
  /\ \A i \in 1..Len(queue) :
       front.generation < queue[i].generation /\ queue[i].generation <= decoded
  /\ \A i, j \in 1..Len(queue) :
       i < j => queue[i].generation < queue[j].generation

(* No surface has two mappings, no picture either, and there is always one *)
(* that may be erased before the cache is full.                            *)
Cache ==
  /\ \A i \in 1..Len(mappings) : mappings[i].used # 0 /\ mappings[i].used <= rendered
  /\ \A i, j \in 1..Len(mappings) :
       i # j => /\ mappings[i].used # mappings[j].used
                /\ mappings[i].surface # mappings[j].surface
  /\ Len(mappings) <= Target

(* The descriptors name the newest picture.                                *)
Drawn ==
  /\ decoder = "nvdec" /\ rendered # 0 => current # 0
  /\ decoder # "nvdec" => current = 0
  /\ bound \in Surfaces => current # 0
  /\ current # 0 => /\ mappings[current].surface = bound
                    /\ mappings[current].used = rendered
                    /\ retained # <<>>
                    /\ retained[Len(retained)] = bound
  /\ bound \in 1..Slots /\ front.generation = rendered =>
       Behind(slot, bound, Slots) = 1

(* A surface a frame samples is among the last ones drawn.                 *)
SamplesKept ==
  \A i \in 1..Len(inFlight) :
    inFlight[i].samples \in Surfaces =>
      \E k \in 1..Age(i) :
        k <= Len(retained) /\ retained[Len(retained) + 1 - k] = inFlight[i].samples

UsesSlots(i) == {inFlight[i].samples, inFlight[i].slot} \cap (1..Slots)

(* The slots and slices of older frames are further behind.                *)
SlotsBehind ==
  \A i \in 1..Len(inFlight) : \A x \in UsesSlots(i) :
    /\ Behind(slot, x, Slots) <= Age(i)
    /\ \A j \in 1..Len(inFlight) :
         i < j /\ inFlight[j].slot # 0 =>
           Behind(slot, x, Slots) > Behind(slot, inFlight[j].slot, Slots)

SlicesBehind ==
  \A i \in 1..Len(inFlight) : inFlight[i].slice # 0 =>
    /\ Behind(slice, inFlight[i].slice, Slices) <= Age(i)
    /\ \A j \in 1..Len(inFlight) :
         i < j /\ inFlight[j].slice # 0 =>
           Behind(slice, inFlight[i].slice, Slices)
             > Behind(slice, inFlight[j].slice, Slices)

IInv ==
  /\ Types /\ Idle /\ Generations /\ Cache /\ Drawn
  /\ SamplesKept /\ SlotsBehind /\ SlicesBehind

(* The marker is there when it will be needed.                             *)
Remembered ==
  /\ phase = "off" /\ dirty => marker
  /\ phase \notin {"off", "made"} => ~dirty
  /\ phase \notin {"off", "made"} /\ decoder = "nvdec" /\ marked => marker

-----------------------------------------------------------------------------
(* The crash marker                                                         *)

(* While a marked NVDEC stream runs or is torn down the marker is there,   *)
(* and a crash leaves it.                                                  *)
LEMMA RememberedInductive == Spec => []Remembered
<1>1. Init => Remembered
  BY DEF Init, Remembered
<1>2. Remembered /\ [Next]_vars => Remembered'
  <2> SUFFICES ASSUME Remembered, [Next]_vars PROVE Remembered'
    OBVIOUS
  <2>1. ASSUME NEW backend \in Backends, StartSession(backend) PROVE Remembered'
    BY <2>1 DEF Remembered, StartSession, RemoveFile
  <2>2. CASE Mark
    BY <2>2 DEF Remembered, Mark
  <2>3. ASSUME NEW surface \in Surfaces \cup {None}, Decode(surface) PROVE Remembered'
    BY <2>3 DEF Remembered, Decode, crashVars
  <2>4. CASE DropCorrupt \/ Draw \/ GpuDone
    BY <2>4 DEF Remembered, DropCorrupt, Draw, GpuDone, crashVars
  <2>5. CASE Stop \/ FreeRenderer \/ FreeDecoder
    BY <2>5 DEF Remembered, Stop, FreeRenderer, FreeDecoder, crashVars
  <2>6. CASE RemoveMarker
    BY <2>6 DEF Remembered, RemoveMarker, RemoveFile
  <2>7. CASE Crash
    BY <2>7 DEF Remembered, Crash
  <2>8. CASE UNCHANGED vars
    BY <2>8 DEF Remembered, vars, crashVars
  <2> QED
    BY <2>1, <2>2, <2>3, <2>4, <2>5, <2>6, <2>7, <2>8 DEF Next
<1> QED
  BY <1>1, <1>2, PTL DEF Spec

(* After an NVDEC stream that crashed while it ran or was torn down, the   *)
(* next stream does not use NVDEC when the backend is Auto                 *)
(* (ConsumeNvdecCrashMarker, CreateNvdecCrashMarker, WebRtcSession::stop). *)
THEOREM CrashRemembered == Spec => FallbackAfterCrash
<1>1. ASSUME Remembered, [Next]_vars, phase = "off", phase' = "made", dirty
      PROVE  decoder' # "nvdec"
  <2>1. PICK backend \in Backends : StartSession(backend)
    BY <1>1 DEF Next, Mark, Decode, DropCorrupt, Draw, GpuDone, Stop,
         FreeRenderer, FreeDecoder, RemoveMarker, Crash, vars
  <2>2. backend = "Software" \/ Consumed(backend)
    BY <1>1 DEF Backends, Consumed, Remembered
  <2> QED
    BY <2>1, <2>2 DEF StartSession, SetUp
<1> QED
  BY <1>1, RememberedInductive, PTL DEF Spec, FallbackAfterCrash

-----------------------------------------------------------------------------
(* Rings, sequences and the constants                                       *)

LEMMA Sizes ==
  /\ Slices \in Nat \ {0} /\ Slots \in Nat \ {0} /\ Framebuffers \in Nat \ {0}
  /\ Target \in Nat \ {0} /\ HardLimit \in Nat \ {0}
  /\ Retained \in Nat /\ SafeAge \in Nat
  /\ Framebuffers <= Retained /\ Framebuffers <= Slices /\ Framebuffers <= Slots
  /\ SafeAge + 1 < Target /\ Target <= HardLimit
  /\ None \notin Surfaces /\ Source \cap (1..Slots) = {}
BY ConstantsAssumption DEF ConstantsAssumption, Source

(* When the next place of a ring is written, it is one behind, and every   *)
(* place that is not overwritten is one further behind.                    *)
LEMMA RingAdvances ==
  ASSUME NEW size \in Nat \ {0}, NEW p \in 1..size, NEW q,
         q = IF p = size THEN 1 ELSE p + 1
  PROVE  /\ q \in 1..size
         /\ Behind(q, p, size) = 1
         /\ \A x \in 1..size :
              /\ Behind(p, x, size) \in 1..size
              /\ Behind(p, x, size) < size =>
                   Behind(q, x, size) = Behind(p, x, size) + 1
BY DEF Behind

(* Two places that are equally far behind are the same.                    *)
LEMMA BehindIsInjective ==
  ASSUME NEW size \in Nat \ {0}, NEW p \in 1..size,
         NEW x \in 1..size, NEW y \in 1..size,
         Behind(p, x, size) > Behind(p, y, size)
  PROVE  x # y
BY DEF Behind

(* The elements of a sequence with one more at its end.                    *)
LEMMA Appended ==
  ASSUME NEW S, NEW s \in Seq(S), NEW e \in S
  PROVE  /\ Append(s, e) \in Seq(S)
         /\ Len(Append(s, e)) = Len(s) + 1 /\ Len(s) \in Nat
         /\ \A i \in 1..Len(s) : Append(s, e)[i] = s[i]
         /\ Append(s, e)[Len(s) + 1] = e
         /\ Append(s, e) # <<>>
OBVIOUS

(* What is left of a sequence when its first k elements are taken.         *)
LEMMA Taken ==
  ASSUME NEW S, NEW s \in Seq(S), NEW k \in 0..Len(s)
  PROVE  /\ SubSeq(s, k + 1, Len(s)) \in Seq(S)
         /\ Len(SubSeq(s, k + 1, Len(s))) = Len(s) - k
         /\ \A i \in 1..(Len(s) - k) : SubSeq(s, k + 1, Len(s))[i] = s[k + i]
OBVIOUS

(* A set of numbers that is not empty has a smallest one.                  *)
LEMMA Smallest ==
  ASSUME NEW S, IsFiniteSet(S), S \subseteq Nat, S # {}
  PROVE  \E m \in S : \A i \in S : m <= i
<1> DEFINE Below(i) == {j \in S : j < i}
           T == {Below(i) : i \in S}
<1>1. T \subseteq FiniteSubsetsOf(S) /\ T # {}
  <2>1. ASSUME NEW i \in S PROVE Below(i) \in FiniteSubsetsOf(S)
    <3>1. Below(i) \in SUBSET S
      OBVIOUS
    <3> HIDE DEF Below
    <3> QED
      BY <3>1, FS_Subset DEF FiniteSubsetsOf
  <2> QED
    BY <2>1
<1>2. PICK U \in T : \A V \in T : <<V, U>> \notin StrictSubsetOrdering(S)
  <2> HIDE DEF T
  <2> QED
    BY <1>1, FS_StrictSubsetOrderingWellFounded, WFMin
<1>3. PICK m \in S : U = Below(m)
  OBVIOUS
<1>4. Below(m) = {}
  <2> SUFFICES ASSUME NEW j \in Below(m) PROVE FALSE
    OBVIOUS
  <2>1. Below(j) \subseteq Below(m) /\ Below(j) # Below(m)
    <3>1. m \in Nat /\ j \in Nat /\ j \in S /\ j < m
      OBVIOUS
    <3>2. \A i \in Below(j) : i \in Below(m)
      <4> SUFFICES ASSUME NEW i \in S, i < j PROVE i < m
        OBVIOUS
      <4>1. i \in Nat
        OBVIOUS
      <4> QED
        BY ONLY <3>1, <4>1, i < j
    <3>3. j \notin Below(j)
      BY <3>1
    <3>4. j \in Below(m)
      OBVIOUS
    <3> HIDE DEF Below
    <3> QED
      BY <3>2, <3>3, <3>4
  <2>2. Below(j) \in T
    OBVIOUS
  <2> QED
    BY <1>2, <1>3, <2>1, <2>2 DEF StrictSubsetOrdering
<1> QED
  BY <1>4

-----------------------------------------------------------------------------
(* The mapping cache                                                        *)

LEMMA MappingTypes ==
  ASSUME Types
  PROVE  /\ Len(mappings) \in Nat /\ DOMAIN mappings = 1..Len(mappings)
         /\ \A i \in 1..Len(mappings) :
              mappings[i] \in Mapping /\ mappings[i].used \in Nat
<1>1. mappings \in Seq(Mapping)
  BY DEF Types
<1>2. \A m \in Mapping : m.used \in Nat
  BY DEF Mapping
<1> QED
  BY <1>1, <1>2, LenProperties, ElementOfSeq

(* A full cache has a mapping that may be erased: its pictures are all     *)
(* different, older than the one to be drawn, and too many to be recent.   *)
LEMMA SomeStale ==
  ASSUME Types, Cache, NEW g \in Nat, rendered < g, Len(mappings) = Target
  PROVE  Stale(g) # {}
<1> DEFINE others == (1..Len(mappings)) \ {current}
           recent == (g - SafeAge)..(g - 1)
           used   == [i \in others |-> mappings[i].used]
<1>1. /\ Len(mappings) \in Nat /\ DOMAIN mappings = 1..Len(mappings)
      /\ \A i \in 1..Len(mappings) : mappings[i].used \in Nat
      /\ rendered \in Nat
  BY MappingTypes DEF Types
<1> SUFFICES ASSUME Stale(g) = {} PROVE FALSE
  OBVIOUS
<1>2. \A i \in others : used[i] \in recent
  <2> SUFFICES ASSUME NEW i \in others PROVE mappings[i].used \in recent
    OBVIOUS
  <2>1. mappings[i].used <= rendered /\ mappings[i].used \in Nat
    BY <1>1 DEF Cache
  <2>2. ~(g > mappings[i].used /\ g - mappings[i].used > SafeAge)
    BY <1>1 DEF Stale
  <2> QED
    BY ONLY <1>1, <2>1, <2>2, rendered < g, g \in Nat, Sizes
<1>3. IsFiniteSet(others) /\ Cardinality(others) >= Target - 1
  <2>1. IsFiniteSet(1..Target) /\ Cardinality(1..Target) = Target
    <3>1. 1 \in Int /\ Target \in Int /\ ~(1 > Target) /\ Target - 1 + 1 = Target
      BY Sizes
    <3> QED
      BY <3>1, FS_Interval
  <2>2. /\ IsFiniteSet((1..Target) \ {current})
        /\ Cardinality((1..Target) \ {current}) = Target - 1
             \/ Cardinality((1..Target) \ {current}) = Target
    BY <2>1, FS_RemoveElement
  <2> QED
    BY <2>2, Sizes
<1>4. IsFiniteSet(recent) /\ Cardinality(recent) = SafeAge
  <2>1. g - SafeAge \in Int /\ g - 1 \in Int
    BY Sizes
  <2>2. IF g - SafeAge > g - 1 THEN SafeAge = 0 ELSE g - 1 - (g - SafeAge) + 1 = SafeAge
    BY Sizes
  <2> QED
    BY <2>1, <2>2, FS_Interval
<1>5. Cardinality(recent) < Cardinality(others)
  <2>1. Cardinality(others) \in Nat
    BY <1>3, FS_CardinalityType
  <2> QED
    BY <1>3, <1>4, <2>1, Sizes
<1>6. used \in [others -> recent]
  BY <1>2
<1>7. \E x, y \in others : x # y /\ used[x] = used[y]
  <2> HIDE DEF others, recent, used
  <2> QED
    BY <1>3, <1>4, <1>5, <1>6, FS_PigeonHole
<1> QED
  BY <1>7 DEF Cache

(* One mapping is erased, or none.                                         *)
LEMMA ErasedAtMostOne ==
  ASSUME Types, Cache, NEW g \in Nat, rendered < g
  PROVE  \/ Erased(g) = {} /\ Len(mappings) < Target
         \/ \E e \in (1..Len(mappings)) \ {current} :
              Erased(g) = {e} /\ Len(mappings) = Target
<1> DEFINE below(i) == {j \in Stale(g) : j < i}
<1>1. Len(mappings) \in Nat /\ DOMAIN mappings = 1..Len(mappings)
  BY MappingTypes
<1>2. Stale(g) \subseteq (1..Len(mappings)) \ {current}
  BY <1>1 DEF Stale
<1>3. IsFiniteSet(Stale(g))
  <2>1. IsFiniteSet(1..Len(mappings))
    <3>1. 1 \in Int /\ Len(mappings) \in Int
      BY <1>1
    <3> QED
      BY <3>1, FS_Interval
  <2>2. Stale(g) \in SUBSET (1..Len(mappings))
    BY <1>2
  <2> QED
    BY <2>1, <2>2, FS_Subset
<1>4. ASSUME NEW i \in Stale(g)
      PROVE  /\ IsFiniteSet(below(i)) /\ Cardinality(below(i)) \in Nat
             /\ Cardinality(below(i)) = 0 <=> below(i) = {}
  <2>1. below(i) \in SUBSET Stale(g)
    OBVIOUS
  <2> HIDE DEF below
  <2>2. IsFiniteSet(below(i))
    BY <1>3, <2>1, FS_Subset
  <2> QED
    BY <2>2, FS_CardinalityType, FS_EmptySet
<1>5. Erased(g) = {i \in Stale(g) : Cardinality(below(i)) <= Len(mappings) - Target}
  BY DEF Erased
<1>6. CASE Len(mappings) < Target
  <2>1. ASSUME NEW i \in Stale(g)
        PROVE  ~(Cardinality(below(i)) <= Len(mappings) - Target)
    <3>1. Cardinality(below(i)) \in Nat
      BY <1>4
    <3> HIDE DEF below
    <3> QED
      BY <1>1, <1>6, <3>1, Sizes
  <2> QED
    BY <1>5, <1>6, <2>1
<1>7. CASE Len(mappings) = Target
  <2>1. PICK m \in Stale(g) : \A i \in Stale(g) : m <= i
    <3>1. Stale(g) # {} /\ Stale(g) \subseteq Nat
      BY <1>2, <1>7, SomeStale
    <3> QED
      BY <1>3, <3>1, Smallest
  <2>2. \A i \in Stale(g) : i \in Nat
    BY <1>2
  <2>3. Len(mappings) - Target = 0
    BY <1>7, Sizes
  <2>4. below(m) = {}
    BY <2>1, <2>2
  <2>5. ASSUME NEW i \in Stale(g), i # m PROVE below(i) # {}
    <3>1. m < i
      BY <2>1, <2>2, <2>5
    <3> QED
      BY <3>1
  <2>6. \A i \in Stale(g) : Cardinality(below(i)) <= 0 <=> i = m
    <3> HIDE DEF below
    <3>1. \A i \in Stale(g) : Cardinality(below(i)) <= 0 <=> below(i) = {}
      BY <1>4
    <3> QED
      BY <2>4, <2>5, <3>1
  <2>7. Erased(g) = {m}
    <3> HIDE DEF below
    <3> QED
      BY <1>5, <2>3, <2>6
  <2> QED
    BY <1>2, <1>7, <2>7
<1>8. Len(mappings) <= Target
  BY DEF Cache
<1>9. Len(mappings) < Target \/ Len(mappings) = Target
  <2>1. Len(mappings) \in Nat /\ Target \in Nat
    BY <1>1, Sizes
  <2> QED
    BY ONLY <1>8, <2>1
<1> QED
  BY <1>6, <1>7, <1>9

(* The k-th element of a set of indices.                                   *)
Nth(kept, k) == CHOOSE i \in kept : Cardinality({j \in kept : j <= i}) = k

LEMMA WithoutByIndex ==
  ASSUME NEW E
  PROVE  Without(E) = [k \in 1..(Len(mappings) - Cardinality(E)) |->
                         mappings[Nth(DOMAIN mappings \ E, k)]]
BY Zenon DEF Without, Nth

(* What is left when one mapping is erased, or none.                       *)
LEMMA WithoutNone ==
  ASSUME Types
  PROVE  /\ Without({}) = mappings
         /\ Shifted({}) = current
<1>1. /\ Len(mappings) \in Nat /\ DOMAIN mappings = 1..Len(mappings)
      /\ mappings = [k \in 1..Len(mappings) |-> mappings[k]]
  <2>1. mappings \in Seq(Mapping)
    BY DEF Types
  <2> QED
    BY <2>1, LenProperties
<1>2. Cardinality({}) = 0
  BY FS_EmptySet
<1>3. ASSUME NEW i \in 1..Len(mappings)
      PROVE  Cardinality({j \in 1..Len(mappings) : j <= i}) = i
  <2>1. {j \in 1..Len(mappings) : j <= i} = 1..i
    BY <1>1
  <2>2. 1 \in Int /\ i \in Int /\ ~(1 > i) /\ i - 1 + 1 = i
    BY <1>1
  <2> QED
    BY <2>1, <2>2, FS_Interval
<1>4. ASSUME NEW k \in 1..Len(mappings)
      PROVE  Nth(1..Len(mappings), k) = k
  BY <1>3 DEF Nth
<1>5. Without({}) = [k \in 1..Len(mappings) |-> mappings[Nth(1..Len(mappings), k)]]
  <2>1. Len(mappings) = Len(mappings) - Cardinality({})
    BY <1>1, <1>2
  <2>2. 1..Len(mappings) = DOMAIN mappings \ {}
    BY <1>1
  <2> QED
    BY ONLY <2>1, <2>2, WithoutByIndex
<1>6. Without({}) = mappings
  BY <1>1, <1>4, <1>5
<1>7. Shifted({}) = current
  <2>1. {i \in {} : i < current} = {}
    OBVIOUS
  <2>2. current \in Int
    BY DEF Types
  <2> QED
    BY <1>2, <2>1, <2>2 DEF Shifted
<1> QED
  BY <1>6, <1>7

LEMMA WithoutOne ==
  ASSUME Types, NEW e \in 1..Len(mappings), e # current
  PROVE  /\ Len(mappings) - 1 \in Nat
         /\ Without({e}) = [k \in 1..(Len(mappings) - 1) |->
                              mappings[IF k < e THEN k ELSE k + 1]]
         /\ Shifted({e}) = IF e < current THEN current - 1 ELSE current
<1> DEFINE n == Len(mappings)
           kept == (1..n) \ {e}
           upTo(i) == {j \in kept : j <= i}
<1>1. n \in Nat /\ DOMAIN mappings = 1..n /\ e \in Nat /\ current \in Nat /\ n - 1 \in Nat
  BY MappingTypes DEF Types
<1>2. Cardinality({e}) = 1 /\ Cardinality({}) = 0
  BY FS_Singleton, FS_EmptySet
<1>3. ASSUME NEW i \in kept
      PROVE  Cardinality(upTo(i)) = IF i < e THEN i ELSE i - 1
  <2>1. /\ IsFiniteSet(1..i) /\ Cardinality(1..i) = i
    <3>1. 1 \in Int /\ i \in Int /\ ~(1 > i) /\ i - 1 + 1 = i
      BY <1>1
    <3> QED
      BY <3>1, FS_Interval
  <2>2. upTo(i) = (1..i) \ {e}
    BY <1>1
  <2>3. Cardinality((1..i) \ {e}) = IF e \in 1..i THEN i - 1 ELSE i
    BY <2>1, FS_RemoveElement
  <2>4. e \in 1..i <=> ~(i < e)
    BY <1>1
  <2> QED
    BY <2>2, <2>3, <2>4
<1>4. ASSUME NEW k \in 1..(n - 1)
      PROVE  Nth(kept, k) = IF k < e THEN k ELSE k + 1
  <2>1. (IF k < e THEN k ELSE k + 1) \in kept
    BY <1>1
  <2>2. \A i \in kept : (IF i < e THEN i ELSE i - 1) = k
                          <=> i = IF k < e THEN k ELSE k + 1
    BY <1>1
  <2>3. \A i \in kept : Cardinality({j \in kept : j <= i}) = k
                          <=> i = IF k < e THEN k ELSE k + 1
    BY <1>3, <2>2
  <2> HIDE DEF kept
  <2> QED
    BY <2>1, <2>3 DEF Nth
<1>5. Without({e}) = [k \in 1..(n - 1) |-> mappings[Nth(kept, k)]]
  <2>1. kept = DOMAIN mappings \ {e}
    BY <1>1
  <2>2. n - 1 = Len(mappings) - Cardinality({e})
    BY <1>2
  <2> HIDE DEF kept, n
  <2> QED
    BY ONLY <2>1, <2>2, WithoutByIndex
<1>6. Without({e}) = [k \in 1..(n - 1) |-> mappings[IF k < e THEN k ELSE k + 1]]
  <2> HIDE DEF kept
  <2> QED
    BY <1>4, <1>5
<1>7. Shifted({e}) = IF e < current THEN current - 1 ELSE current
  <2>1. CASE e < current
    <3>1. {i \in {e} : i < current} = {e}
      BY <2>1
    <3> QED
      BY <1>2, <2>1, <3>1 DEF Shifted
  <2>2. CASE ~(e < current)
    <3>1. {i \in {e} : i < current} = {}
      BY <2>2
    <3>2. current - 0 = current
      BY <1>1
    <3> QED
      BY <1>2, <2>2, <3>1, <3>2 DEF Shifted
  <2> QED
    BY <2>1, <2>2
<1> QED
  BY <1>1, <1>6, <1>7

(* What is left of the cache to make room for a picture.                   *)
LEMMA RoomMade ==
  ASSUME Types, Cache, NEW g \in Nat, rendered < g,
         NEW rest, rest = Without(Erased(g)), NEW cur, cur = Shifted(Erased(g))
  PROVE  /\ rest \in Seq(Mapping) /\ Len(rest) \in Nat /\ Len(rest) < Target
         /\ \A i \in 1..Len(rest) : \E k \in 1..Len(mappings) : rest[i] = mappings[k]
         /\ \A i, j \in 1..Len(rest) :
              i # j => /\ rest[i].used # rest[j].used
                       /\ rest[i].surface # rest[j].surface
         /\ cur \in 0..Len(rest)
<1>1. /\ Len(mappings) \in Nat /\ mappings \in Seq(Mapping)
      /\ \A i \in 1..Len(mappings) : mappings[i] \in Mapping
      /\ current \in 0..Len(mappings)
  BY MappingTypes DEF Types
<1>2. \A i, j \in 1..Len(mappings) :
        i # j => /\ mappings[i].used # mappings[j].used
                 /\ mappings[i].surface # mappings[j].surface
  BY DEF Cache
<1>3. CASE Erased(g) = {} /\ Len(mappings) < Target
  <2>1. rest = mappings /\ cur = current
    BY <1>3, WithoutNone
  <2> QED
    BY <1>1, <1>2, <1>3, <2>1
<1>4. ASSUME NEW e \in (1..Len(mappings)) \ {current},
             Erased(g) = {e}, Len(mappings) = Target
      PROVE  /\ rest \in Seq(Mapping) /\ Len(rest) \in Nat /\ Len(rest) < Target
             /\ \A i \in 1..Len(rest) : \E k \in 1..Len(mappings) : rest[i] = mappings[k]
             /\ \A i, j \in 1..Len(rest) :
                  i # j => /\ rest[i].used # rest[j].used
                           /\ rest[i].surface # rest[j].surface
             /\ cur \in 0..Len(rest)
  <2> DEFINE from(k) == IF k < e THEN k ELSE k + 1
  <2>1. /\ Len(mappings) - 1 \in Nat
        /\ rest = [k \in 1..(Len(mappings) - 1) |-> mappings[from(k)]]
        /\ cur = IF e < current THEN current - 1 ELSE current
    BY <1>4, WithoutOne
  <2>2. \A k \in 1..(Len(mappings) - 1) : from(k) \in 1..Len(mappings)
    BY <1>1
  <2>3. \A i, j \in 1..(Len(mappings) - 1) : i # j => from(i) # from(j)
    BY <1>1
  <2>4. cur \in 0..(Len(mappings) - 1)
    BY <1>1, <2>1
  <2> HIDE DEF from, Mapping
  <2>5. rest \in Seq(Mapping) /\ Len(rest) = Len(mappings) - 1
    BY <1>1, <2>1, <2>2
  <2>6. Len(rest) < Target
    BY <1>1, <1>4, <2>5
  <2>7. \A k \in 1..Len(rest) : rest[k] = mappings[from(k)]
    BY <2>1, <2>5
  <2>8. \A i \in 1..Len(rest) : \E k \in 1..Len(mappings) : rest[i] = mappings[k]
    BY <2>2, <2>5, <2>7
  <2>9. ASSUME NEW i \in 1..Len(rest), NEW j \in 1..Len(rest), i # j
        PROVE  rest[i].used # rest[j].used /\ rest[i].surface # rest[j].surface
    <3>1. /\ from(i) \in 1..Len(mappings) /\ from(j) \in 1..Len(mappings)
          /\ from(i) # from(j)
      BY <2>2, <2>3, <2>5, <2>9
    <3>2. rest[i] = mappings[from(i)] /\ rest[j] = mappings[from(j)]
      BY <2>7
    <3> QED
      BY <1>2, <3>1, <3>2
  <2> QED
    BY <2>1, <2>4, <2>5, <2>6, <2>8, <2>9
<1> QED
  BY <1>3, <1>4, ErasedAtMostOne

(* The cache with the mapping of a picture to be drawn: there is always    *)
(* room, and the mapping is the current one only if its surface is bound.  *)
LEMMA MappedEffect ==
  ASSUME Types, Cache, NEW picture \in Waits, rendered < picture.generation,
         NEW map, map = Mapped(picture)
  PROVE  /\ map.maps \in Seq(Mapping) /\ Len(map.maps) <= Target
         /\ map.index \in 1..Len(map.maps)
         /\ map.maps[map.index] =
              [surface |-> picture.surface, used |-> picture.generation]
         /\ \A i \in 1..Len(map.maps) :
              map.maps[i].used # 0 /\ map.maps[i].used <= picture.generation
         /\ \A i, j \in 1..Len(map.maps) :
              i # j => /\ map.maps[i].used # map.maps[j].used
                       /\ map.maps[i].surface # map.maps[j].surface
         /\ map.index = map.cur =>
              current # 0 /\ mappings[current].surface = picture.surface
<1> DEFINE g    == picture.generation
           new  == [surface |-> picture.surface, used |-> g]
           hits == {i \in DOMAIN mappings : mappings[i].surface = picture.surface}
           rest == Without(Erased(g))
           cur  == Shifted(Erased(g))
           Good(maps) ==
             /\ \A i \in 1..Len(maps) : maps[i].used # 0 /\ maps[i].used <= g
             /\ \A i, j \in 1..Len(maps) :
                  i # j => /\ maps[i].used # maps[j].used
                           /\ maps[i].surface # maps[j].surface
<1>1. /\ Len(mappings) \in Nat /\ DOMAIN mappings = 1..Len(mappings)
      /\ mappings \in Seq(Mapping) /\ current \in 0..Len(mappings)
      /\ \A i \in 1..Len(mappings) : mappings[i].used \in Nat
      /\ rendered \in Nat /\ Len(mappings) <= Target
  BY MappingTypes DEF Types, Cache
<1>2. g \in Nat /\ rendered < g /\ picture.surface \in Source
  BY DEF Waits
<1>3. new \in Mapping /\ new.used = g /\ new.surface = picture.surface
  BY <1>2 DEF Mapping
<1>4. \A i \in 1..Len(mappings) : mappings[i].used # 0 /\ mappings[i].used < g
  <2> SUFFICES ASSUME NEW i \in 1..Len(mappings)
               PROVE  mappings[i].used # 0 /\ mappings[i].used < g
    OBVIOUS
  <2>1. mappings[i].used # 0 /\ mappings[i].used <= rendered /\ mappings[i].used \in Nat
    BY <1>1 DEF Cache
  <2> QED
    BY ONLY <1>1, <1>2, <2>1
<1>5. CASE hits # {}
  <2> DEFINE i == CHOOSE i \in hits : \A j \in hits : i <= j
  <2>1. map = [maps |-> [mappings EXCEPT ![i] = new], cur |-> current, index |-> i]
    BY <1>5 DEF Mapped
  <2>2. \E k \in hits : \A j \in hits : k <= j
    <3>1. PICK k \in hits : TRUE
      BY <1>5
    <3>2. \A j \in hits : j = k
      BY <1>1 DEF Cache
    <3> QED
      BY <1>1, <3>2
  <2>3. i \in hits
    BY <2>2
  <2>4. i \in 1..Len(mappings) /\ mappings[i].surface = picture.surface
    BY <1>1, <2>3
  <2> HIDE DEF i, hits, new, Mapping
  <2>5. /\ map.maps \in Seq(Mapping) /\ Len(map.maps) = Len(mappings)
        /\ \A j \in 1..Len(mappings) :
             map.maps[j] = IF j = i THEN new ELSE mappings[j]
        /\ map.index = i /\ map.cur = current
    BY <1>1, <1>3, <2>1, <2>4, ExceptSeq
  <2>6. \A j \in 1..Len(map.maps) : map.maps[j].used # 0 /\ map.maps[j].used <= g
    <3>1. ASSUME NEW j \in 1..Len(map.maps)
          PROVE  map.maps[j].used = g \/ map.maps[j].used = mappings[j].used
      BY <1>3, <2>5
    <3>2. g # 0
      BY <1>1, <1>2
    <3> QED
      BY <1>1, <1>2, <1>4, <2>5, <3>1, <3>2
  <2>7. \A j, k \in 1..Len(map.maps) :
          j # k => /\ map.maps[j].used # map.maps[k].used
                   /\ map.maps[j].surface # map.maps[k].surface
    <3>1. \A j, k \in 1..Len(mappings) :
            j # k => /\ mappings[j].used # mappings[k].used
                     /\ mappings[j].surface # mappings[k].surface
      BY DEF Cache
    <3>2. \A j \in 1..Len(mappings) :
            /\ map.maps[j].surface = mappings[j].surface
            /\ map.maps[j].used = IF j = i THEN g ELSE mappings[j].used
      BY <1>3, <2>4, <2>5
    <3>3. \A j \in 1..Len(mappings) : mappings[j].used # g
      BY <1>1, <1>2, <1>4
    <3> QED
      BY <2>5, <3>1, <3>2, <3>3
  <2>8. map.maps[map.index] = new
    BY <2>4, <2>5
  <2>9. map.index = map.cur =>
          current # 0 /\ mappings[current].surface = picture.surface
    BY <1>1, <2>4, <2>5
  <2> QED
    BY <1>1, <2>4, <2>5, <2>6, <2>7, <2>8, <2>9 DEF new
<1>6. CASE hits = {}
  <2>1. /\ rest \in Seq(Mapping) /\ Len(rest) \in Nat /\ Len(rest) < Target
        /\ \A i \in 1..Len(rest) : \E k \in 1..Len(mappings) : rest[i] = mappings[k]
        /\ \A i, j \in 1..Len(rest) :
             i # j => /\ rest[i].used # rest[j].used
                      /\ rest[i].surface # rest[j].surface
        /\ cur \in 0..Len(rest)
    <3> HIDE DEF g
    <3> QED
      BY <1>2, RoomMade
  <2>2. ~(Len(rest) >= HardLimit)
    BY <2>1, Sizes
  <2>3. map = [maps |-> Append(rest, new), cur |-> cur, index |-> Len(rest) + 1]
    BY <1>6, <2>2 DEF Mapped
  <2>4. \A k \in 1..Len(mappings) : mappings[k].surface # picture.surface
    BY <1>1, <1>6
  <2> HIDE DEF rest, cur, hits, new, Mapping
  <2>5. /\ map.maps \in Seq(Mapping) /\ Len(map.maps) = Len(rest) + 1
        /\ \A i \in 1..Len(rest) : map.maps[i] = rest[i]
        /\ map.maps[Len(rest) + 1] = new
        /\ map.index = Len(rest) + 1 /\ map.cur = cur
    BY <1>3, <2>1, <2>3, Appended
  <2>6. \A i \in 1..Len(rest) :
          /\ rest[i].used # 0 /\ rest[i].used < g
          /\ rest[i].surface # picture.surface
    BY <1>4, <2>1, <2>4
  <2>7. \A i \in 1..Len(map.maps) : map.maps[i].used # 0 /\ map.maps[i].used <= g
    <3>1. ASSUME NEW i \in 1..Len(map.maps), i # Len(rest) + 1
          PROVE  map.maps[i].used # 0 /\ map.maps[i].used <= g
      <4>1. i \in 1..Len(rest)
        BY <2>1, <2>5, <3>1
      <4>2. PICK k \in 1..Len(mappings) : rest[i] = mappings[k]
        BY <2>1, <4>1
      <4>3. map.maps[i].used = mappings[k].used
        BY <2>5, <4>1, <4>2
      <4> QED
        BY <1>1, <1>2, <1>4, <4>3
    <3>2. g # 0 /\ g <= g
      BY <1>1, <1>2
    <3> QED
      BY <1>3, <2>5, <3>1, <3>2
  <2>8. \A i, j \in 1..Len(map.maps) :
          i # j => /\ map.maps[i].used # map.maps[j].used
                   /\ map.maps[i].surface # map.maps[j].surface
    <3>1. \A i \in 1..Len(map.maps) : i \in 1..Len(rest) \/ i = Len(rest) + 1
      BY <2>1, <2>5
    <3>2. \A i \in 1..Len(rest) : rest[i].used # g
      <4> SUFFICES ASSUME NEW i \in 1..Len(rest) PROVE rest[i].used # g
        OBVIOUS
      <4>1. PICK k \in 1..Len(mappings) : rest[i] = mappings[k]
        BY <2>1
      <4> QED
        BY <1>1, <1>2, <1>4, <4>1
    <3>3. \A i \in 1..Len(rest) :
            /\ map.maps[i].used = rest[i].used
            /\ map.maps[i].surface = rest[i].surface
            /\ rest[i].used # g /\ rest[i].surface # picture.surface
      BY <2>5, <2>6, <3>2
    <3>4. /\ map.maps[Len(rest) + 1].used = g
          /\ map.maps[Len(rest) + 1].surface = picture.surface
      BY <1>3, <2>5
    <3>5. \A i, j \in 1..Len(rest) :
            i # j => /\ rest[i].used # rest[j].used
                     /\ rest[i].surface # rest[j].surface
      BY <2>1
    <3> SUFFICES ASSUME NEW i \in 1..Len(map.maps), NEW j \in 1..Len(map.maps), i # j
                 PROVE  /\ map.maps[i].used # map.maps[j].used
                        /\ map.maps[i].surface # map.maps[j].surface
      OBVIOUS
    <3> HIDE DEF g
    <3>6. CASE i \in 1..Len(rest) /\ j \in 1..Len(rest)
      BY ONLY <3>3, <3>5, <3>6, i # j
    <3>7. CASE i = Len(rest) + 1 /\ j \in 1..Len(rest)
      BY ONLY <3>3, <3>4, <3>7
    <3>8. CASE j = Len(rest) + 1 /\ i \in 1..Len(rest)
      BY ONLY <3>3, <3>4, <3>8
    <3> QED
      BY <3>1, <3>6, <3>7, <3>8
  <2>9. map.index # map.cur
    BY <2>1, <2>5
  <2>10. map.index \in 1..Len(map.maps) /\ Len(map.maps) <= Target
    BY <2>1, <2>5, Sizes
  <2> QED
    BY <2>5, <2>7, <2>8, <2>9, <2>10 DEF new
<1> QED
  BY <1>5, <1>6

-----------------------------------------------------------------------------
(* Frames in flight                                                         *)

(* The surfaces kept are one older, and only one that is out of the GPU's  *)
(* sight is let go of.                                                     *)
LEMMA RetainEffect ==
  ASSUME Types, NEW s \in Source, Retain(s)
  PROVE  /\ retained' \in Seq(Source) /\ retained' # <<>>
         /\ Len(retained) \in Nat /\ Len(retained') \in Nat
         /\ retained'[Len(retained')] = s
         /\ \A k \in 1..Len(retained) :
              k < Retained =>
                /\ k + 1 <= Len(retained')
                /\ retained'[Len(retained') + 1 - (k + 1)]
                     = retained[Len(retained) + 1 - k]
<1> DEFINE r == Len(retained)
           all == Append(retained, s)
<1>1. /\ r \in Nat /\ all \in Seq(Source) /\ Len(all) = r + 1 /\ all # <<>>
      /\ \A i \in 1..r : all[i] = retained[i]
      /\ all[r + 1] = s
  <2>1. retained \in Seq(Source)
    BY DEF Types
  <2> HIDE DEF Source
  <2> QED
    BY <2>1, Appended
<1>2. retained' = IF r + 1 > Retained THEN Tail(all) ELSE all
  BY <1>1 DEF Retain
<1>3. Retained \in Nat \ {0}
  BY Sizes
<1> HIDE DEF all
<1>4. CASE r + 1 > Retained
  <2>1. retained' = Tail(all)
    BY <1>2, <1>4
  <2>2. /\ retained' \in Seq(Source) /\ Len(retained') = r
        /\ \A i \in 1..r : retained'[i] = all[i + 1]
    <3>1. /\ Tail(all) \in Seq(Source) /\ Len(Tail(all)) = Len(all) - 1
          /\ \A i \in 1..Len(Tail(all)) : Tail(all)[i] = all[i + 1]
      BY <1>1, HeadTailProperties
    <3>2. Len(all) - 1 = r
      BY <1>1
    <3> QED
      BY <2>1, <3>1, <3>2
  <2>3. r \in 1..r /\ retained' # <<>>
    BY <1>1, <1>3, <1>4, <2>2
  <2>4. retained'[r] = s
    BY <1>1, <2>2, <2>3
  <2>5. ASSUME NEW k \in 1..r, k < Retained
        PROVE  k + 1 <= r /\ retained'[r + 1 - (k + 1)] = retained[r + 1 - k]
    <3>1. k + 1 <= r /\ r + 1 - (k + 1) \in 1..r /\ r + 1 - k \in 1..r
          /\ r + 1 - (k + 1) + 1 = r + 1 - k
      BY <1>1, <1>3, <1>4, <2>5
    <3> QED
      BY <1>1, <2>2, <3>1
  <2> QED
    BY <1>1, <2>2, <2>3, <2>4, <2>5
<1>5. CASE ~(r + 1 > Retained)
  <2>1. retained' = all
    BY <1>2, <1>5
  <2>2. ASSUME NEW k \in 1..r
        PROVE  k + 1 <= r + 1 /\ all[r + 1 + 1 - (k + 1)] = retained[r + 1 - k]
    <3>1. k + 1 <= r + 1 /\ r + 1 + 1 - (k + 1) = r + 1 - k /\ r + 1 - k \in 1..r
      BY <1>1
    <3> QED
      BY <1>1, <3>1
  <2>3. r + 1 \in Nat
    BY <1>1
  <2> QED
    BY <1>1, <2>1, <2>2, <2>3
<1> QED
  BY <1>4, <1>5

(* What the elements of inFlight are.                                      *)
LEMMA FrameTypes ==
  ASSUME Types
  PROVE  /\ Len(inFlight) \in Nat /\ Len(inFlight) <= Framebuffers
         /\ DOMAIN inFlight = 1..Len(inFlight)
         /\ \A i \in 1..Len(inFlight) :
              /\ inFlight[i] \in Frame
              /\ inFlight[i].samples \in Source \cup (1..Slots)
              /\ inFlight[i].slice \in 0..Slices
              /\ inFlight[i].slot \in 0..Slots
<1>1. inFlight \in Seq(Frame) /\ Len(inFlight) <= Framebuffers
  BY DEF Types
<1>2. \A f \in Frame : /\ f.samples \in Source \cup (1..Slots)
                       /\ f.slice \in 0..Slices /\ f.slot \in 0..Slots
  BY DEF Frame
<1>3. \A i \in 1..Len(inFlight) : inFlight[i] \in Frame
  BY <1>1, ElementOfSeq
<1> QED
  BY <1>1, <1>2, <1>3, LenProperties

(* A frame is submitted after those in flight.                             *)
Submitted ==
  /\ Len(inFlight) < Framebuffers
  /\ Len(inFlight') = Len(inFlight) + 1
  /\ \A i \in 1..Len(inFlight) : inFlight'[i] = inFlight[i]

NewFrame == inFlight'[Len(inFlight) + 1]

(* It samples the surface drawn last, or none.                             *)
LEMMA SamplesKeptByFrame ==
  ASSUME Types, SamplesKept, Submitted,
         retained' = retained \/ \E s \in Source : Retain(s),
         NewFrame.samples \in Surfaces =>
           retained' # <<>> /\ retained'[Len(retained')] = NewFrame.samples,
         retained' \in Seq(Source)
  PROVE  SamplesKept'
<1> DEFINE n == Len(inFlight)
           r == Len(retained)
<1>1. n \in Nat /\ n < Framebuffers /\ Len(inFlight') = n + 1
      /\ \A i \in 1..n : inFlight'[i] = inFlight[i]
  BY FrameTypes DEF Submitted
<1>2. r \in Nat /\ Len(retained') \in Nat
  BY LenProperties DEF Types
<1>3. ASSUME NEW i \in 1..n, inFlight[i].samples \in Surfaces
      PROVE  \E k \in 1..(n + 1 - i + 1) :
               k <= Len(retained')
               /\ retained'[Len(retained') + 1 - k] = inFlight[i].samples
  <2>1. PICK k \in 1..(n - i + 1) : k <= r /\ retained[r + 1 - k] = inFlight[i].samples
    BY <1>3 DEF SamplesKept, Age
  <2>2. k \in 1..r /\ k < Retained
        /\ k \in 1..(n + 1 - i + 1) /\ k + 1 \in 1..(n + 1 - i + 1)
    BY <1>1, <1>2, <2>1, Sizes
  <2>3. CASE retained' = retained
    BY <2>1, <2>2, <2>3
  <2>4. ASSUME NEW s \in Source, Retain(s)
        PROVE  k + 1 <= Len(retained')
               /\ retained'[Len(retained') + 1 - (k + 1)] = inFlight[i].samples
    BY <2>1, <2>2, <2>4, RetainEffect
  <2> QED
    BY <2>2, <2>3, <2>4
<1>4. ASSUME NewFrame.samples \in Surfaces
      PROVE  1 <= Len(retained') /\ retained'[Len(retained') + 1 - 1] = NewFrame.samples
  <2>1. Len(retained') # 0
    BY <1>4, EmptySeq
  <2>2. 1 <= Len(retained') /\ Len(retained') + 1 - 1 = Len(retained')
    BY <1>2, <2>1
  <2> QED
    BY <1>4, <2>2
<1> SUFFICES ASSUME NEW i \in 1..(n + 1), inFlight'[i].samples \in Surfaces
             PROVE  \E k \in 1..(n + 1 - i + 1) :
                      k <= Len(retained')
                      /\ retained'[Len(retained') + 1 - k] = inFlight'[i].samples
  BY <1>1 DEF SamplesKept, Age
<1>5. CASE i \in 1..n
  BY <1>1, <1>3, <1>5
<1>6. CASE i = n + 1
  <2>1. 1 \in 1..(n + 1 - i + 1)
    BY <1>1, <1>6
  <2> QED
    BY <1>4, <1>6, <2>1 DEF NewFrame
<1> QED
  BY <1>1, <1>5, <1>6

(* It was written to the next slot, or to none, and samples the slot       *)
(* written last.                                                           *)
LEMMA SlotsBehindWithFrame ==
  ASSUME Types, SlotsBehind, Submitted,
         \/ slot' = slot /\ NewFrame.slot = 0
         \/ /\ slot' = IF slot = Slots THEN 1 ELSE slot + 1
            /\ NewFrame.slot = slot,
         NewFrame.samples \in 1..Slots => Behind(slot', NewFrame.samples, Slots) = 1
  PROVE  SlotsBehind'
<1> DEFINE n == Len(inFlight)
           Uses(f) == {f.samples, f.slot} \cap (1..Slots)
           back(x) == Behind(slot, x, Slots)
           after(x) == Behind(slot', x, Slots)
<1>1. n \in Nat /\ n < Slots /\ Len(inFlight') = n + 1
      /\ \A i \in 1..n : inFlight'[i] = inFlight[i]
  BY FrameTypes, Sizes DEF Submitted
<1>2. slot \in 1..Slots /\ Slots \in Nat \ {0}
      /\ \A i \in 1..n : inFlight[i].slot \in 0..Slots
  BY FrameTypes, Sizes DEF Types
<1>3. \A i \in 1..n : \A x \in Uses(inFlight[i]) :
        /\ back(x) <= n - i + 1
        /\ \A j \in 1..n :
             i < j /\ inFlight[j].slot # 0 => back(x) > back(inFlight[j].slot)
  BY DEF SlotsBehind, UsesSlots, Age
<1>4. \/ slot' = slot /\ NewFrame.slot = 0
      \/ /\ \A x \in 1..Slots : back(x) < Slots => after(x) = back(x) + 1
         /\ NewFrame.slot = slot /\ after(slot) = 1
  BY <1>2, RingAdvances
<1>5. \A x \in 1..Slots : back(x) \in 1..Slots
  BY <1>2, RingAdvances
<1> HIDE DEF back, after
<1>6. slot' = slot => \A x : after(x) = back(x)
  BY DEF back, after
<1>7. \A x \in Uses(NewFrame) : after(x) = 1
  <2>1. NewFrame.samples \in 1..Slots => after(NewFrame.samples) = 1
    BY DEF after
  <2>2. NewFrame.slot \in 1..Slots => after(NewFrame.slot) = 1
    BY <1>4
  <2> QED
    BY <2>1, <2>2
<1>8. ASSUME NEW i \in 1..n, NEW x \in Uses(inFlight[i])
      PROVE  /\ after(x) <= n + 1 - i + 1
             /\ \A j \in 1..n :
                  i < j /\ inFlight[j].slot # 0 => after(x) > after(inFlight[j].slot)
             /\ NewFrame.slot # 0 => after(x) > after(NewFrame.slot)
  <2>1. /\ x \in 1..Slots /\ back(x) \in 1..Slots /\ back(x) <= n - i + 1
        /\ \A j \in 1..n :
             i < j /\ inFlight[j].slot # 0 => back(x) > back(inFlight[j].slot)
    BY <1>3, <1>5
  <2>2. back(x) < Slots
    <3>1. back(x) \in Nat /\ i \in Nat /\ i >= 1 /\ Slots \in Nat
      BY <1>1, <1>2, <2>1
    <3> QED
      BY ONLY <1>1, <2>1, <3>1
  <2>3. ASSUME NEW j \in 1..n, inFlight[j].slot # 0
        PROVE  inFlight[j].slot \in 1..Slots /\ back(inFlight[j].slot) \in 1..Slots
    <3>1. inFlight[j].slot \in 1..Slots
      BY <1>2, <2>3
    <3> QED
      BY <1>5, <3>1
  <2>4. CASE slot' = slot /\ NewFrame.slot = 0
    BY <1>1, <1>6, <2>1, <2>4
  <2>5. CASE /\ \A y \in 1..Slots : back(y) < Slots => after(y) = back(y) + 1
             /\ NewFrame.slot = slot /\ after(slot) = 1
    <3>1. after(x) = back(x) + 1
      BY <2>1, <2>2, <2>5
    <3>2. ASSUME NEW j \in 1..n, i < j, inFlight[j].slot # 0
          PROVE  after(x) > after(inFlight[j].slot)
      <4>1. back(x) > back(inFlight[j].slot) /\ back(inFlight[j].slot) \in 1..Slots
            /\ inFlight[j].slot \in 1..Slots
        BY <2>1, <2>3, <3>2
      <4>2. back(inFlight[j].slot) < Slots
        BY ONLY <1>2, <2>1, <2>2, <4>1
      <4>3. after(inFlight[j].slot) = back(inFlight[j].slot) + 1
        BY <2>5, <4>1, <4>2
      <4> QED
        BY <2>1, <3>1, <4>1, <4>3
    <3>3. after(x) <= n + 1 - i + 1 /\ after(x) > 1
      BY <1>1, <2>1, <3>1
    <3> QED
      BY <2>5, <3>2, <3>3
  <2> QED
    BY <1>4, <2>4, <2>5
<1> HIDE DEF Uses
<1> SUFFICES ASSUME NEW i \in 1..(n + 1), NEW x \in Uses(inFlight'[i])
             PROVE  /\ after(x) <= n + 1 - i + 1
                    /\ \A j \in 1..(n + 1) :
                         i < j /\ inFlight'[j].slot # 0 =>
                           after(x) > after(inFlight'[j].slot)
  BY <1>1 DEF SlotsBehind, UsesSlots, Age, Uses, after
<1>9. CASE i \in 1..n
  <2>1. x \in Uses(inFlight[i])
    BY <1>1, <1>9
  <2>2. \A j \in 1..(n + 1) : j \in 1..n \/ j = n + 1
    BY <1>1
  <2> QED
    BY <1>1, <1>8, <1>9, <2>1, <2>2 DEF NewFrame
<1>10. CASE i = n + 1
  <2>1. after(x) = 1 /\ n + 1 - i + 1 = 1
    BY <1>1, <1>7, <1>10 DEF NewFrame
  <2>2. \A j \in 1..(n + 1) : ~(i < j)
    BY <1>1, <1>10
  <2> QED
    BY <2>1, <2>2
<1> QED
  BY <1>1, <1>9, <1>10

(* Its commands were written to the next slice, or it has none.            *)
LEMMA SlicesBehindWithFrame ==
  ASSUME Types, SlicesBehind, Submitted,
         \/ slice' = slice /\ NewFrame.slice = 0
         \/ slice' = NextSlice /\ NewFrame.slice = slice
  PROVE  SlicesBehind'
<1> DEFINE n == Len(inFlight)
           back(x) == Behind(slice, x, Slices)
           after(x) == Behind(slice', x, Slices)
<1>1. n \in Nat /\ n < Slices /\ Len(inFlight') = n + 1
      /\ \A i \in 1..n : inFlight'[i] = inFlight[i]
  BY FrameTypes, Sizes DEF Submitted
<1>2. slice \in 1..Slices /\ Slices \in Nat \ {0}
      /\ \A i \in 1..n : inFlight[i].slice \in 0..Slices
  BY FrameTypes, Sizes DEF Types
<1>3. \A i \in 1..n : inFlight[i].slice # 0 =>
        /\ back(inFlight[i].slice) <= n - i + 1
        /\ \A j \in 1..n :
             i < j /\ inFlight[j].slice # 0 =>
               back(inFlight[i].slice) > back(inFlight[j].slice)
  BY DEF SlicesBehind, Age
<1>4. \/ slice' = slice /\ NewFrame.slice = 0
      \/ /\ \A x \in 1..Slices : back(x) < Slices => after(x) = back(x) + 1
         /\ NewFrame.slice = slice /\ after(slice) = 1
  BY <1>2, RingAdvances DEF NextSlice
<1>5. \A x \in 1..Slices : back(x) \in 1..Slices
  BY <1>2, RingAdvances
<1> HIDE DEF back, after
<1>6. slice' = slice => \A x : after(x) = back(x)
  BY DEF back, after
<1>7. ASSUME NEW i \in 1..n, inFlight[i].slice # 0
      PROVE  /\ after(inFlight[i].slice) <= n + 1 - i + 1
             /\ \A j \in 1..n :
                  i < j /\ inFlight[j].slice # 0 =>
                    after(inFlight[i].slice) > after(inFlight[j].slice)
             /\ NewFrame.slice # 0 => after(inFlight[i].slice) > after(NewFrame.slice)
  <2> DEFINE x == inFlight[i].slice
  <2>1. /\ x \in 1..Slices /\ back(x) \in 1..Slices /\ back(x) <= n - i + 1
        /\ \A j \in 1..n :
             i < j /\ inFlight[j].slice # 0 => back(x) > back(inFlight[j].slice)
    <3>1. x \in 1..Slices
      BY <1>2, <1>7
    <3>2. /\ back(x) <= n - i + 1
          /\ \A j \in 1..n :
               i < j /\ inFlight[j].slice # 0 => back(x) > back(inFlight[j].slice)
      BY <1>3, <1>7
    <3> QED
      BY <1>5, <3>1, <3>2
  <2> HIDE DEF x
  <2>2. back(x) < Slices
    <3>1. back(x) \in Nat /\ i \in Nat /\ i >= 1 /\ Slices \in Nat
      BY <1>1, <1>2, <2>1
    <3> QED
      BY ONLY <1>1, <2>1, <3>1
  <2>3. ASSUME NEW j \in 1..n, inFlight[j].slice # 0
        PROVE  inFlight[j].slice \in 1..Slices /\ back(inFlight[j].slice) \in 1..Slices
    <3>1. inFlight[j].slice \in 1..Slices
      BY <1>2, <2>3
    <3> QED
      BY <1>5, <3>1
  <2>4. CASE slice' = slice /\ NewFrame.slice = 0
    BY <1>1, <1>6, <2>1, <2>4 DEF x
  <2>5. CASE /\ \A y \in 1..Slices : back(y) < Slices => after(y) = back(y) + 1
             /\ NewFrame.slice = slice /\ after(slice) = 1
    <3>1. after(x) = back(x) + 1
      BY <2>1, <2>2, <2>5
    <3>2. ASSUME NEW j \in 1..n, i < j, inFlight[j].slice # 0
          PROVE  after(x) > after(inFlight[j].slice)
      <4>1. back(x) > back(inFlight[j].slice) /\ back(inFlight[j].slice) \in 1..Slices
            /\ inFlight[j].slice \in 1..Slices
        BY <2>1, <2>3, <3>2
      <4>2. back(inFlight[j].slice) < Slices
        BY ONLY <1>2, <2>1, <2>2, <4>1
      <4>3. after(inFlight[j].slice) = back(inFlight[j].slice) + 1
        BY <2>5, <4>1, <4>2
      <4> QED
        BY <2>1, <3>1, <4>1, <4>3
    <3>3. after(x) <= n + 1 - i + 1 /\ after(x) > 1
      BY <1>1, <2>1, <3>1
    <3> QED
      BY <2>5, <3>2, <3>3 DEF x
  <2> QED
    BY <1>4, <2>4, <2>5
<1>8. NewFrame.slice # 0 => after(NewFrame.slice) = 1
  BY <1>4
<1> SUFFICES ASSUME NEW i \in 1..(n + 1), inFlight'[i].slice # 0
             PROVE  /\ after(inFlight'[i].slice) <= n + 1 - i + 1
                    /\ \A j \in 1..(n + 1) :
                         i < j /\ inFlight'[j].slice # 0 =>
                           after(inFlight'[i].slice) > after(inFlight'[j].slice)
  BY <1>1 DEF SlicesBehind, Age, after
<1>9. CASE i \in 1..n
  <2>1. inFlight[i].slice # 0 /\ inFlight'[i] = inFlight[i]
    BY <1>1, <1>9
  <2>2. \A j \in 1..(n + 1) : j \in 1..n \/ j = n + 1
    BY <1>1
  <2> QED
    BY <1>1, <1>7, <1>9, <2>1, <2>2 DEF NewFrame
<1>10. CASE i = n + 1
  <2>1. after(inFlight'[i].slice) = 1 /\ n + 1 - i + 1 = 1
    BY <1>1, <1>8, <1>10 DEF NewFrame
  <2>2. \A j \in 1..(n + 1) : ~(i < j)
    BY <1>1, <1>10
  <2> QED
    BY <2>1, <2>2
<1> QED
  BY <1>1, <1>9, <1>10

(* When the GPU has finished the oldest frame, the others are where they   *)
(* were, seen from the newest one.                                         *)
LEMMA FramesAfterGpuDone ==
  ASSUME Types, SamplesKept, SlotsBehind, SlicesBehind, GpuDone
  PROVE  /\ inFlight' \in Seq(Frame) /\ Len(inFlight') <= Framebuffers
         /\ SamplesKept' /\ SlotsBehind' /\ SlicesBehind'
<1> DEFINE n == Len(inFlight)
<1>1. inFlight \in Seq(Frame) /\ inFlight # <<>> /\ inFlight' = Tail(inFlight)
      /\ UNCHANGED <<retained, slot, slice>>
  BY DEF Types, GpuDone, renderVars
<1>2. /\ inFlight' \in Seq(Frame) /\ Len(inFlight') = n - 1 /\ n \in Nat \ {0}
      /\ \A i \in 1..(n - 1) : inFlight'[i] = inFlight[i + 1]
  <2> HIDE DEF Frame
  <2>1. /\ Tail(inFlight) \in Seq(Frame) /\ Len(Tail(inFlight)) = n - 1
        /\ \A i \in 1..Len(Tail(inFlight)) : Tail(inFlight)[i] = inFlight[i + 1]
    BY <1>1, HeadTailProperties
  <2>2. n \in Nat \ {0}
    BY <1>1, EmptySeq
  <2> QED
    BY <1>1, <2>1, <2>2
<1>3. \A i \in 1..(n - 1) : i + 1 \in 1..n /\ Age(i)' = Age(i + 1)
  BY <1>2 DEF Age
<1>4. \A i, j \in 1..(n - 1) : i < j => i + 1 < j + 1
  BY <1>2
<1>5. Len(inFlight') <= Framebuffers
  BY <1>2, FrameTypes, Sizes
<1>6. SamplesKept'
  BY <1>1, <1>2, <1>3 DEF SamplesKept
<1>7. SlotsBehind'
  <2>1. \A i \in 1..(n - 1) : UsesSlots(i)' = UsesSlots(i + 1)
    BY <1>2 DEF UsesSlots
  <2> HIDE DEF n
  <2>2. SUFFICES ASSUME NEW i \in 1..(n - 1), NEW x \in UsesSlots(i + 1)
                 PROVE  /\ Behind(slot, x, Slots) <= Age(i + 1)
                        /\ \A j \in 1..(n - 1) :
                             i < j /\ inFlight[j + 1].slot # 0 =>
                               Behind(slot, x, Slots)
                                 > Behind(slot, inFlight[j + 1].slot, Slots)
    BY <1>1, <1>2, <1>3, <2>1 DEF SlotsBehind
  <2> QED
    BY <1>3, <1>4 DEF SlotsBehind, n
<1>8. SlicesBehind'
  <2> HIDE DEF n
  <2>1. SUFFICES ASSUME NEW i \in 1..(n - 1), inFlight[i + 1].slice # 0
                 PROVE  /\ Behind(slice, inFlight[i + 1].slice, Slices) <= Age(i + 1)
                        /\ \A j \in 1..(n - 1) :
                             i < j /\ inFlight[j + 1].slice # 0 =>
                               Behind(slice, inFlight[i + 1].slice, Slices)
                                 > Behind(slice, inFlight[j + 1].slice, Slices)
    BY <1>1, <1>2, <1>3 DEF SlicesBehind
  <2>2. /\ Behind(slice, inFlight[i + 1].slice, Slices) <= Age(i + 1)
        /\ \A j \in 1..Len(inFlight) :
             i + 1 < j /\ inFlight[j].slice # 0 =>
               Behind(slice, inFlight[i + 1].slice, Slices)
                 > Behind(slice, inFlight[j].slice, Slices)
    BY <1>3, <2>1 DEF SlicesBehind, n
  <2> QED
    BY <1>3, <1>4, <2>2 DEF n
<1> QED
  BY <1>2, <1>5, <1>6, <1>7, <1>8

LEMMA FrameSubmitted ==
  ASSUME Types, Len(inFlight) < Framebuffers, NEW f \in Frame,
         inFlight' = Append(inFlight, f)
  PROVE  /\ Submitted /\ NewFrame = f
         /\ inFlight' \in Seq(Frame) /\ Len(inFlight') <= Framebuffers
<1>1. inFlight \in Seq(Frame)
  BY DEF Types
<1> HIDE DEF Frame
<1>2. /\ inFlight' \in Seq(Frame) /\ Len(inFlight') = Len(inFlight) + 1
      /\ \A i \in 1..Len(inFlight) : inFlight'[i] = inFlight[i]
      /\ inFlight'[Len(inFlight) + 1] = f
      /\ Len(inFlight) \in Nat
  BY <1>1, Appended
<1> QED
  BY <1>2, Sizes DEF Submitted, NewFrame

-----------------------------------------------------------------------------
(* The steps                                                                *)

(* The picture shown is the one before or a later one.                     *)
LEMMA TakeEffect ==
  ASSUME Types, Generations, Take, decoded' = decoded
  PROVE  /\ queue' \in Seq(Waits) /\ front' \in Waits
         /\ rendered <= front'.generation /\ front'.generation <= decoded
         /\ \A i \in 1..Len(queue') :
              front'.generation < queue'[i].generation
              /\ queue'[i].generation <= decoded
         /\ \A i, j \in 1..Len(queue') :
              i < j => queue'[i].generation < queue'[j].generation
         /\ front'.generation = rendered => front' = front
<1>1. /\ queue \in Seq(Waits) /\ front \in Waits /\ rendered \in Nat /\ decoded \in Nat
      /\ Len(queue) \in Nat /\ DOMAIN queue = 1..Len(queue)
  <2>1. queue \in Seq(Waits)
    BY DEF Types
  <2> QED
    BY <2>1, LenProperties DEF Types
<1>2. \A p \in Waits : p.generation \in Nat
  BY DEF Waits
<1>3. \A i \in 1..Len(queue) : queue[i] \in Waits /\ queue[i].generation \in Nat
  BY <1>1, <1>2, ElementOfSeq
<1>4. /\ rendered <= front.generation /\ front.generation <= decoded
      /\ front.generation \in Nat
      /\ \A i \in 1..Len(queue) :
           front.generation < queue[i].generation /\ queue[i].generation <= decoded
      /\ \A i, j \in 1..Len(queue) :
           i < j => queue[i].generation < queue[j].generation
  BY <1>1, <1>2 DEF Generations
<1>5. CASE UNCHANGED <<queue, front>>
  <2>1. queue' = queue /\ front' = front
    BY <1>5
  <2> QED
    BY <1>1, <1>4, <2>1
<1>6. ASSUME NEW i \in 1..Len(queue), front' = queue[i],
             queue' = SubSeq(queue, i + 1, Len(queue))
      PROVE  /\ queue' \in Seq(Waits) /\ front' \in Waits
             /\ rendered <= front'.generation /\ front'.generation <= decoded
             /\ \A k \in 1..Len(queue') :
                  front'.generation < queue'[k].generation
                  /\ queue'[k].generation <= decoded
             /\ \A k, j \in 1..Len(queue') :
                  k < j => queue'[k].generation < queue'[j].generation
             /\ front'.generation # rendered
  <2>1. /\ queue' \in Seq(Waits) /\ Len(queue') = Len(queue) - i
        /\ \A k \in 1..(Len(queue) - i) : queue'[k] = queue[i + k]
    <3>1. i \in 0..Len(queue)
      BY <1>1
    <3> HIDE DEF Waits
    <3> QED
      BY <1>1, <1>6, <3>1, Taken
  <2>2. \A k \in 1..(Len(queue) - i) : i + k \in 1..Len(queue) /\ i < i + k
    BY <1>1
  <2>3. \A k, j \in 1..(Len(queue) - i) : k < j => i + k < i + j
    BY <1>1
  <2>4. front' \in Waits /\ front'.generation \in Nat
        /\ front.generation < front'.generation /\ front'.generation <= decoded
    BY <1>3, <1>4, <1>6
  <2>5. rendered <= front'.generation /\ front'.generation # rendered
    BY ONLY <1>1, <1>4, <2>4
  <2>6. \A k \in 1..Len(queue') :
          front'.generation < queue'[k].generation /\ queue'[k].generation <= decoded
    BY <1>4, <1>6, <2>1, <2>2
  <2>7. \A k, j \in 1..Len(queue') :
          k < j => queue'[k].generation < queue'[j].generation
    BY <1>4, <2>1, <2>2, <2>3
  <2> QED
    BY <2>1, <2>4, <2>5, <2>6, <2>7
<1> QED
  BY <1>1, <1>5, <1>6 DEF Take

(* A frame of the UI thread leaves these as they should be, whatever it    *)
(* draws.                                                                  *)
LEMMA DrawFrame ==
  ASSUME IInv, Draw, rendered' = rendered \/ rendered' = front'.generation
  PROVE  /\ queue' \in Seq(Waits) /\ front' \in Waits
         /\ decoded' \in Nat /\ rendered' \in Nat
         /\ phase = "streaming" /\ decoder' = decoder
         /\ Len(inFlight) < Framebuffers
         /\ rendered <= front'.generation
         /\ front'.generation = rendered => front' = front
         /\ Idle' /\ Generations'
<1>1. /\ Types /\ Generations /\ Take
      /\ UNCHANGED <<phase, decoder, decoded>>
      /\ phase = "streaming" /\ Len(inFlight) < Framebuffers
  BY DEF IInv, Draw
<1>2. /\ queue' \in Seq(Waits) /\ front' \in Waits
      /\ rendered <= front'.generation /\ front'.generation <= decoded
      /\ \A i \in 1..Len(queue') :
           front'.generation < queue'[i].generation
           /\ queue'[i].generation <= decoded
      /\ \A i, j \in 1..Len(queue') :
           i < j => queue'[i].generation < queue'[j].generation
      /\ front'.generation = rendered => front' = front
  BY <1>1, TakeEffect
<1>3. rendered \in Nat /\ decoded \in Nat /\ front'.generation \in Nat
  <2>1. \A p \in Waits : p.generation \in Nat
    BY DEF Waits
  <2> QED
    BY <1>1, <1>2, <2>1 DEF Types
<1>4. Idle'
  BY <1>1 DEF Idle
<1>5. rendered' <= front'.generation
  BY <1>2, <1>3
<1>6. Generations'
  BY <1>1, <1>2, <1>5 DEF Generations
<1> QED
  BY <1>1, <1>2, <1>3, <1>4, <1>6

(* A frame that shows nothing, or the picture of the frame before.         *)
LEMMA StillStep ==
  ASSUME IInv, Draw, NEW f \in Frame, inFlight' = Append(inFlight, f),
         UNCHANGED <<rendered, retained, mappings, current, slice, slot, bound>>,
         f.slice = 0, f.slot = 0,
         f.samples = None \/ (f.samples = bound /\ front'.generation = rendered)
  PROVE  IInv'
<1>1. /\ Types /\ Generations /\ Cache /\ Drawn
      /\ SamplesKept /\ SlotsBehind /\ SlicesBehind
  BY DEF IInv
<1>2. /\ queue' \in Seq(Waits) /\ front' \in Waits
      /\ decoded' \in Nat /\ rendered' \in Nat /\ decoder' = decoder
      /\ Len(inFlight) < Framebuffers /\ rendered <= front'.generation
      /\ front'.generation = rendered => front' = front
      /\ Idle' /\ Generations'
  BY DrawFrame
<1>3. /\ Submitted /\ NewFrame = f
      /\ inFlight' \in Seq(Frame) /\ Len(inFlight') <= Framebuffers
  BY <1>1, <1>2, FrameSubmitted
<1>4. Types'
  BY <1>1, <1>2, <1>3 DEF Types
<1>5. Cache'
  BY <1>1 DEF Cache
<1>6. Drawn'
  BY <1>1, <1>2 DEF Drawn
<1>7. SamplesKept'
  <2>1. f.samples \in Surfaces => retained # <<>> /\ retained[Len(retained)] = f.samples
    BY <1>1, Sizes DEF Drawn
  <2> QED
    BY <1>1, <1>3, <1>4, <2>1, SamplesKeptByFrame DEF Types
<1>8. SlotsBehind'
  <2>1. f.samples \in 1..Slots => Behind(slot, f.samples, Slots) = 1
    <3>1. None \notin 1..Slots
      BY Sizes DEF Source
    <3> QED
      BY <1>1, <1>2, <3>1 DEF Drawn
  <2> QED
    BY <1>1, <1>3, <2>1, SlotsBehindWithFrame
<1>9. SlicesBehind'
  BY <1>1, <1>3, SlicesBehindWithFrame
<1> QED
  BY <1>2, <1>4, <1>5, <1>6, <1>7, <1>8, <1>9 DEF IInv

(* A frame with a new NVDEC picture: its surface is kept and bound.        *)
LEMMA SurfaceStep ==
  ASSUME IInv, Draw, DrawSurface
  PROVE  IInv'
<1> DEFINE map == Mapped(front')
           f == NewFrame
<1>1. /\ Types /\ Generations /\ Cache /\ Drawn
      /\ SamplesKept /\ SlotsBehind /\ SlicesBehind
  BY DEF IInv
<1>2. rendered' = rendered \/ rendered' = front'.generation
  BY DEF DrawSurface
<1>3. /\ queue' \in Seq(Waits) /\ front' \in Waits
      /\ decoded' \in Nat /\ rendered' \in Nat /\ decoder' = decoder
      /\ Len(inFlight) < Framebuffers /\ rendered <= front'.generation
      /\ Idle' /\ Generations'
  BY <1>2, DrawFrame
<1>4. /\ rendered \in Nat /\ front'.generation \in Nat /\ front'.surface \in Source
      /\ rendered < front'.generation
  <2>1. /\ \A p \in Waits : p.generation \in Nat /\ p.surface \in Source
    BY DEF Waits
  <2>2. front'.generation # rendered
    BY DEF DrawSurface
  <2>3. rendered \in Nat /\ front'.generation \in Nat /\ front'.surface \in Source
    BY <1>1, <1>3, <2>1 DEF Types
  <2> QED
    BY <1>3, <2>2, <2>3
<1>5. /\ map.maps \in Seq(Mapping) /\ Len(map.maps) <= Target
      /\ map.index \in 1..Len(map.maps)
      /\ map.maps[map.index] =
           [surface |-> front'.surface, used |-> front'.generation]
      /\ \A i \in 1..Len(map.maps) :
           map.maps[i].used # 0 /\ map.maps[i].used <= front'.generation
      /\ \A i, j \in 1..Len(map.maps) :
           i # j => /\ map.maps[i].used # map.maps[j].used
                    /\ map.maps[i].surface # map.maps[j].surface
      /\ map.index = map.cur =>
           current # 0 /\ mappings[current].surface = front'.surface
  BY <1>1, <1>3, <1>4, MappedEffect
<1>6. /\ decoder = "nvdec" /\ mappings' = map.maps /\ slot' = slot
      /\ current' = map.index /\ rendered' = front'.generation
      /\ Retain(front'.surface)
      /\ \/ /\ map.index = map.cur /\ slice' = slice /\ bound' = bound
            /\ Submit(0, 0)
         \/ bound' = front'.surface /\ slice' = NextSlice /\ Submit(slice, 0)
  <2>1. map.index # 0
    BY <1>5
  <2> QED
    BY <2>1 DEF DrawSurface
<1> HIDE DEF map
<1>7. bound' = front'.surface
  BY <1>1, <1>5, <1>6 DEF Drawn
<1>8. PICK s \in {0, slice} :
        /\ inFlight' = Append(inFlight, [samples |-> bound', slice |-> s, slot |-> 0])
        /\ \/ slice' = slice /\ s = 0
           \/ slice' = NextSlice /\ s = slice
  BY <1>6 DEF Submit
<1>9. slice' \in 1..Slices /\ slice \in 1..Slices
  BY <1>1, <1>6, Sizes DEF Types, NextSlice
<1>10. [samples |-> bound', slice |-> s, slot |-> 0] \in Frame
  BY <1>4, <1>7, <1>9, Sizes DEF Frame
<1>11. /\ Submitted /\ NewFrame = [samples |-> bound', slice |-> s, slot |-> 0]
       /\ inFlight' \in Seq(Frame) /\ Len(inFlight') <= Framebuffers
  BY <1>1, <1>3, <1>8, <1>10, FrameSubmitted
<1>12. NewFrame.samples = bound' /\ NewFrame.slice = s /\ NewFrame.slot = 0
  BY <1>11
<1>13. /\ retained' \in Seq(Source) /\ retained' # <<>>
       /\ retained'[Len(retained')] = front'.surface
  BY <1>1, <1>4, <1>6, RetainEffect
<1>14. bound' \notin 1..Slots
  BY <1>4, <1>7, Sizes
<1>15. current' \in 0..Len(mappings') /\ current' # 0
  <2>1. Len(map.maps) \in Nat
    BY <1>5, LenProperties
  <2> QED
    BY <1>5, <1>6, <2>1
<1>16. Types'
  <2>1. bound' \in Source \cup (1..Slots) /\ slot' \in 1..Slots
    BY <1>1, <1>4, <1>6, <1>7 DEF Types
  <2> QED
    BY <1>3, <1>5, <1>6, <1>9, <1>11, <1>13, <1>15, <2>1 DEF Types
<1>17. Cache'
  BY <1>5, <1>6 DEF Cache
<1>18. Drawn'
  <2>1. mappings'[current'].surface = bound' /\ mappings'[current'].used = rendered'
    BY <1>5, <1>6, <1>7
  <2> QED
    BY <1>3, <1>6, <1>7, <1>13, <1>14, <1>15, <2>1 DEF Drawn
<1>19. SamplesKept'
  BY <1>1, <1>4, <1>6, <1>7, <1>11, <1>12, <1>13, SamplesKeptByFrame
<1>20. SlotsBehind'
  BY <1>1, <1>6, <1>11, <1>12, <1>14, SlotsBehindWithFrame
<1>21. SlicesBehind'
  BY <1>1, <1>8, <1>11, <1>12, SlicesBehindWithFrame
<1> QED
  BY <1>3, <1>16, <1>17, <1>18, <1>19, <1>20, <1>21 DEF IInv

(* A frame with a new picture in memory: it is copied to the next slot, or *)
(* the copy fails and the slot is passed over.                             *)
LEMMA SlotStep ==
  ASSUME IInv, Draw, DrawSlot
  PROVE  IInv'
<1>1. /\ Types /\ Generations /\ Cache /\ Drawn
      /\ SamplesKept /\ SlotsBehind /\ SlicesBehind
  BY DEF IInv
<1>2. rendered' = rendered \/ rendered' = front'.generation
  BY DEF DrawSlot
<1>3. /\ queue' \in Seq(Waits) /\ front' \in Waits
      /\ decoded' \in Nat /\ rendered' \in Nat /\ decoder' = decoder
      /\ Len(inFlight) < Framebuffers /\ rendered <= front'.generation
      /\ Idle' /\ Generations'
  BY <1>2, DrawFrame
<1>4. /\ decoder = "software" /\ front'.generation # rendered
      /\ slot' = IF slot = Slots THEN 1 ELSE slot + 1
      /\ UNCHANGED <<retained, mappings, current>>
  BY DEF DrawSlot
<1>5. PICK f \in Frame :
        /\ inFlight' = Append(inFlight, f) /\ f.slot = slot
        /\ \/ /\ bound' = slot /\ slice' = NextSlice /\ rendered' = front'.generation
              /\ f.samples = slot /\ f.slice = slice
           \/ /\ UNCHANGED <<bound, slice, rendered>>
              /\ f.samples = None /\ f.slice = 0
  <2>1. slot \in 1..Slots /\ slice \in 1..Slices
    BY <1>1 DEF Types
  <2>2. [samples |-> slot, slice |-> slice, slot |-> slot] \in Frame
        /\ [samples |-> None, slice |-> 0, slot |-> slot] \in Frame
    BY <2>1, Sizes DEF Frame, Source
  <2>3. \/ /\ bound' = slot /\ slice' = NextSlice /\ rendered' = front'.generation
           /\ inFlight' = Append(inFlight,
                                 [samples |-> slot, slice |-> slice, slot |-> slot])
        \/ /\ UNCHANGED <<bound, slice, rendered>>
           /\ inFlight' = Append(inFlight, [samples |-> None, slice |-> 0, slot |-> slot])
    BY DEF DrawSlot, Submit, Nothing
  <2> QED
    BY <2>2, <2>3
<1>6. /\ Submitted /\ NewFrame = f
      /\ inFlight' \in Seq(Frame) /\ Len(inFlight') <= Framebuffers
  BY <1>1, <1>3, <1>5, FrameSubmitted
<1>7. /\ slot \in 1..Slots /\ slot' \in 1..Slots /\ slice' \in 1..Slices
      /\ Behind(slot', slot, Slots) = 1
  <2>1. slot \in 1..Slots /\ slice \in 1..Slices /\ Slots \in Nat \ {0} /\ Slices \in Nat \ {0}
    BY <1>1, Sizes DEF Types
  <2>2. NextSlice \in 1..Slices
    BY <2>1, RingAdvances DEF NextSlice
  <2>3. slot' \in 1..Slots /\ Behind(slot', slot, Slots) = 1
    BY <1>4, <2>1, RingAdvances
  <2> QED
    BY <1>5, <2>1, <2>2, <2>3
<1>8. current = 0 /\ bound \notin Surfaces /\ slot \notin Surfaces /\ None \notin 1..Slots
  <2>1. slot \notin Surfaces /\ None \notin 1..Slots
    BY <1>7, Sizes DEF Source
  <2> QED
    BY <1>1, <1>4, <2>1 DEF Drawn
<1>9. Types'
  <2>1. bound' \in Source \cup (1..Slots)
    BY <1>1, <1>5, <1>7 DEF Types
  <2> QED
    BY <1>1, <1>3, <1>4, <1>6, <1>7, <2>1 DEF Types
<1>10. Cache'
  <2>1. \A i \in 1..Len(mappings) :
          mappings[i].used # 0 /\ mappings[i].used <= rendered
    BY <1>1 DEF Cache
  <2>2. rendered <= rendered' /\ rendered \in Nat /\ rendered' \in Nat
    BY <1>1, <1>3, <1>5 DEF Types
  <2>3. \A i \in 1..Len(mappings) : mappings[i].used \in Nat
    BY <1>1, MappingTypes
  <2>4. \A i \in 1..Len(mappings) : mappings[i].used <= rendered'
    BY <2>1, <2>2, <2>3
  <2> QED
    BY <1>1, <1>4, <2>1, <2>4 DEF Cache
<1>11. Drawn'
  BY <1>3, <1>4, <1>5, <1>7, <1>8 DEF Drawn
<1>12. SamplesKept'
  BY <1>1, <1>4, <1>5, <1>6, <1>8, <1>9, Sizes, SamplesKeptByFrame DEF Types
<1>13. SlotsBehind'
  BY <1>1, <1>4, <1>5, <1>6, <1>7, <1>8, SlotsBehindWithFrame
<1>14. SlicesBehind'
  BY <1>1, <1>5, <1>6, SlicesBehindWithFrame
<1> QED
  BY <1>3, <1>9, <1>10, <1>11, <1>12, <1>13, <1>14 DEF IInv

LEMMA InitIInv == Init => IInv
<1> SUFFICES ASSUME Init PROVE IInv
  OBVIOUS
<1>1. /\ Len(<<>>) = 0 /\ <<>> \in Seq(Waits) /\ <<>> \in Seq(Source)
      /\ <<>> \in Seq(Mapping) /\ <<>> \in Seq(Frame)
  BY EmptySeq
<1>2. NoPicture \in Waits /\ NoPicture.generation = 0 /\ None \in Source
  BY DEF NoPicture, Waits, Source
<1>3. Types
  BY <1>1, <1>2, Sizes DEF Init, Types
<1>4. Idle /\ Generations /\ Cache
  BY <1>1, <1>2, Sizes DEF Init, Idle, Generations, Cache
<1>5. Drawn
  BY Sizes DEF Init, Drawn, Source
<1>6. SamplesKept /\ SlotsBehind /\ SlicesBehind
  BY <1>1 DEF Init, SamplesKept, SlotsBehind, SlicesBehind
<1> QED
  BY <1>3, <1>4, <1>5, <1>6 DEF IInv

(* A decoded picture goes to the end of the queue.                         *)
LEMMA DecodeStep ==
  ASSUME IInv, NEW surface \in Surfaces \cup {None}, Decode(surface)
  PROVE  IInv'
<1> DEFINE picture == [surface |-> surface, generation |-> decoded + 1]
           all == Append(queue, picture)
           n   == Len(queue)
<1>1. /\ Types /\ Idle /\ Generations /\ Cache /\ Drawn
      /\ SamplesKept /\ SlotsBehind /\ SlicesBehind
  BY DEF IInv
<1>2. /\ decoded' = decoded + 1 /\ queue' = Pushed(picture)
      /\ UNCHANGED <<phase, decoder, front, rendered, retained, mappings, current,
                     slice, slot, bound, inFlight>>
  BY DEF Decode, renderVars
<1>3. /\ queue \in Seq(Waits) /\ decoded \in Nat /\ front.generation \in Nat
      /\ n \in Nat
  <2>1. front \in Waits /\ queue \in Seq(Waits) /\ decoded \in Nat
    BY <1>1 DEF Types
  <2>2. \A p \in Waits : p.generation \in Nat
    BY DEF Waits
  <2> QED
    BY <2>1, <2>2, LenProperties
<1>4. picture \in Waits /\ picture.generation = decoded + 1
  BY <1>3 DEF Waits, Source
<1>5. \A i \in 1..n : queue[i].generation \in Nat
  <2>1. \A p \in Waits : p.generation \in Nat
    BY DEF Waits
  <2> QED
    BY <1>3, <2>1, ElementOfSeq
<1> HIDE DEF picture
<1>6. /\ all \in Seq(Waits) /\ Len(all) = n + 1 /\ all # <<>>
      /\ \A i \in 1..n : all[i] = queue[i]
      /\ all[n + 1] = picture
  BY <1>3, <1>4, Appended
<1>7. \A i \in 1..(n + 1) :
        front.generation < all[i].generation /\ all[i].generation <= decoded + 1
  <2> SUFFICES ASSUME NEW i \in 1..(n + 1)
               PROVE  front.generation < all[i].generation
                      /\ all[i].generation <= decoded + 1
    OBVIOUS
  <2>1. CASE i = n + 1
    <3>1. all[i].generation = decoded + 1 /\ front.generation <= decoded
      BY <1>1, <1>4, <1>6, <2>1 DEF Generations
    <3> QED
      BY ONLY <1>3, <3>1
  <2>2. CASE i \in 1..n
    <3>1. all[i].generation = queue[i].generation /\ queue[i].generation \in Nat
          /\ front.generation < queue[i].generation /\ queue[i].generation <= decoded
      BY <1>1, <1>5, <1>6, <2>2 DEF Generations
    <3> QED
      BY ONLY <1>3, <3>1
  <2> QED
    BY <1>3, <2>1, <2>2
<1>8. \A i, j \in 1..(n + 1) : i < j => all[i].generation < all[j].generation
  <2> SUFFICES ASSUME NEW i \in 1..(n + 1), NEW j \in 1..(n + 1), i < j
               PROVE  all[i].generation < all[j].generation
    OBVIOUS
  <2>1. i \in 1..n
    BY <1>3
  <2>2. CASE j = n + 1
    <3>1. all[j].generation = decoded + 1 /\ all[i].generation = queue[i].generation
          /\ queue[i].generation \in Nat /\ queue[i].generation <= decoded
      BY <1>1, <1>4, <1>5, <1>6, <2>1, <2>2 DEF Generations
    <3> QED
      BY ONLY <1>3, <3>1
  <2>3. CASE j \in 1..n
    BY <1>1, <1>6, <2>1, <2>3 DEF Generations
  <2> QED
    BY <1>3, <2>2, <2>3
<1>9. PICK k \in {0, 1} : /\ queue' \in Seq(Waits) /\ Len(queue') = n + 1 - k
                          /\ \A i \in 1..(n + 1 - k) : queue'[i] = all[i + k]
  <2>1. /\ Tail(all) \in Seq(Waits) /\ Len(Tail(all)) = n
        /\ \A i \in 1..n : Tail(all)[i] = all[i + 1]
    <3> HIDE DEF all, Waits
    <3>1. Len(all) - 1 = n
      BY <1>3, <1>6
    <3> QED
      BY <1>6, <3>1, HeadTailProperties
  <2>2. queue' = Tail(all) \/ queue' = all
    BY <1>2 DEF Pushed
  <2> HIDE DEF all, Waits, n
  <2>3. CASE queue' = Tail(all)
    BY <1>3, <2>1, <2>3
  <2>4. CASE queue' = all
    <3>1. \A i \in 1..(n + 1) : all[i] = all[i + 0]
      BY <1>3
    <3>2. n + 1 - 0 = n + 1
      BY <1>3
    <3> QED
      BY <1>6, <2>4, <3>1, <3>2
  <2> QED
    BY <2>2, <2>3, <2>4
<1> HIDE DEF all
<1>10. Types'
  <2>1. decoded' \in Nat
    BY <1>2, <1>3
  <2> QED
    BY <1>1, <1>2, <1>9, <2>1 DEF Types
<1>11. Generations'
  <2>1. \A i \in 1..(n + 1 - k) : i + k \in 1..(n + 1)
    BY <1>3
  <2>2. \A i, j \in 1..(n + 1 - k) : i < j => i + k < j + k
    BY <1>3
  <2>3. front.generation <= decoded + 1
    BY <1>1, <1>3 DEF Generations
  <2>4. \A i \in 1..Len(queue') :
          front.generation < queue'[i].generation /\ queue'[i].generation <= decoded + 1
    BY <1>7, <1>9, <2>1
  <2>5. \A i, j \in 1..Len(queue') :
          i < j => queue'[i].generation < queue'[j].generation
    BY <1>8, <1>9, <2>1, <2>2
  <2> QED
    BY <1>1, <1>2, <2>3, <2>4, <2>5 DEF Generations
<1>12. Idle' /\ Cache' /\ Drawn'
  BY <1>1, <1>2 DEF Idle, Cache, Drawn
<1>13. SamplesKept' /\ SlotsBehind' /\ SlicesBehind'
  BY <1>1, <1>2 DEF SamplesKept, SlotsBehind, SlicesBehind, Age, UsesSlots
<1> QED
  BY <1>10, <1>11, <1>12, <1>13 DEF IInv

(* With an empty renderer nothing but the pictures can be wrong.           *)
LEMMA EmptyRenderer ==
  ASSUME rendered' = 0, retained' = <<>>, mappings' = <<>>, current' = 0,
         slice' \in 1..Slices, slot' \in 1..Slots, bound' = None, inFlight' = <<>>,
         queue' \in Seq(Waits), front' \in Waits, decoded' \in Nat, Generations'
  PROVE  IInv'
<1>1. /\ Len(<<>>) = 0 /\ <<>> \in Seq(Source)
      /\ <<>> \in Seq(Mapping) /\ <<>> \in Seq(Frame)
  BY EmptySeq
<1>2. Types'
  BY <1>1, Sizes DEF Types, Source
<1>3. Idle' /\ Cache' /\ SamplesKept' /\ SlotsBehind' /\ SlicesBehind'
  BY <1>1, Sizes DEF Idle, Cache, SamplesKept, SlotsBehind, SlicesBehind
<1>4. Drawn'
  BY Sizes DEF Drawn, Source
<1> QED
  BY <1>2, <1>3, <1>4 DEF IInv

(* No picture is left.                                                     *)
LEMMA NoPictures ==
  ASSUME Cleanup, rendered' = 0
  PROVE  /\ queue' \in Seq(Waits) /\ front' \in Waits /\ decoded' \in Nat
         /\ Generations'
<1>1. <<>> \in Seq(Waits) /\ Len(<<>>) = 0
  BY EmptySeq
<1>2. NoPicture \in Waits /\ NoPicture.generation = 0
  BY DEF NoPicture, Waits, Source
<1> QED
  BY <1>1, <1>2 DEF Cleanup, Generations

(* Outside a stream the backend may change, and the decoder may be freed.  *)
LEMMA IdleStep ==
  ASSUME IInv, phase \notin {"streaming", "renderer"},
         UNCHANGED <<renderVars, inFlight>>,
         UNCHANGED <<decoded, queue, front>> \/ Cleanup
  PROVE  IInv'
<1>1. /\ rendered' = 0 /\ retained' = <<>> /\ mappings' = <<>> /\ current' = 0
      /\ slice' \in 1..Slices /\ slot' \in 1..Slots
      /\ bound' = None /\ inFlight' = <<>>
  BY DEF IInv, Types, Idle, renderVars
<1>2. /\ queue' \in Seq(Waits) /\ front' \in Waits /\ decoded' \in Nat
      /\ Generations'
  <2>1. CASE UNCHANGED <<decoded, queue, front>>
    <3>1. rendered' = rendered
      BY DEF renderVars
    <3> QED
      BY <2>1, <3>1 DEF IInv, Types, Generations
  <2>2. CASE Cleanup
    BY <1>1, <2>2, NoPictures
  <2> QED
    BY <2>1, <2>2
<1> QED
  BY <1>1, <1>2, EmptyRenderer

(* The renderer goes, with a wait for the GPU or with the program.         *)
LEMMA RendererFreed ==
  ASSUME IInv, NoRenderer, inFlight' = <<>>,
         UNCHANGED <<decoded, queue, front>> \/ Cleanup
  PROVE  IInv'
<1>1. /\ rendered' = 0 /\ retained' = <<>> /\ mappings' = <<>> /\ current' = 0
      /\ slice' \in 1..Slices /\ slot' \in 1..Slots
      /\ bound' = None /\ inFlight' = <<>>
  BY Sizes DEF NoRenderer
<1>2. /\ queue' \in Seq(Waits) /\ front' \in Waits /\ decoded' \in Nat
      /\ Generations'
  <2>1. CASE UNCHANGED <<decoded, queue, front>>
    <3>1. /\ Types /\ Generations
      BY DEF IInv
    <3>2. /\ front \in Waits /\ rendered \in Nat
      BY <3>1 DEF Types
    <3>3. front.generation \in Nat
      BY <3>2 DEF Waits
    <3>4. 0 <= front.generation
      BY <3>3
    <3> QED
      BY <1>1, <2>1, <3>1, <3>4 DEF Types, Generations
  <2>2. CASE Cleanup
    BY <1>1, <2>2, NoPictures
  <2> QED
    BY <2>1, <2>2
<1> QED
  BY <1>1, <1>2, EmptyRenderer

(* Nothing the invariant speaks of changes.                                *)
LEMMA QuietStep ==
  ASSUME IInv, UNCHANGED <<decoder, decoded, queue, front, renderVars, inFlight>>,
         phase' \notin {"streaming", "renderer"} => phase \notin {"streaming", "renderer"}
  PROVE  IInv'
<1>1. /\ Types /\ Idle /\ Generations /\ Cache /\ Drawn
      /\ SamplesKept /\ SlotsBehind /\ SlicesBehind
  BY DEF IInv
<1>2. UNCHANGED <<decoder, decoded, queue, front, rendered, retained, mappings,
                  current, slice, slot, bound, inFlight>>
  BY DEF renderVars
<1>3. Types'
  BY <1>1, <1>2 DEF Types
<1>4. Idle'
  BY <1>1, <1>2 DEF Idle
<1>5. Generations' /\ Cache'
  BY <1>1, <1>2 DEF Generations, Cache
<1>6. Drawn'
  BY <1>1, <1>2 DEF Drawn
<1>7. SamplesKept' /\ SlotsBehind' /\ SlicesBehind'
  BY <1>1, <1>2 DEF SamplesKept, SlotsBehind, SlicesBehind, Age, UsesSlots
<1> QED
  BY <1>3, <1>4, <1>5, <1>6, <1>7 DEF IInv

LEMMA NextIInv == IInv /\ [Next]_vars => IInv'
<1> SUFFICES ASSUME IInv, [Next]_vars PROVE IInv'
  OBVIOUS
<1>1. ASSUME NEW backend \in Backends, StartSession(backend) PROVE IInv'
  BY <1>1, IdleStep DEF StartSession, decoderVars
<1>2. CASE Mark
  BY <1>2, QuietStep DEF Mark, decoderVars
<1>3. ASSUME NEW surface \in Surfaces \cup {None}, Decode(surface) PROVE IInv'
  BY <1>3, DecodeStep
<1>4. CASE DropCorrupt
  BY <1>4, QuietStep DEF DropCorrupt
<1>5. CASE Draw
  <2>1. Nothing \in Frame /\ Nothing.samples = None
        /\ Nothing.slice = 0 /\ Nothing.slot = 0
    BY Sizes DEF Nothing, Frame, Source
  <2>2. CASE DrawNothing
    BY <1>5, <2>1, <2>2, StillStep DEF DrawNothing
  <2>3. CASE DrawSame
    <3>1. [samples |-> bound, slice |-> 0, slot |-> 0] \in Frame
      BY Sizes DEF Frame, IInv, Types
    <3>2. /\ front'.generation = rendered
          /\ UNCHANGED <<rendered, retained, mappings, current, slice, slot, bound>>
          /\ inFlight' = Append(inFlight, [samples |-> bound, slice |-> 0, slot |-> 0])
      BY <2>3 DEF DrawSame, Submit
    <3> QED
      BY <1>5, <3>1, <3>2, StillStep
  <2>4. CASE DrawSurface
    BY <1>5, <2>4, SurfaceStep
  <2>5. CASE DrawSlot
    BY <1>5, <2>5, SlotStep
  <2> QED
    BY <1>5, <2>2, <2>3, <2>4, <2>5 DEF Draw, DrawLatest
<1>6. CASE GpuDone
  <2>1. /\ Types /\ Idle /\ Generations /\ Cache /\ Drawn
        /\ SamplesKept /\ SlotsBehind /\ SlicesBehind
    BY DEF IInv
  <2>2. /\ inFlight' \in Seq(Frame) /\ Len(inFlight') <= Framebuffers
        /\ SamplesKept' /\ SlotsBehind' /\ SlicesBehind'
    BY <1>6, <2>1, FramesAfterGpuDone
  <2>3. Types' /\ Generations' /\ Cache' /\ Drawn'
    BY <1>6, <2>1, <2>2 DEF GpuDone, Types, Generations, Cache, Drawn,
         decoderVars, renderVars
  <2>4. Idle'
    BY <1>6, <2>1 DEF GpuDone, Idle, renderVars
  <2> QED
    BY <2>2, <2>3, <2>4 DEF IInv
<1>7. CASE Stop
  BY <1>7, QuietStep DEF Stop, decoderVars
<1>8. CASE FreeRenderer
  BY <1>8, RendererFreed DEF FreeRenderer, decoderVars
<1>9. CASE FreeDecoder
  BY <1>9, IdleStep DEF FreeDecoder
<1>10. CASE RemoveMarker
  BY <1>10, QuietStep DEF RemoveMarker, decoderVars
<1>11. CASE Crash
  BY <1>11, RendererFreed DEF Crash
<1>12. CASE UNCHANGED vars
  BY <1>12, QuietStep DEF vars, decoderVars
<1> QED
  BY <1>1, <1>2, <1>3, <1>4, <1>5, <1>6, <1>7, <1>8, <1>9, <1>10, <1>11, <1>12 DEF Next

LEMMA Invariance == Spec => []IInv
BY InitIInv, NextIInv, PTL DEF Spec

(* The invariant is enough: distances tell slices and slots apart.         *)
LEMMA IntactByDistance == IInv => InFlightIntact
<1> SUFFICES ASSUME IInv PROVE InFlightIntact
  OBVIOUS
<1>1. /\ Types /\ SamplesKept /\ SlotsBehind /\ SlicesBehind
  BY DEF IInv
<1>2. ASSUME NEW i \in 1..Len(inFlight), inFlight[i].samples \in Surfaces
      PROVE  inFlight[i].samples \in Held
  <2>1. PICK k \in 1..Age(i) :
          k <= Len(retained) /\ retained[Len(retained) + 1 - k] = inFlight[i].samples
    BY <1>1, <1>2 DEF SamplesKept
  <2>2. Len(retained) \in Nat /\ DOMAIN retained = 1..Len(retained)
    BY <1>1, LenProperties DEF Types
  <2>3. Age(i) \in Int
    BY <1>1, FrameTypes DEF Age
  <2>4. Len(retained) + 1 - k \in DOMAIN retained
    BY <2>1, <2>2, <2>3
  <2>5. inFlight[i].samples \in Kept
    BY <2>1, <2>4 DEF Kept, ToSet
  <2> QED
    BY <1>2, <2>5, Sizes DEF Held
<1>3. ASSUME NEW i \in 1..Len(inFlight), NEW j \in 1..Len(inFlight), i < j,
             inFlight[j].slice # 0
      PROVE  inFlight[i].slice # inFlight[j].slice
  <2>1. CASE inFlight[i].slice = 0
    BY <1>3, <2>1
  <2>2. CASE inFlight[i].slice # 0
    <3>1. /\ inFlight[i].slice \in 1..Slices /\ inFlight[j].slice \in 1..Slices
          /\ slice \in 1..Slices /\ Slices \in Nat \ {0}
      BY <1>1, <1>3, <2>2, FrameTypes, Sizes DEF Types
    <3>2. Behind(slice, inFlight[i].slice, Slices)
            > Behind(slice, inFlight[j].slice, Slices)
      BY <1>1, <1>3, <2>2 DEF SlicesBehind
    <3> QED
      BY <3>1, <3>2, BehindIsInjective
  <2> QED
    BY <2>1, <2>2
<1>4. ASSUME NEW i \in 1..Len(inFlight), NEW j \in 1..Len(inFlight), i < j,
             inFlight[j].slot # 0
      PROVE  inFlight[j].slot \notin {inFlight[i].slot, inFlight[i].samples}
  <2> SUFFICES ASSUME inFlight[j].slot \in {inFlight[i].slot, inFlight[i].samples}
               PROVE  FALSE
    OBVIOUS
  <2>1. inFlight[j].slot \in 1..Slots
    BY <1>1, <1>4, FrameTypes, Sizes
  <2>2. inFlight[j].slot \in UsesSlots(i)
    BY <2>1 DEF UsesSlots
  <2>3. Behind(slot, inFlight[j].slot, Slots) > Behind(slot, inFlight[j].slot, Slots)
    BY <1>1, <1>4, <2>2 DEF SlotsBehind
  <2>4. Behind(slot, inFlight[j].slot, Slots) \in 1..Slots
    BY <1>1, <2>1, Sizes, RingAdvances DEF Types
  <2> QED
    BY <2>3, <2>4
<1>5. DOMAIN inFlight = 1..Len(inFlight)
  BY <1>1, FrameTypes
<1> QED
  BY <1>2, <1>3, <1>4, <1>5 DEF InFlightIntact

(* What the GPU still reads is left alone: neither a surface a frame in    *)
(* flight samples nor a slice or slot it uses is written to before the GPU *)
(* has finished it, though nothing waits for it (retainSubmittedFrame,     *)
(* bindDescriptors, updateSoftwareFrame).                                  *)
THEOREM GpuUndisturbed == Spec => []InFlightIntact
BY Invariance, IntactByDistance, PTL

(* The screen shows the picture rendered_generation_ stands for, and the   *)
(* mapping cache never grows beyond its target (updateFrameMapping).       *)
THEOREM ScreenCorrect == Spec => []ScreenShowsRendered
<1>1. ASSUME IInv PROVE ScreenShowsRendered
  <2>1. /\ Types /\ Cache /\ Drawn
    BY <1>1 DEF IInv
  <2>2. Len(mappings) <= Target
    BY <2>1 DEF Cache
  <2>3. ASSUME decoder = "nvdec", rendered # 0
        PROVE  /\ current # 0
               /\ mappings[current] = [surface |-> bound, used |-> rendered]
               /\ bound = Last(retained)
    <3>1. /\ current # 0 /\ mappings[current].surface = bound
          /\ mappings[current].used = rendered
          /\ bound = retained[Len(retained)]
      BY <2>1, <2>3 DEF Drawn
    <3>2. mappings[current] \in Mapping
      BY <2>1, <3>1, MappingTypes DEF Types
    <3>3. \A m \in Mapping : m = [surface |-> m.surface, used |-> m.used]
      BY DEF Mapping
    <3> QED
      BY <3>1, <3>2, <3>3 DEF Last
  <2> QED
    BY <2>2, <2>3 DEF ScreenShowsRendered
<1> QED
  BY <1>1, Invariance, PTL
===============================================================================
