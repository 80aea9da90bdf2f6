---------------------------- MODULE VideoSurfaces ----------------------------
(***************************************************************************)
(* Decoded pictures on their way through the GPU (FFmpegVideoDecoder,      *)
(* DKVideoRenderer, and the part of WebRtcSession that owns both).         *)
(*                                                                         *)
(* With NVDEC a picture is a surface the decoder may use again as soon as  *)
(* no AVFrame refers to it, while the GPU samples it some frames after the *)
(* UI thread has drawn it; nobody waits for the GPU.  The renderer keeps   *)
(* the last few surfaces it drew, and a cache of their GPU mappings.       *)
(* Without NVDEC it copies each picture into one of a ring of slots.       *)
(* Its commands are written to a ring of slices of command memory.         *)
(*                                                                         *)
(* A file on the SD card marks an NVDEC stream that runs, so that the      *)
(* program that starts after a crash avoids NVDEC for one stream.          *)
(*                                                                         *)
(* The queue between decoder and screen is module FrameQueue; here it may  *)
(* drop any picture for a newer one.  The decoder thread and the UI thread *)
(* share nothing else.                                                     *)
(***************************************************************************)
EXTENDS Integers, Sequences, SequencesExt, FiniteSets

CONSTANTS
  Surfaces,      \* NVDEC surfaces
  None,          \* no surface
  RingSize,      \* m_frames_size (6)
  QueueLimit,    \* AVFrameQueue::limit (3)
  Framebuffers,  \* frames the UI thread may be ahead of the GPU (3)
  Retained,      \* kGpuFramesInFlight (8)
  Slices,        \* kUpdateCommandSlices (8)
  Slots,         \* kSoftwareFrameSlots (4)
  Target,        \* kMappingTarget (16)
  HardLimit,     \* kMappingHardLimit (32)
  SafeAge,       \* kSafeGenerationAge (8)
  MaxGeneration, \* bound of the model: pictures decoded in a stream
  MaxStreams     \* bound of the model: streams one after the other

ASSUME ConstantsAssumption ==
  /\ None \notin Surfaces
  /\ (Surfaces \cup {None}) \cap (1..Slots) = {}
  /\ {RingSize, QueueLimit, Framebuffers, Slices, Slots, Target, HardLimit}
       \subseteq Nat \ {0}
  /\ {Retained, SafeAge, MaxGeneration, MaxStreams} \subseteq Nat
  /\ Framebuffers <= Retained /\ Framebuffers <= Slices /\ Framebuffers <= Slots
  /\ SafeAge + 1 < Target /\ Target <= HardLimit

Backends == {"Auto", "Software"}

VARIABLES
  phase,     \* of the session: off, made, streaming, and what is torn down next
  streams,   \* how many streams there were
  decoder,   \* nvdec, software or none
  marker,    \* nvdec_active.marker exists
  marked,    \* history: this session could write the marker
  dirty,     \* history: the last stream was a marked NVDEC stream and crashed
  ring,      \* m_frames: the pictures the decoder refers to
  next,      \* m_next_frame
  decoded,   \* nextGeneration: pictures decoded
  queue,     \* pictures waiting to be shown
  front,     \* bufferFrame and its generation
  ready,     \* initialized_
  rendered,  \* rendered_generation_
  retained,  \* submitted_frames_, oldest first
  mappings,  \* frame_mappings_
  current,   \* current_mapping_ (from 1; 0 stands for -1)
  slice,     \* update_cmd_slice_
  slot,      \* software_slot_cursor_
  bound,     \* surface or slot the texture descriptors name
  inFlight   \* frames submitted to the GPU and not finished, oldest first

crashVars   == <<marker, marked, dirty>>
decoderVars == <<ring, next, decoded, queue>>
renderVars  == <<ready, rendered, retained, mappings, current, slice, slot, bound>>
vars == <<phase, streams, decoder, crashVars, decoderVars, front, renderVars, inFlight>>

(* A picture that waits or is shown; the surface is None in memory.        *)
Picture == [surface : Surfaces \cup {None}, generation : 0..MaxGeneration]
NoPicture == [surface |-> None, generation |-> 0]

(* What a frame in flight reads: the surface or slot it samples, and the   *)
(* command slice and slot written for it (0: none).                        *)
Nothing == [samples |-> None, slice |-> 0, slot |-> 0]

TypeOK ==
  /\ phase \in {"off", "made", "streaming", "renderer", "decoder", "marker"}
  /\ streams \in 0..MaxStreams
  /\ decoder \in {"nvdec", "software", "none"}
  /\ {marker, marked, dirty} \subseteq BOOLEAN
  /\ ring \in [0..(RingSize - 1) -> Surfaces \cup {None}]
  /\ next \in 0..(RingSize - 1)
  /\ decoded \in 0..MaxGeneration
  /\ queue \in Seq(Picture) /\ Len(queue) <= QueueLimit + 1
  /\ front \in Picture
  /\ ready \in BOOLEAN
  /\ rendered \in 0..MaxGeneration
  /\ retained \in Seq(Surfaces) /\ Len(retained) <= Retained
  /\ mappings \in Seq([surface : Surfaces, used : 1..MaxGeneration])
  /\ current \in 0..Len(mappings)
  /\ slice \in 1..Slices /\ slot \in 1..Slots
  /\ bound \in Surfaces \cup {None} \cup 1..Slots
  /\ inFlight \in Seq([samples : Surfaces \cup {None} \cup 1..Slots,
                       slice : 0..Slices, slot : 0..Slots])
  /\ Len(inFlight) <= Framebuffers

-----------------------------------------------------------------------------
(* Who still refers to a surface: the decoder may fill any other.          *)
Waiting  == {queue[i].surface : i \in DOMAIN queue} \cup {front.surface}
InRing   == {ring[i] : i \in DOMAIN ring}
Kept     == ToSet(retained)
Held     == (InRing \cup Waiting \cup Kept) \ {None}
Free     == Surfaces \ Held

(* FFmpegVideoDecoder::cleanup and AVFrameHolder::cleanup: no picture is   *)
(* referred to any more.                                                   *)
Cleanup ==
  /\ ring' = [i \in 0..(RingSize - 1) |-> None]
  /\ next' = 0 /\ decoded' = 0
  /\ queue' = <<>> /\ front' = NoPicture

NoRenderer ==
  /\ ready' = FALSE /\ rendered' = 0
  /\ retained' = <<>> /\ mappings' = <<>> /\ current' = 0
  /\ slice' = 1 /\ slot' = 1 /\ bound' = None

(* ConsumeNvdecCrashMarker, asked only when the backend is Auto.           *)
Consumed(backend) == backend = "Auto" /\ marker

(* FFmpegVideoDecoder::setup: NVDEC, or the software decoder when it is    *)
(* forced or NVDEC cannot be set up; that may fail as well, and the stream *)
(* then runs without a decoder.                                            *)
SetUp(force) ==
  \/ ~force /\ decoder' = "nvdec"
  \/ decoder' \in {"software", "none"}

(* AVFrameHolder::prepare, called by setup: software pictures come in      *)
(* bursts and get a place more.                                            *)
Limit == IF decoder = "nvdec" THEN QueueLimit ELSE QueueLimit + 1

(* The file is removed, or that fails, which nobody looks at.              *)
RemoveFile == marker' \in {FALSE, marker}

(* The constructor of WebRtcSession, up to its last statement.             *)
StartSession(backend) ==
  /\ phase = "off" /\ streams < MaxStreams
  /\ phase' = "made"
  /\ streams' = streams + 1
  /\ IF Consumed(backend) THEN RemoveFile ELSE UNCHANGED marker
  /\ marked' = FALSE
  /\ SetUp(backend = "Software" \/ Consumed(backend))
  /\ UNCHANGED <<dirty, decoderVars, front, renderVars, inFlight>>

(* CreateNvdecCrashMarker: whether it could write the file is ignored; one *)
(* it opened but could not write is there all the same.                    *)
Mark ==
  /\ phase = "made"
  /\ phase' = "streaming"
  /\ IF decoder = "nvdec"
     THEN marked' \in BOOLEAN /\ marker' \in {marker \/ marked', TRUE}
     ELSE UNCHANGED <<marker, marked>>
  /\ dirty' = FALSE
  /\ UNCHANGED <<streams, decoder, decoderVars, front, renderVars, inFlight>>

-----------------------------------------------------------------------------
(* The decoder thread.                                                     *)

(* get_frame puts a picture into the next place of the ring, and asks once *)
(* more, which empties the place after it.                                 *)
Receive(surface) ==
  LET after == (next + 1) % RingSize
  IN  /\ next' = after
      /\ ring' = [ring EXCEPT ![next] = surface, ![after] = None]

Pushed(picture) ==
  LET all == Append(queue, picture)
  IN  IF Len(all) > Limit THEN Tail(all) ELSE all

(* submit_decode_unit, for one picture that comes out.                     *)
Decode(surface) ==
  /\ phase = "streaming" /\ decoder # "none" /\ decoded < MaxGeneration
  /\ IF decoder = "nvdec" THEN surface \in Free ELSE surface = None
  /\ Receive(surface)
  /\ decoded' = decoded + 1
  /\ queue' = Pushed([surface |-> surface, generation |-> decoded + 1])
  /\ UNCHANGED <<phase, streams, decoder, crashVars, front, renderVars, inFlight>>

(* A corrupt picture is let go of at once, its place in the ring is used.  *)
DropCorrupt ==
  /\ phase = "streaming" /\ decoder # "none"
  /\ Receive(None)
  /\ UNCHANGED <<phase, streams, decoder, crashVars, decoded, queue, front,
                 renderVars, inFlight>>

-----------------------------------------------------------------------------
(* The UI thread: updateFrameMapping.                                      *)

(* Mappings that may be erased for a picture of the given generation.      *)
Stale(generation) ==
  {i \in DOMAIN mappings \ {current} :
     generation > mappings[i].used /\ generation - mappings[i].used > SafeAge}

(* The loop erases the first of them until the cache is below its target:  *)
(* erasing one changes neither the age nor the order of the others.        *)
Erased(generation) ==
  {i \in Stale(generation) :
     Cardinality({j \in Stale(generation) : j < i}) <= Len(mappings) - Target}

(* The mappings without those of E.                                        *)
Without(E) ==
  LET kept == DOMAIN mappings \ E
  IN  [k \in 1..(Len(mappings) - Cardinality(E)) |->
         mappings[CHOOSE i \in kept : Cardinality({j \in kept : j <= i}) = k]]

(* Mutant: erasing mappings before the current one leaves its index. *)
MutantShifted(E) == current

(* Where the current mapping is without those of E.                        *)
Shifted(E) == current - Cardinality({i \in E : i < current})

(* The mapping of a picture and the state of the cache with it; index 0    *)
(* when the cache is full.                                                 *)
Mapped(picture) ==
  LET hits == {i \in DOMAIN mappings : mappings[i].surface = picture.surface}
      gone == Erased(picture.generation)
      rest == Without(gone)
      new  == [surface |-> picture.surface, used |-> picture.generation]
  IN  IF hits # {}
      THEN LET i == CHOOSE i \in hits : \A j \in hits : i <= j
           IN  [maps |-> [mappings EXCEPT ![i] = new], cur |-> current, index |-> i]
      ELSE IF Len(rest) >= HardLimit
      THEN [maps |-> rest, cur |-> Shifted(gone), index |-> 0]
      ELSE [maps  |-> Append(rest, new), cur |-> Shifted(gone),
            index |-> Len(rest) + 1]

(* bindDescriptors writes its commands to the next slice.                  *)
NextSlice == IF slice = Slices THEN 1 ELSE slice + 1

(* Mutant: the picture of before is let go of when the next is drawn. *)
MutantRetain(surface) == retained' = <<surface>>

(* retainSubmittedFrame; that av_frame_clone runs out of memory, and the   *)
(* picture is drawn and not retained, is left out.                         *)
Retain(surface) ==
  LET all == Append(retained, surface)
  IN  retained' = IF Len(all) > Retained THEN Tail(all) ELSE all

(* Every drawn frame samples what the descriptors name by then.            *)
Submit(frameSlice, frameSlot) ==
  inFlight' = Append(inFlight, [samples |-> bound', slice |-> frameSlice,
                                slot |-> frameSlot])

(* The picture has been drawn before, or its update failed: in the second  *)
(* case the frame shows no picture.                                        *)
DrawSame ==
  /\ front'.generation = rendered
  /\ UNCHANGED <<rendered, retained, mappings, current, slice, slot, bound>>
  /\ Submit(0, 0)

DrawSurface ==
  LET map == Mapped(front')
  IN  /\ decoder = "nvdec" /\ front'.generation # rendered
      /\ mappings' = map.maps
      /\ UNCHANGED slot
      /\ IF map.index = 0
         THEN /\ current' = map.cur
              /\ inFlight' = Append(inFlight, Nothing)
              /\ UNCHANGED <<rendered, retained, slice, bound>>
         ELSE /\ current' = map.index
              /\ rendered' = front'.generation
              /\ Retain(front'.surface)
              /\ IF map.index = map.cur
                 THEN UNCHANGED <<slice, bound>> /\ Submit(0, 0)
                 ELSE /\ bound' = front'.surface
                      /\ slice' = NextSlice
                      /\ Submit(slice, 0)

(* updateSoftwareFrame: the slot is used up whether the copy works or not. *)
DrawSlot ==
  /\ decoder = "software" /\ front'.generation # rendered
  /\ slot' = IF slot = Slots THEN 1 ELSE slot + 1
  /\ UNCHANGED <<retained, mappings, current>>
  /\ \/ /\ bound' = slot
        /\ slice' = NextSlice
        /\ rendered' = front'.generation
        /\ Submit(slice, slot)
     \/ /\ UNCHANGED <<bound, slice, rendered>>
        /\ inFlight' = Append(inFlight, [Nothing EXCEPT !.slot = slot])

(* checkAndInitialize: the software slots may not fit into GPU memory, and *)
(* it is tried again with the next frame.                                  *)
Initialize == ready' = TRUE \/ (decoder = "software" /\ UNCHANGED ready)

DrawNothing ==
  /\ inFlight' = Append(inFlight, Nothing)
  /\ UNCHANGED <<rendered, retained, mappings, current, slice, slot, bound>>

(* drawLatest                                                              *)
DrawLatest ==
  /\ Initialize
  /\ IF ready' THEN DrawSame \/ DrawSurface \/ DrawSlot ELSE DrawNothing

(* AVFrameHolder::get: the picture shown already, or a later one.          *)
Take ==
  \/ UNCHANGED <<queue, front>>
  \/ \E i \in DOMAIN queue : /\ front' = queue[i]
                             /\ queue' = SubSeq(queue, i + 1, Len(queue))

(* A frame of the UI thread, as far as it may run ahead of the GPU.        *)
Draw ==
  /\ phase = "streaming" /\ Len(inFlight) < Framebuffers
  /\ Take
  /\ IF front' = NoPicture THEN UNCHANGED ready /\ DrawNothing ELSE DrawLatest
  /\ UNCHANGED <<phase, streams, decoder, crashVars, ring, next, decoded>>

(* The GPU finishes the oldest frame.                                      *)
GpuDone ==
  /\ inFlight # <<>>
  /\ inFlight' = Tail(inFlight)
  /\ UNCHANGED <<phase, streams, decoder, crashVars, decoderVars, front, renderVars>>

-----------------------------------------------------------------------------
(* Mutant: the marker is removed as soon as the threads have ended. *)
MutantStop ==
  /\ phase = "streaming"
  /\ phase' = "renderer"
  /\ marker' = FALSE
  /\ UNCHANGED <<streams, decoder, marked, dirty, decoderVars, front, renderVars, inFlight>>

(* WebRtcSession::stop, once its threads have been joined.                 *)
Stop ==
  /\ phase = "streaming"
  /\ phase' = "renderer"
  /\ UNCHANGED <<streams, decoder, crashVars, decoderVars, front, renderVars, inFlight>>

(* ~DKVideoRenderer waits for the GPU before it frees anything.            *)
FreeRenderer ==
  /\ phase = "renderer"
  /\ phase' = "decoder"
  /\ inFlight' = <<>>
  /\ NoRenderer
  /\ UNCHANGED <<streams, decoder, crashVars, decoderVars, front>>

FreeDecoder ==
  /\ phase = "decoder"
  /\ phase' = "marker"
  /\ Cleanup
  /\ UNCHANGED <<streams, decoder, crashVars, renderVars, inFlight>>

RemoveMarker ==
  /\ phase = "marker"
  /\ phase' = "off"
  /\ RemoveFile
  /\ UNCHANGED <<streams, decoder, marked, dirty, decoderVars, front, renderVars, inFlight>>

(* The program dies, the console is reset: what is left is the SD card.    *)
Crash ==
  /\ phase # "off"
  /\ phase' = "off"
  /\ dirty' = (phase # "made" /\ decoder = "nvdec" /\ marked)
  /\ inFlight' = <<>>
  /\ Cleanup /\ NoRenderer
  /\ UNCHANGED <<streams, decoder, marker, marked>>

-----------------------------------------------------------------------------
Init ==
  /\ phase = "off" /\ streams = 0 /\ decoder = "none"
  /\ marker = FALSE /\ marked = FALSE /\ dirty = FALSE
  /\ ring = [i \in 0..(RingSize - 1) |-> None]
  /\ next = 0 /\ decoded = 0 /\ queue = <<>> /\ front = NoPicture
  /\ ready = FALSE /\ rendered = 0 /\ retained = <<>> /\ mappings = <<>>
  /\ current = 0 /\ slice = 1 /\ slot = 1 /\ bound = None
  /\ inFlight = <<>>

Next ==
  \/ \E backend \in Backends : StartSession(backend)
  \/ Mark
  \/ \E surface \in Surfaces \cup {None} : Decode(surface)
  \/ DropCorrupt
  \/ Draw
  \/ GpuDone
  \/ Stop \/ FreeRenderer \/ FreeDecoder \/ RemoveMarker
  \/ Crash

Spec == Init /\ [][Next]_vars

-----------------------------------------------------------------------------
(* What the GPU still reads is left alone: a surface that a frame in       *)
(* flight samples is one the decoder may not fill yet, and no later frame  *)
(* is written to the command slice an earlier one in flight uses, nor to   *)
(* the slot it was written to or samples.  Nothing waits for the GPU: it   *)
(* holds by the sizes of the rings alone (retainSubmittedFrame,            *)
(* bindDescriptors, updateSoftwareFrame).                                  *)
InFlightIntact ==
  \A i \in DOMAIN inFlight :
    /\ inFlight[i].samples \in Surfaces => inFlight[i].samples \in Held
    /\ \A j \in DOMAIN inFlight :
         i < j => /\ inFlight[j].slice # 0 => inFlight[i].slice # inFlight[j].slice
                  /\ inFlight[j].slot # 0 =>
                       inFlight[j].slot \notin {inFlight[i].slot, inFlight[i].samples}

(* The screen shows the picture rendered_generation_ stands for, however   *)
(* often mappings were erased in front of the current one, and there was   *)
(* room in the cache for it: the hard limit is never what decides          *)
(* (updateFrameMapping).                                                   *)
ScreenShowsRendered ==
  /\ Len(mappings) <= Target
  /\ decoder = "nvdec" /\ rendered # 0 =>
       /\ current # 0 /\ mappings[current] = [surface |-> bound, used |-> rendered]
       /\ bound = Last(retained)

(* After an NVDEC stream that crashed while it ran or was torn down, the   *)
(* next stream does not use NVDEC when the backend is Auto                 *)
(* (ConsumeNvdecCrashMarker, WebRtcSession::stop).                         *)
FallbackAfterCrash ==
  [][phase = "off" /\ phase' = "made" /\ dirty => decoder' # "nvdec"]_vars

(* Not promised: a mapping outlives the frames in flight that sample its   *)
(* surface.  An age is counted in pictures decoded, not drawn.             *)
MappingOutlivesFrame ==
  \A i \in DOMAIN inFlight :
    inFlight[i].samples \in Surfaces =>
      \E j \in DOMAIN mappings : mappings[j].surface = inFlight[i].samples
=============================================================================
