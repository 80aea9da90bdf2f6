------------------------------ MODULE FrameQueue ------------------------------
(***************************************************************************)
(* The decoded pictures between the decoder thread and the screen          *)
(* (AVFrameQueue, VideoFrameTiming, WebRtcSession::draw).  The decoder     *)
(* pushes pictures with the RTP timestamp of their access unit; every      *)
(* frame of the UI reads a target from the audio clock and pops: it shows  *)
(* the next picture, drops pictures that a later one that is due as well   *)
(* supersedes, or holds the picture it has.  Both work under the queue's   *)
(* mutex; the target is read before the pop takes it.                      *)
(*                                                                         *)
(* The code knows timestamps only modulo 2^32.  The model keeps the time   *)
(* a timestamp stands for beside it, in now and in a picture's field at,   *)
(* for the properties; no decision of the code reads it.                   *)
(***************************************************************************)
EXTENDS Integers, Sequences

CONSTANTS
  Modulus,     \* number of timestamps (2^32)
  MaxEarly,    \* FrameTimingPolicy::maximum_early_ticks
  Limits,      \* queue limits prepare may set (3 and 4)
  MaxLead,     \* how far the stream and the audio clock drift apart
  FrameTime,   \* how far the audio clock advances from one frame to the next
  Start,       \* bound of the model: time of the first frame
  MaxTime,     \* bound of the model: time at which the clock stops
  MaxPictures, \* bound of the model: pictures decoded in a stream
  MaxStreams   \* bound of the model: streams one after the other

ASSUME ConstantsAssumption ==
  /\ Modulus \in Nat \ {0}
  /\ MaxEarly \in Nat
  /\ Limits \subseteq Nat \ {0, 1}
  /\ MaxLead \in Nat /\ 2 * (MaxLead + MaxEarly) < Modulus
  /\ FrameTime \in Nat
  /\ \A l \in Limits \cup {3} : 2 * (MaxLead + FrameTime * l) <= Modulus
  /\ Start \in Nat /\ MaxTime \in Nat
  /\ MaxPictures \in Nat /\ MaxStreams \in Nat

VARIABLES
  streaming,     \* a decoder is set up
  streams,       \* how many streams there were
  limit,         \* AVFrameQueue::limit
  queue,         \* pictures waiting, oldest first
  generations,   \* their generations
  nextGen,       \* nextGeneration
  buffer,        \* bufferFrame
  bufferGen,     \* bufferGeneration
  overflowDrops, \* overflowDroppedStat
  timingDrops,   \* timingDroppedStat
  rendered,      \* the renderer's rendered_generation_
  screen,        \* the picture on the screen
  presented,     \* presented_frames_
  lastGen,       \* last_presented_generation_
  upc,           \* UI thread: between frames, or with a target to pop for
  target,        \* the target it read: a time, or NoTime
  now,           \* the audio clock
  lastAt         \* the time of the last picture decoded

queueVars  == <<limit, queue, generations, nextGen, buffer, bufferGen,
                overflowDrops, timingDrops>>
renderVars == <<rendered, screen, presented, lastGen>>
streamVars == <<streaming, streams>>
vars == <<streamVars, queueVars, renderVars, upc, target, now, lastAt>>

NoTime  == -1        \* AV_NOPTS_VALUE
Picture == [id : Nat, at : Nat, pts : Nat \cup {NoTime}]
None    == [id |-> 0, at |-> 0, pts |-> NoTime]

-----------------------------------------------------------------------------
(* Mutant: timestamps are compared as they are. *)
MutantRtpDelta(timestamp, when) == timestamp - when

(* static_cast<int32_t>(timestamp - target)                                *)
RtpDelta(timestamp, when) ==
  LET d == (timestamp - when) % Modulus
  IN  IF 2 * d < Modulus THEN d ELSE d - Modulus

Due(picture) == RtpDelta(picture.pts, target % Modulus) <= MaxEarly

Timed(picture) == target # NoTime /\ picture.pts # NoTime

(* Mutant: a picture without a timestamp is held back as well. *)
MutantHoldPrevious(picture) ==
  buffer # None /\ (picture.pts = NoTime \/ (Timed(picture) /\ ~Due(picture)))

(* DecideFrame, asked about the front of the queue.                        *)
HoldPrevious(picture) == Timed(picture) /\ buffer # None /\ ~Due(picture)

(* Mutant: a picture is superseded as soon as there is a next one. *)
MutantSuperseded(i) == i < Len(queue) /\ Timed(queue[i])

Superseded(i) ==
  /\ i < Len(queue)
  /\ Timed(queue[i])
  /\ ~HoldPrevious(queue[i])
  /\ Timed(queue[i + 1])
  /\ Due(queue[i + 1])

(* The loop of pop drops the first n pictures and stops at the next.       *)
Drops(n) ==
  /\ n < Len(queue)
  /\ \A i \in 1..n : Superseded(i)
  /\ ~Superseded(n + 1)

(* Mutant: a frame counts one drop however many pictures it drops. *)
MutantCountDrops(n) == timingDrops' = IF n > 0 THEN timingDrops + 1 ELSE timingDrops

CountDrops(n) == timingDrops' = timingDrops + n

TakeFront(n) ==
  /\ queue' = SubSeq(queue, n + 1, Len(queue))
  /\ generations' = SubSeq(generations, n + 1, Len(generations))

(* drawLatest uploads a picture it does not have yet; that may fail.       *)
Upload(picture, generation) ==
  \/ /\ generation # rendered
     /\ rendered' = generation
     /\ screen' = picture
  \/ UNCHANGED <<rendered, screen>>

(* WebRtcSession::draw, the callback of get.                               *)
Draw(picture, generation) ==
  IF picture = None
  THEN UNCHANGED renderVars
  ELSE /\ Upload(picture, generation)
       /\ lastGen' = generation
       /\ presented' = IF generation \notin {0, lastGen} THEN presented + 1 ELSE presented

-----------------------------------------------------------------------------
(* Mutant: the queue is emptied by one picture too late. *)
MutantOverLimit(q) == Len(q) > limit + 1

OverLimit(q) == Len(q) > limit

(* Mutant: the generation stays when its picture is dropped. *)
MutantDropOldest(pictures, gens) ==
  /\ queue' = Tail(pictures)
  /\ generations' = gens
  /\ overflowDrops' = overflowDrops + 1

DropOldest(pictures, gens) ==
  /\ queue' = Tail(pictures)
  /\ generations' = Tail(gens)
  /\ overflowDrops' = overflowDrops + 1

(* Decoder thread: AVFrameQueue::push.                                     *)
Push(at, hasPts) ==
  /\ streaming
  /\ nextGen < MaxPictures
  /\ at > lastAt
  /\ at - now \in -MaxLead..MaxLead
  /\ lastAt' = at
  /\ nextGen' = nextGen + 1
  /\ LET picture  == [id |-> nextGen + 1, at |-> at,
                      pts |-> IF hasPts THEN at % Modulus ELSE NoTime]
         pictures == Append(queue, picture)
         gens     == Append(generations, nextGen + 1)
     IN  IF OverLimit(pictures)
         THEN DropOldest(pictures, gens)
         ELSE queue' = pictures /\ generations' = gens /\ UNCHANGED overflowDrops
  /\ UNCHANGED <<streamVars, limit, buffer, bufferGen, timingDrops, renderVars,
                 upc, target, now>>

(* UI: a frame begins and reads its target; there is none without sender   *)
(* reports and running audio.                                              *)
BeginFrame ==
  /\ upc = "idle"
  /\ streaming
  /\ upc' = "pop"
  /\ now' \in {t \in now..(now + FrameTime) : t <= MaxTime /\ t - lastAt <= MaxLead}
  /\ target' \in {NoTime, now'}
  /\ UNCHANGED <<streamVars, queueVars, renderVars, lastAt>>

PopDone == upc' = "idle" /\ UNCHANGED <<streamVars, limit, nextGen, overflowDrops,
                                        target, now, lastAt>>

PopReuse ==
  /\ upc = "pop"
  /\ queue = <<>>
  /\ Draw(buffer, bufferGen)
  /\ UNCHANGED <<queue, generations, timingDrops, buffer, bufferGen>>
  /\ PopDone

PopHold(n) ==
  /\ upc = "pop"
  /\ Drops(n)
  /\ HoldPrevious(queue[n + 1])
  /\ TakeFront(n)
  /\ CountDrops(n)
  /\ Draw(buffer, bufferGen)
  /\ UNCHANGED <<buffer, bufferGen>>
  /\ PopDone

PopPresent(n) ==
  /\ upc = "pop"
  /\ Drops(n)
  /\ ~HoldPrevious(queue[n + 1])
  /\ TakeFront(n + 1)
  /\ CountDrops(n)
  /\ buffer' = queue[n + 1]
  /\ bufferGen' = generations[n + 1]
  /\ Draw(buffer', bufferGen')
  /\ PopDone

(* Mutant: the picture that is shown survives its stream. *)
MutantCleared == nextGen' = 0 /\ UNCHANGED <<buffer, bufferGen>>

Cleared == nextGen' = 0 /\ buffer' = None /\ bufferGen' = 0

(* The frame in which the user stops the stream still comes to its pop;    *)
(* the decoder is joined and cleaned up by then (AVFrameQueue::cleanup).   *)
StopStream ==
  /\ upc = "idle"
  /\ streaming
  /\ streaming' = FALSE
  /\ queue' = <<>>
  /\ generations' = <<>>
  /\ Cleared
  /\ overflowDrops' = 0
  /\ timingDrops' = 0
  /\ upc' = "pop"
  /\ target' = NoTime
  /\ UNCHANGED <<streams, limit, renderVars, now, lastAt>>

(* The next stream has a session and a renderer of its own.                *)
StartStream ==
  /\ upc = "idle"
  /\ ~streaming
  /\ streams < MaxStreams
  /\ streaming' = TRUE
  /\ streams' = streams + 1
  /\ limit' \in Limits
  /\ rendered' = 0
  /\ screen' = None
  /\ presented' = 0
  /\ lastGen' = 0
  /\ UNCHANGED <<queue, generations, nextGen, buffer, bufferGen, overflowDrops,
                 timingDrops, upc, target, now, lastAt>>

Ended == ~streaming /\ streams = MaxStreams /\ upc = "idle" /\ UNCHANGED vars

-----------------------------------------------------------------------------
Init ==
  /\ streaming = FALSE /\ streams = 0
  /\ limit = 3
  /\ queue = <<>> /\ generations = <<>> /\ nextGen = 0
  /\ buffer = None /\ bufferGen = 0
  /\ overflowDrops = 0 /\ timingDrops = 0
  /\ rendered = 0 /\ screen = None /\ presented = 0 /\ lastGen = 0
  /\ upc = "idle" /\ target = NoTime
  /\ now = Start /\ lastAt = Start

PopPicture == \E n \in 0..(Len(queue) - 1) : PopHold(n) \/ PopPresent(n)

Pop == PopReuse \/ PopPicture

Next ==
  \/ \E at \in Start..MaxTime, hasPts \in BOOLEAN : Push(at, hasPts)
  \/ BeginFrame
  \/ PopReuse
  \/ \E n \in 0..(Len(queue) - 1) : PopHold(n)
  \/ \E n \in 0..(Len(queue) - 1) : PopPresent(n)
  \/ StopStream \/ StartStream \/ Ended

Spec == Init /\ [][Next]_vars

(* Frames are drawn, and while they are the audio clock advances.          *)
FairSpec ==
  /\ Spec
  /\ WF_vars(BeginFrame)
  /\ WF_vars(Pop)
  /\ SF_vars(BeginFrame /\ target' = now' /\ now' # now)
-----------------------------------------------------------------------------
(* Properties                                                              *)

(* The variables keep their types and the queue its limit.                 *)
TypeOK ==
  /\ streaming \in BOOLEAN
  /\ streams \in 0..MaxStreams
  /\ limit \in Limits \cup {3}
  /\ queue \in Seq(Picture) /\ Len(queue) <= limit
  /\ generations \in Seq(Nat)
  /\ nextGen \in 0..MaxPictures
  /\ {buffer, screen} \subseteq Picture
  /\ {bufferGen, overflowDrops, timingDrops, rendered, presented, lastGen} \subseteq Nat
  /\ upc \in {"idle", "pop"}
  /\ target \in Nat \cup {NoTime}
  /\ now \in Nat /\ lastAt \in Nat

(* The two deques stay in step, and so do the frame and the generation     *)
(* that pop hands out: by the generation the renderer decides whether it   *)
(* has the picture already.                                                *)
GenerationsMatch ==
  /\ Len(queue) = Len(generations)
  /\ \A i \in 1..Len(queue) : queue[i].id = generations[i]
  /\ buffer.id = bufferGen
  /\ streaming => screen.id = rendered

(* Pictures are shown in the order they were decoded, none after a later   *)
(* one, whatever is dropped, held or not uploaded in between.              *)
PicturesInOrder ==
  /\ \A i, j \in 1..Len(generations) : i < j => generations[i] < generations[j]
  /\ \A i \in 1..Len(generations) : generations[i] \in (bufferGen + 1)..nextGen
  /\ streaming => rendered <= bufferGen /\ lastGen = bufferGen

(* Every picture decoded is waiting, shown, or in one of the drop counts   *)
(* of the statistics overlay, exactly once.                                *)
PicturesAccounted ==
  streaming => nextGen = overflowDrops + timingDrops + Len(queue) + presented

(* A picture is given up as late only in favour of one that is shown in    *)
(* its place at once.                                                      *)
DropsForANewer ==
  [][timingDrops' > timingDrops => bufferGen' > bufferGen + timingDrops' - timingDrops]_vars

(* In real time, whatever the wraparound of the timestamps: a picture is   *)
(* held back only if it is too early, and no picture that is due waits     *)
(* behind the one that was shown.                                          *)
WrapNeverMisleads ==
  [][upc = "pop" /\ upc' = "idle" /\ target # NoTime /\ queue' # <<>>
       /\ Head(queue).pts # NoTime /\ Head(queue').pts # NoTime
     => Head(queue').at > target + MaxEarly]_vars

(* The queue does not keep a picture for ever while the clock runs.        *)
QueueDrains == queue # <<>> ~> queue = <<>>
=============================================================================
