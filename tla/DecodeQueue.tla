------------------------------ MODULE DecodeQueue ------------------------------
(***************************************************************************)
(* The decode queue of a stream (app/src/webrtc/media.cpp) and its three   *)
(* threads:                                                                *)
(*                                                                         *)
(*   network   delivers H.264 access units (on_video_packet) and, under    *)
(*             the queue mutex, queues, drops or overflows them;           *)
(*   decoder   waits on a condition variable, pops one unit, decodes it    *)
(*             with the mutex released, then updates the recovery flags;   *)
(*   UI        polls once per frame (keyframe requests, recovery from a    *)
(*             stalled decoder) and finally stops the session.             *)
(*                                                                         *)
(* An access unit is its arrival number and whether it holds an IDR slice; *)
(* a delta unit needs the unit that arrived just before it.  Time is the   *)
(* set of timers that have run out.  Two mutexes are left implicit in the  *)
(* program counters: the decoder owns the queue mutex exactly while it is  *)
(* "blocking" (predicate evaluated, not yet asleep); the peer mutex is the *)
(* UI's from the start of a poll to its end and the network thread's while *)
(* it is queueing a unit.                                                  *)
(***************************************************************************)
EXTENDS Integers, Sequences

CONSTANTS
  Fps,          \* settings_.fps, from which the queue limit is computed
  Hardware,     \* decoder_->uses_hardware_frames()
  StartupLimit, \* keyframe requests after which startup retries end (5)
  StallLimit,   \* keyframe requests after which stall recovery ends (12)
  PoolLimit,    \* kPoolLimit (8)
  MaxUnits      \* bound of the model: access units that arrive

(***************************************************************************)
(* DecodeQueuePolicy.hpp: about 67 ms of pictures, between 2 and 4.        *)
(***************************************************************************)
MaximumQueuedAccessUnits(fps) ==
  LET safe_fps == IF fps < 1 THEN 1 ELSE fps
      units    == (safe_fps + 14) \div 15
  IN  IF units < 2 THEN 2 ELSE IF units > 4 THEN 4 ELSE units

MaxQueued == MaximumQueuedAccessUnits(Fps)

ASSUME ConstantsAssumption ==
  /\ Fps \in Int
  /\ Hardware \in BOOLEAN
  /\ StartupLimit \in Nat /\ StallLimit \in Nat
  /\ StartupLimit <= StallLimit /\ 1 <= StallLimit
  /\ MaxUnits \in Nat
  /\ PoolLimit \in Nat /\ MaxQueued < PoolLimit

VARIABLES
  queue,      \* decoder_queue_
  pool,       \* decoder_buffer_pool_.size()
  resync,     \* decoder_resync_required_
  reset,      \* decoder_reset_requested_
  keyNeeded,  \* keyframe_needed_
  running,    \* decoder_running_ (and network_running_: stored together)
  packets,    \* packets_received_, the number of the newest access unit
  drops,      \* decoder_queue_drops_
  framesSeen, \* frames_decoded_ > 0
  dpc,        \* decoder thread: where it is
  unit,       \* decoder thread: the unit it popped
  decoded,    \* decoder thread: what submit_decode_unit returned
  npc,        \* network thread: where it is
  arriving,   \* network thread: whether the unit being queued is an IDR
  upc,        \* UI thread
  stopReq,    \* stop_requested_
  completed,  \* the peer connection reached PEER_CONNECTION_COMPLETED
  initialReq, \* initial_keyframe_requested_
  attempts,   \* keyframe_request_attempts_
  due,        \* timers that have run out
  fed,        \* history: number of the newest unit popped by the decoder
  taken,      \* history: how many units the decoder popped
  staleClear  \* history: resync was cleared while a gap was open

queueVars == <<queue, pool, packets, drops>>
flagVars  == <<resync, reset, keyNeeded>>
decVars   == <<dpc, unit, decoded, framesSeen, fed, taken>>
stopVars  == <<running, stopReq, npc, arriving>>
pliVars   == <<completed, initialReq, attempts>>
vars == <<queueVars, flagVars, decVars, stopVars, pliVars, upc, due, staleClear>>

Unit == [seq : 1..MaxUnits, idr : BOOLEAN]

(***************************************************************************)
(* "pli": 1500 ms since the last PLI; "stall": 2 s since the last stall    *)
(* recovery; "frame": 1500 ms since the last decoded frame; "startup": 3 s *)
(* since the last startup request.                                         *)
(***************************************************************************)
Timers == {"pli", "stall", "frame", "startup"}

DecoderBusy == dpc \in {"submit", "finish"}

(* std::mutex decoder_queue_mutex_ and std::recursive_mutex peer_mutex_.   *)
QueueMutexFree == dpc # "blocking"
PeerMutexFree  == upc \notin {"stall", "clear", "flag"}

(* The newest access unit the client still has or has decoded, and whether *)
(* something that arrived after it is gone.                                *)
NewestKept   == IF queue = <<>> THEN fed ELSE queue[Len(queue)].seq
NewestQueued == IF npc = "enqueue" THEN packets - 1 ELSE packets
GapOpen      == NewestKept # NewestQueued

-----------------------------------------------------------------------------
(* The buffer pool, the condition variable and the flags                    *)

(* recycle_decode_buffer_locked, n times: a buffer goes back to the pool   *)
(* unless the pool is full or its capacity is beyond 2 MB (not modelled:   *)
(* any of the n may have grown that far).                                  *)
RecycledPools(n) ==
  {p \in pool..(pool + n) : p <= PoolLimit}

(* A new unit takes a pooled buffer if there is one, else it allocates.    *)
PoolAfterReuse(p) == IF p > 0 THEN p - 1 ELSE 0

(* Mutant: off by one.                                                     *)
MutantQueueFull == Len(queue) > MaxQueued

(* decoder_queue_.size() >= maximum_queued, and push_back.                 *)
QueueFull == Len(queue) >= MaxQueued

(* Mutant: queued at the wrong end.                                        *)
MutantQueued(u) == <<u>> \o queue

Queued(u) == Append(queue, u)

(* Mutant: the notification is forgotten.                                  *)
MutantWakeDecoder == dpc' = dpc

(* decoder_queue_cv_.notify_one() and notify_all(): only a sleeping        *)
(* decoder is woken.                                                       *)
WakeDecoder == dpc' = IF dpc = "asleep" THEN "check" ELSE dpc

(* if (!decoder_->uses_hardware_frames()) decoder_reset_requested_ = true  *)
RequestReset == reset' = IF Hardware THEN reset ELSE TRUE

(***************************************************************************)
(* request_keyframe: a PLI, or nothing but keyframe_needed_ within 1500 ms *)
(* of the previous one.  resyncNow is the flag as the call reads it.       *)
(***************************************************************************)
RequestKeyframe(resyncNow, timers) ==
  \/ /\ "pli" \in due
     /\ due' = (due \ timers) \ {"pli"}
     /\ attempts' = attempts + 1
     /\ UNCHANGED keyNeeded
  \/ /\ "pli" \notin due
     /\ due' = due \ timers
     /\ keyNeeded' = IF resyncNow THEN TRUE ELSE keyNeeded
     /\ UNCHANGED attempts

-----------------------------------------------------------------------------
(* Network thread: on_video_packet, then enqueue_decode_unit                *)

(* A unit arrives with the peer mutex held; decoder_running_ is read before *)
(* the queue mutex is taken, so the session may begin to stop in between.  *)
Deliver(idr) ==
  /\ npc = "run"
  /\ PeerMutexFree
  /\ completed
  /\ packets < MaxUnits
  /\ packets' = packets + 1
  /\ npc' = IF running THEN "enqueue" ELSE "run"
  /\ arriving' = IF running THEN idr ELSE arriving
  /\ UNCHANGED <<queue, pool, drops, flagVars, decVars, running, stopReq,
                 pliVars, upc, due, staleClear>>

Enqueueing ==
  /\ npc = "enqueue"
  /\ QueueMutexFree
  /\ npc' = "run"

(* Mutant: the drop is not counted.                                        *)
MutantEnqueueSkip ==
  /\ Enqueueing
  /\ resync
  /\ ~arriving
  /\ UNCHANGED <<queueVars, flagVars, decVars, running, stopReq, arriving,
                 pliVars, upc, due, staleClear>>

(* Waiting for a keyframe: a delta unit is dropped.                        *)
EnqueueSkip ==
  /\ Enqueueing
  /\ resync
  /\ ~arriving
  /\ drops' = drops + 1
  /\ UNCHANGED <<queue, pool, packets, flagVars, decVars, running, stopReq,
                 arriving, pliVars, upc, due, staleClear>>

(* The queue is full: everything in it goes, the stream must resync, and   *)
(* only an IDR unit is queued afterwards.                                  *)
EnqueueOverflow ==
  /\ Enqueueing
  /\ ~resync \/ arriving
  /\ QueueFull
  /\ resync' = TRUE
  /\ staleClear' = FALSE
  /\ RequestReset
  /\ keyNeeded' = TRUE
  /\ \E p \in RecycledPools(Len(queue)) :
       IF arriving
       THEN /\ queue' = <<[seq |-> packets, idr |-> TRUE]>>
            /\ drops' = drops + Len(queue)
            /\ pool' = PoolAfterReuse(p)
            /\ WakeDecoder
       ELSE /\ queue' = <<>>
            /\ drops' = drops + Len(queue) + 1
            /\ pool' = p
            /\ UNCHANGED dpc
  /\ UNCHANGED <<packets, unit, decoded, framesSeen, fed, taken, running,
                 stopReq, arriving, pliVars, upc, due>>

EnqueuePush ==
  /\ Enqueueing
  /\ ~resync \/ arriving
  /\ ~QueueFull
  /\ queue' = Queued([seq |-> packets, idr |-> arriving])
  /\ pool' = PoolAfterReuse(pool)
  /\ WakeDecoder
  /\ staleClear' = FALSE
  /\ UNCHANGED <<packets, drops, flagVars, unit, decoded, framesSeen, fed,
                 taken, running, stopReq, arriving, pliVars, upc, due>>

(* The peer connection comes up; video flows only from here on.            *)
PeerCompleted ==
  /\ npc = "run"
  /\ PeerMutexFree
  /\ ~completed
  /\ completed' = TRUE
  /\ UNCHANGED <<queueVars, flagVars, decVars, stopVars, initialReq, attempts,
                 upc, due, staleClear>>

(* network_loop sees network_running_ false between two batches.           *)
NetworkExit ==
  /\ npc = "run"
  /\ ~running
  /\ PeerMutexFree
  /\ npc' = "exited"
  /\ UNCHANGED <<queueVars, flagVars, decVars, running, stopReq, arriving, pliVars,
                 upc, due, staleClear>>

-----------------------------------------------------------------------------
(* Decoder thread: decoder_loop                                             *)

(* The wait predicate is evaluated with the mutex held.                    *)
DecoderBlock ==
  /\ dpc = "check"
  /\ running
  /\ queue = <<>>
  /\ dpc' = "blocking"
  /\ UNCHANGED <<queueVars, flagVars, unit, decoded, framesSeen, fed, taken,
                 stopVars, pliVars, upc, due, staleClear>>

(* wait() releases the mutex and sleeps in one atomic step.                *)
DecoderSleep ==
  /\ dpc = "blocking"
  /\ dpc' = "asleep"
  /\ UNCHANGED <<queueVars, flagVars, unit, decoded, framesSeen, fed, taken,
                 stopVars, pliVars, upc, due, staleClear>>

(* A condition variable may wake without a notification.                   *)
DecoderSpuriousWake ==
  /\ dpc = "asleep"
  /\ dpc' = "check"
  /\ UNCHANGED <<queueVars, flagVars, unit, decoded, framesSeen, fed, taken,
                 stopVars, pliVars, upc, due, staleClear>>

DecoderExit ==
  /\ dpc = "check"
  /\ ~running
  /\ dpc' = "done"
  /\ UNCHANGED <<queueVars, flagVars, unit, decoded, framesSeen, fed, taken,
                 stopVars, pliVars, upc, due, staleClear>>

DecoderTake ==
  /\ dpc = "check"
  /\ running
  /\ queue # <<>>
  /\ dpc' = "submit"
  /\ unit' = Head(queue)
  /\ queue' = Tail(queue)
  /\ taken' = taken + 1
  /\ fed' = Head(queue).seq
  /\ UNCHANGED <<pool, packets, drops, flagVars, decoded, framesSeen,
                 stopVars, pliVars, upc, due, staleClear>>

(* reset_stream if asked for, then the codec: it may refuse the unit, or   *)
(* take it and put out no picture yet, or put out at least one.            *)
DecoderSubmit ==
  /\ dpc = "submit"
  /\ dpc' = "finish"
  /\ reset' = FALSE
  /\ decoded' \in {"error", "nothing", "frames"}
  /\ UNCHANGED <<queueVars, resync, keyNeeded, unit, framesSeen, fed, taken,
                 stopVars, pliVars, upc, due, staleClear>>

(* Mutant: any decoded unit ends the wait.                                 *)
MutantKeyframeDecoded == TRUE

(* A decoded IDR unit ends the wait for a keyframe.                        *)
KeyframeDecoded == unit.idr

(* The flags after a unit, then its buffer goes back to the pool.          *)
DecoderFinish ==
  /\ dpc = "finish"
  /\ dpc' = "check"
  /\ \/ /\ decoded = "error"
        /\ resync' = TRUE
        /\ RequestReset
        /\ keyNeeded' = TRUE
        /\ staleClear' = FALSE
        /\ UNCHANGED <<framesSeen, due>>
     \/ /\ decoded # "error"
        /\ framesSeen' = IF decoded = "frames" THEN TRUE ELSE framesSeen
        /\ due' = IF decoded = "frames" THEN due \ {"frame"} ELSE due
        /\ resync' = IF KeyframeDecoded THEN FALSE ELSE resync
        /\ keyNeeded' = IF KeyframeDecoded THEN FALSE ELSE keyNeeded
        /\ staleClear' = IF unit.idr /\ GapOpen THEN TRUE ELSE staleClear
        /\ UNCHANGED reset
  /\ pool' \in RecycledPools(1)
  /\ decoded' = "nothing"
  /\ UNCHANGED <<queue, packets, drops, unit, fed, taken,
                 stopVars, pliVars, upc>>

-----------------------------------------------------------------------------
(* UI thread: WebRtcSession::poll, request_stop and stop                    *)

InitialRequestDue == completed /\ ~initialReq

StartupRetryDue ==
  /\ completed
  /\ packets = 0
  /\ "startup" \in due
  /\ attempts < StartupLimit

(* poll returns at once when stopping, and takes the peer mutex.           *)
BeginPoll ==
  /\ upc = "idle"
  /\ ~stopReq
  /\ npc # "enqueue"

PollInitialKeyframe ==
  /\ BeginPoll
  /\ InitialRequestDue
  /\ RequestKeyframe(resync, {"startup"})
  /\ initialReq' = TRUE
  /\ upc' = "stall"
  /\ UNCHANGED <<queueVars, resync, reset, decVars, stopVars, completed,
                 staleClear>>

(* maybe_request_startup_keyframe_retry *)
PollStartupRetry ==
  /\ BeginPoll
  /\ ~InitialRequestDue
  /\ StartupRetryDue
  /\ RequestKeyframe(resync, {"startup"})
  /\ upc' = "stall"
  /\ UNCHANGED <<queueVars, resync, reset, decVars, stopVars, completed,
                 initialReq, staleClear>>

PollNoRequest ==
  /\ BeginPoll
  /\ ~InitialRequestDue
  /\ ~StartupRetryDue
  /\ upc' = "stall"
  /\ UNCHANGED <<queueVars, flagVars, decVars, stopVars, pliVars, due,
                 staleClear>>

(* Mutant: the budget of the startup retries.                              *)
MutantStallRecoveryDue ==
  framesSeen /\ {"frame", "stall"} \subseteq due /\ attempts < StartupLimit

(* The early returns of maybe_recover_decode_stall.                        *)
StallRecoveryDue ==
  /\ framesSeen
  /\ "frame" \in due
  /\ "stall" \in due
  /\ attempts < StallLimit

PollStallCheck ==
  /\ upc = "stall"
  /\ IF StallRecoveryDue
     THEN upc' = "clear" /\ due' = due \ {"stall"}
     ELSE upc' = "idle" /\ UNCHANGED due
  /\ UNCHANGED <<queueVars, flagVars, decVars, stopVars, pliVars, staleClear>>

(* The queue is emptied under its mutex ...                                *)
PollStallClear ==
  /\ upc = "clear"
  /\ QueueMutexFree
  /\ upc' = "flag"
  /\ drops' = drops + Len(queue)
  /\ pool' \in RecycledPools(Len(queue))
  /\ queue' = <<>>
  /\ UNCHANGED <<packets, flagVars, decVars, stopVars, pliVars, due,
                 staleClear>>

(* ... and the flags are stored, and a keyframe requested, after it.       *)
PollStallFlag ==
  /\ upc = "flag"
  /\ upc' = "idle"
  /\ resync' = TRUE
  /\ RequestReset
  /\ staleClear' = FALSE
  /\ RequestKeyframe(TRUE, {})
  /\ UNCHANGED <<queueVars, decVars, stopVars, completed, initialReq>>

(* request_stop: the flags are stored without the queue mutex ...          *)
StopStore ==
  /\ upc = "idle"
  /\ ~stopReq
  /\ stopReq' = TRUE
  /\ running' = FALSE
  /\ upc' = "notify"
  /\ UNCHANGED <<queueVars, flagVars, decVars, npc, arriving, pliVars, due,
                 staleClear>>

(* ... and the decoder is notified once.                                   *)
StopNotify ==
  /\ upc = "notify"
  /\ WakeDecoder
  /\ upc' = "join"
  /\ UNCHANGED <<queueVars, flagVars, unit, decoded, framesSeen, fed, taken,
                 stopVars, pliVars, due, staleClear>>

(* stop: both joins, then what is left of the queue and the pool is freed. *)
StopJoin ==
  /\ upc = "join"
  /\ npc = "exited"
  /\ dpc = "done"
  /\ upc' = "stopped"
  /\ queue' = <<>>
  /\ pool' = 0
  /\ UNCHANGED <<packets, drops, flagVars, decVars, stopVars, pliVars, due,
                 staleClear>>

(* Time passes; a timer that nobody will look at again need not run out.   *)
Elapse(timer) ==
  /\ timer \notin due
  /\ ~stopReq
  /\ timer = "frame" => framesSeen
  /\ timer = "startup" => initialReq /\ packets = 0
  /\ due' = due \cup {timer}
  /\ UNCHANGED <<queueVars, flagVars, decVars, stopVars, pliVars, upc,
                 staleClear>>

(* The session is over.                                                    *)
Stopped ==
  /\ upc = "stopped"
  /\ UNCHANGED vars

-----------------------------------------------------------------------------
Init ==
  /\ queue = <<>> /\ pool = 0 /\ packets = 0 /\ drops = 0
  /\ resync = FALSE /\ reset = FALSE /\ keyNeeded = FALSE
  /\ running = TRUE /\ stopReq = FALSE /\ arriving = FALSE
  /\ dpc = "check" /\ npc = "run" /\ upc = "idle"
  /\ unit = [seq |-> 1, idr |-> FALSE] /\ decoded = "nothing"
  /\ framesSeen = FALSE /\ completed = FALSE /\ initialReq = FALSE
  /\ attempts = 0 /\ due = {"pli", "stall"}
  /\ fed = 0 /\ taken = 0 /\ staleClear = FALSE

Network ==
  \/ \E idr \in BOOLEAN : Deliver(idr)
  \/ EnqueueSkip \/ EnqueueOverflow \/ EnqueuePush
  \/ PeerCompleted \/ NetworkExit

Decoder ==
  \/ DecoderBlock \/ DecoderSleep \/ DecoderSpuriousWake \/ DecoderExit
  \/ DecoderTake \/ DecoderSubmit \/ DecoderFinish

Poll ==
  \/ PollInitialKeyframe \/ PollStartupRetry \/ PollNoRequest
  \/ PollStallCheck \/ PollStallClear \/ PollStallFlag

Stop == StopStore \/ StopNotify \/ StopJoin \/ Stopped

Next == Network \/ Decoder \/ Poll \/ Stop \/ \E t \in Timers : Elapse(t)

Spec == Init /\ [][Next]_vars

(***************************************************************************)
(* Threads are scheduled, frames are drawn, time passes, and a thread that *)
(* waits for the queue mutex gets it in the end (strong fairness: it is    *)
(* held for a few instructions at a time).  Nothing makes the server send, *)
(* the peer connect, the user stop or a condition variable wake by itself. *)
(***************************************************************************)
DecoderSteps ==
  DecoderBlock \/ DecoderSleep \/ DecoderExit
    \/ DecoderTake \/ DecoderSubmit \/ DecoderFinish

Fairness ==
  /\ WF_vars(DecoderSteps)
  /\ WF_vars(Poll) /\ SF_vars(PollStallClear)
  /\ WF_vars(StopNotify) /\ WF_vars(StopJoin)
  /\ SF_vars(EnqueueSkip \/ EnqueueOverflow \/ EnqueuePush)
  /\ WF_vars(NetworkExit)
  /\ \A t \in Timers : WF_vars(Elapse(t))

FairSpec == Spec /\ Fairness
-----------------------------------------------------------------------------
(* Properties                                                               *)

(* Every variable keeps its type and the queue its limit.                  *)
QueueType ==
  /\ queue \in Seq(Unit)
  /\ Len(queue) <= MaxQueued
  /\ pool \in 0..PoolLimit
  /\ packets \in 0..MaxUnits
  /\ drops \in Nat

FlagType ==
  /\ resync \in BOOLEAN
  /\ reset \in BOOLEAN
  /\ keyNeeded \in BOOLEAN
  /\ staleClear \in BOOLEAN

DecoderType ==
  /\ dpc \in {"check", "blocking", "asleep", "submit", "finish", "done"}
  /\ unit \in [seq : Nat, idr : BOOLEAN]
  /\ decoded \in {"error", "nothing", "frames"}
  /\ framesSeen \in BOOLEAN
  /\ fed \in Nat
  /\ taken \in Nat

ThreadType ==
  /\ running \in BOOLEAN
  /\ stopReq \in BOOLEAN
  /\ npc \in {"run", "enqueue", "exited"}
  /\ arriving \in BOOLEAN
  /\ upc \in {"idle", "stall", "clear", "flag", "notify", "join", "stopped"}

RequestType ==
  /\ completed \in BOOLEAN
  /\ initialReq \in BOOLEAN
  /\ attempts \in Nat
  /\ due \in SUBSET Timers

TypeOK == QueueType /\ FlagType /\ DecoderType /\ ThreadType /\ RequestType

(* No access unit is decoded twice, out of order or before it arrived: the *)
(* queue is in arrival order, all of it newer than what the decoder popped *)
(* last, whatever overflows and recoveries emptied it in between.          *)
ArrivalOrder ==
  /\ \A i \in 1..Len(queue) : fed < queue[i].seq /\ queue[i].seq <= NewestQueued
  /\ \A i, j \in 1..Len(queue) : i < j => queue[i].seq < queue[j].seq
  /\ fed <= NewestQueued

(* While the worker runs, every unit that arrived is queued, was popped by *)
(* the decoder or is counted in decoder_queue_drops_, exactly once.        *)
DropsAccounted ==
  running => NewestQueued = drops + taken + Len(queue)

(* The pool limit is never what bounds memory: buffers in the pool, in the *)
(* queue and in the decoder's hands together never outnumber a full queue  *)
(* and one unit being decoded.                                             *)
BuffersBounded ==
  pool + Len(queue) + (IF DecoderBusy THEN 1 ELSE 0) <= MaxQueued + 1

(* After a loss inside the client no delta unit is let into the queue: the *)
(* resync flag is up until a keyframe is decoded.  The two exceptions are  *)
(* the stall recovery that has emptied the queue and still holds the peer  *)
(* mutex, and a flag cleared on behalf of a keyframe older than the loss.  *)
GapGuarded ==
  running /\ GapOpen => resync \/ staleClear \/ upc = "flag"

(* decoder_ and pc_ are destroyed, and the queue freed, only when neither  *)
(* thread can touch them again.                                            *)
TeardownAfterJoin ==
  upc = "stopped" => dpc = "done" /\ npc = "exited" /\ queue = <<>>

(* A unit in the queue is popped, or dropped on purpose, or the session    *)
(* stops: no notification of a queued unit is lost.                        *)
QueueDrains == queue # <<>> ~> (queue = <<>> \/ stopReq)

(* Once pictures have been decoded, waiting for a keyframe leads to another *)
(* request, to the keyframe, to the end of the session or to a spent       *)
(* budget: timers and the 1500 ms limit never swallow every request.       *)
RecoveryRequested ==
  \A k \in 0..(StallLimit - 1) :
    (resync /\ framesSeen /\ attempts = k)
      ~> (attempts > k \/ ~resync \/ stopReq)

(* StreamView.cpp:247 tells the user to hold a key combination "to cancel  *)
(* and go back": the stop that it starts comes to an end.                  *)
StopTerminates == stopReq ~> (upc = "stopped")

(* FFmpegVideoDecoder.cpp:156, "Do not present corrupt or pre-keyframe     *)
(* pictures": a delta unit that reaches the decoder continues the unit     *)
(* decoded before it.                                                      *)
NoPreKeyframeUnit ==
  [][DecoderTake /\ ~Head(queue).idr => Head(queue).seq = fed + 1]_vars
=============================================================================
