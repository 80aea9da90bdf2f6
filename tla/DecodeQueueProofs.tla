--------------------------- MODULE DecodeQueueProofs ---------------------------
(***************************************************************************)
(* Proofs, for every frame rate, every request limit and any number of     *)
(* access units, of the safety invariants of DecodeQueue.  They are        *)
(* inductive together with ThreadInv, which says what the mutexes and the  *)
(* order of the stop guarantee.                                            *)
(***************************************************************************)
EXTENDS DecodeQueue, TLAPS

USE DEF QueueFull, Queued, KeyframeDecoded

ThreadInv ==
  /\ running <=> ~stopReq
  /\ stopReq <=> upc \in {"notify", "join", "stopped"}
  /\ npc = "enqueue" => packets >= 1 /\ PeerMutexFree
  /\ npc = "exited" => ~running
  /\ dpc = "done" => ~running

IInv ==
  /\ TypeOK
  /\ ThreadInv
  /\ ArrivalOrder
  /\ DropsAccounted
  /\ BuffersBounded
  /\ GapGuarded
  /\ TeardownAfterJoin

(* The latency policy keeps the queue between two and four units.          *)
LEMMA MaxQueuedRange == MaxQueued \in 2..4
BY ConstantsAssumption DEF MaxQueued, MaximumQueuedAccessUnits

(* The session starts in a state where the invariant holds.                *)
LEMMA InitIInv == Init => IInv
<1> SUFFICES ASSUME Init PROVE IInv
  OBVIOUS
<1> USE ConstantsAssumption, MaxQueuedRange DEF Init
<1>1. TypeOK
  <2>1. QueueType
    BY DEF QueueType
  <2>2. DecoderType /\ ThreadType
    BY DEF DecoderType, ThreadType
  <2>3. FlagType /\ RequestType
    BY DEF FlagType, RequestType, Timers
  <2> QED
    BY <2>1, <2>2, <2>3 DEF TypeOK
<1>2. ThreadInv /\ TeardownAfterJoin
  BY DEF ThreadInv, TeardownAfterJoin
<1>3. ArrivalOrder /\ DropsAccounted /\ GapGuarded
  BY DEF ArrivalOrder, DropsAccounted, GapGuarded, GapOpen, NewestKept, NewestQueued
<1>4. BuffersBounded
  BY DEF BuffersBounded, DecoderBusy
<1> QED
  BY <1>1, <1>2, <1>3, <1>4 DEF IInv

(* request_keyframe keeps the type of the request counter and the timers.   *)
LEMMA RequestKeyframeType ==
  ASSUME RequestType, NEW resyncNow, NEW timers,
         RequestKeyframe(resyncNow, timers)
  PROVE  attempts' \in Nat /\ due' \in SUBSET Timers
<1>1. attempts' = attempts + 1 \/ attempts' = attempts
  BY Zenon DEF RequestKeyframe
<1>2. due' \subseteq due
  BY Zenon DEF RequestKeyframe
<1> QED
  BY <1>1, <1>2 DEF RequestType

(* A sequence of one element.                                               *)
LEMMA SingletonSeq ==
  ASSUME NEW S, NEW e \in S
  PROVE  <<e>> \in Seq(S) /\ Len(<<e>>) = 1 /\ <<e>>[1] = e
OBVIOUS

(* The two ways an overflow ends: on an IDR unit, and on a delta unit.      *)
LEMMA OverflowOutcome ==
  ASSUME EnqueueOverflow
  PROVE  \E p \in RecycledPools(Len(queue)) :
           \/ /\ queue' = <<[seq |-> packets, idr |-> TRUE]>>
              /\ Len(queue') = 1
              /\ drops' = drops + Len(queue)
              /\ pool' = PoolAfterReuse(p)
           \/ /\ queue' = <<>>
              /\ Len(queue') = 0
              /\ drops' = drops + Len(queue) + 1
              /\ pool' = p
<1> DEFINE u == [seq |-> packets, idr |-> TRUE]
<1>1. PICK p \in RecycledPools(Len(queue)) :
        \/ queue' = <<u>> /\ drops' = drops + Len(queue) /\ pool' = PoolAfterReuse(p)
        \/ queue' = <<>> /\ drops' = drops + Len(queue) + 1 /\ pool' = p
  BY DEF EnqueueOverflow
<1>2. \A e : Len(<<e>>) = 1
  BY SingletonSeq
<1>3. Len(<<>>) = 0
  OBVIOUS
<1> HIDE DEF u
<1>4. \/ /\ queue' = <<u>> /\ Len(queue') = 1
         /\ drops' = drops + Len(queue) /\ pool' = PoolAfterReuse(p)
      \/ /\ queue' = <<>> /\ Len(queue') = 0
         /\ drops' = drops + Len(queue) + 1 /\ pool' = p
  BY <1>1, <1>2, <1>3, Zenon
<1> QED
  BY <1>4, Zenon DEF u

(* What popping the queue leaves.                                           *)
LEMMA QueueTail ==
  ASSUME QueueType, queue # <<>>
  PROVE  /\ Len(queue) \in Nat \ {0}
         /\ Head(queue) = queue[1]
         /\ Tail(queue) \in Seq(Unit)
         /\ Len(Tail(queue)) = Len(queue) - 1
         /\ \A i \in 1..(Len(queue) - 1) : Tail(queue)[i] = queue[i + 1]
         /\ Tail(queue) = <<>> => Len(queue) = 1
         /\ Tail(queue) # <<>> => Tail(queue)[Len(Tail(queue))] = queue[Len(queue)]
<1>1. /\ Len(queue) \in Nat \ {0}
      /\ Head(queue) = queue[1]
      /\ Tail(queue) \in Seq(Unit)
      /\ Len(Tail(queue)) = Len(queue) - 1
      /\ \A i \in 1..(Len(queue) - 1) : Tail(queue)[i] = queue[i + 1]
  BY DEF QueueType
<1>2. Tail(queue) = <<>> => Len(queue) = 1
  <2>1. Len(<<>>) = 0
    OBVIOUS
  <2>2. Tail(queue) = <<>> => Len(Tail(queue)) = 0
    BY <2>1, Zenon
  <2> QED
    BY <1>1, <2>2
<1>3. Tail(queue) # <<>> => Len(Tail(queue)) # 0
  BY <1>1
<1>4. Tail(queue) # <<>> => Tail(queue)[Len(Tail(queue))] = queue[Len(queue)]
  BY <1>1, <1>3
<1> QED
  BY <1>1, <1>2, <1>4

(* A queued unit has a number.                                              *)
LEMMA QueuedNumber ==
  ASSUME QueueType, NEW i \in 1..Len(queue)
  PROVE  queue[i].seq \in Nat
<1>1. queue[i] \in Unit
  BY DEF QueueType
<1> QED
  BY <1>1, ConstantsAssumption DEF Unit

(* No step overfills the queue or the pool.                                 *)
LEMMA QueueTypeStep == IInv /\ [Next]_vars => QueueType'
<1> SUFFICES ASSUME IInv, [Next]_vars PROVE QueueType'
  OBVIOUS
<1> USE ConstantsAssumption, MaxQueuedRange DEF IInv, TypeOK, QueueType,
  ThreadType, queueVars
<1>1. CASE \E idr \in BOOLEAN : Deliver(idr)
  BY <1>1 DEF Deliver
<1>2. CASE EnqueueSkip
  BY <1>2 DEF EnqueueSkip, Enqueueing, ThreadInv
<1>3. CASE EnqueueOverflow
  <2> DEFINE u == [seq |-> packets, idr |-> TRUE]
  <2>1. PICK p \in RecycledPools(Len(queue)) :
          \/ /\ queue' = <<u>>
             /\ drops' = drops + Len(queue)
             /\ pool' = PoolAfterReuse(p)
          \/ /\ queue' = <<>>
             /\ drops' = drops + Len(queue) + 1
             /\ pool' = p
    BY <1>3, OverflowOutcome
  <2>2. p \in 0..PoolLimit /\ PoolAfterReuse(p) \in 0..PoolLimit
    BY DEF RecycledPools, PoolAfterReuse
  <2>3. u \in Unit
    BY <1>3 DEF EnqueueOverflow, Enqueueing, Unit, ThreadInv
  <2>4. packets' = packets
    BY <1>3 DEF EnqueueOverflow
  <2> HIDE DEF u
  <2>5. CASE queue' = <<u>>
    BY <2>1, <2>2, <2>3, <2>4, <2>5, SingletonSeq
  <2>6. CASE queue' = <<>>
    BY <2>1, <2>2, <2>4, <2>6
  <2> QED
    BY <2>1, <2>5, <2>6
<1>4. CASE EnqueuePush
  BY <1>4 DEF EnqueuePush, Enqueueing, PoolAfterReuse, WakeDecoder, ThreadInv,
    Unit
<1>5. CASE PeerCompleted \/ NetworkExit
  BY <1>5 DEF PeerCompleted, NetworkExit
<1>6. CASE DecoderTake
  BY <1>6 DEF DecoderTake
<1>7. CASE DecoderFinish
  BY <1>7 DEF DecoderFinish, RequestReset, RecycledPools
<1>8. CASE DecoderBlock \/ DecoderSleep \/ DecoderSpuriousWake \/ DecoderExit
  \/ DecoderSubmit
  BY <1>8 DEF DecoderBlock, DecoderSleep, DecoderSpuriousWake, DecoderExit,
    DecoderSubmit
<1>9. CASE PollStallClear
  BY <1>9 DEF PollStallClear, RecycledPools
<1>10. CASE PollInitialKeyframe \/ PollStartupRetry \/ PollNoRequest \/
  PollStallCheck \/ PollStallFlag
  BY <1>10 DEF PollInitialKeyframe, RequestKeyframe, BeginPoll,
    PollStartupRetry, PollNoRequest, PollStallCheck, PollStallFlag,
    RequestReset
<1>11. CASE StopJoin
  BY <1>11 DEF StopJoin
<1>12. CASE StopStore \/ StopNotify \/ Stopped
  BY <1>12 DEF StopStore, StopNotify, WakeDecoder, Stopped, vars
<1>13. CASE \E t \in Timers : Elapse(t)
  BY <1>13 DEF Elapse
<1>14. CASE UNCHANGED vars
  BY <1>14 DEF vars
<1> QED
  BY <1>1, <1>2, <1>3, <1>4, <1>5, <1>6, <1>7, <1>8, <1>9, <1>10, <1>11,
    <1>12, <1>13, <1>14 DEF Next, Network, Decoder, Poll, Stop

(* The recovery flags stay Boolean.                                         *)
LEMMA FlagTypeStep == IInv /\ [Next]_vars => FlagType'
<1> SUFFICES ASSUME IInv, [Next]_vars PROVE FlagType'
  OBVIOUS
<1> USE DEF IInv, TypeOK, FlagType, flagVars
<1>1. CASE EnqueueOverflow
  BY <1>1 DEF EnqueueOverflow, Enqueueing, RequestReset, RecycledPools,
    PoolAfterReuse, WakeDecoder
<1>2. CASE EnqueuePush
  BY <1>2 DEF EnqueuePush, Enqueueing, PoolAfterReuse, WakeDecoder
<1>3. CASE (\E idr \in BOOLEAN : Deliver(idr)) \/ EnqueueSkip \/ PeerCompleted
  \/ NetworkExit
  BY <1>3 DEF Deliver, EnqueueSkip, Enqueueing, PeerCompleted, NetworkExit
<1>4. CASE DecoderSubmit
  BY <1>4 DEF DecoderSubmit
<1>5. CASE DecoderFinish
  BY <1>5 DEF DecoderFinish, RequestReset, RecycledPools
<1>6. CASE DecoderBlock \/ DecoderSleep \/ DecoderSpuriousWake \/ DecoderExit
  \/ DecoderTake
  BY <1>6 DEF DecoderBlock, DecoderSleep, DecoderSpuriousWake, DecoderExit,
    DecoderTake
<1>7. CASE PollInitialKeyframe
  BY <1>7 DEF PollInitialKeyframe, RequestKeyframe, BeginPoll
<1>8. CASE PollStartupRetry
  BY <1>8 DEF PollStartupRetry, RequestKeyframe, BeginPoll
<1>9. CASE PollStallFlag
  BY <1>9 DEF PollStallFlag, RequestReset, RequestKeyframe
<1>10. CASE PollNoRequest \/ PollStallCheck \/ PollStallClear
  BY <1>10 DEF PollNoRequest, BeginPoll, PollStallCheck, PollStallClear,
    RecycledPools
<1>11. CASE StopStore \/ StopNotify \/ StopJoin \/ Stopped
  BY <1>11 DEF StopStore, StopNotify, WakeDecoder, StopJoin, Stopped, vars
<1>12. CASE \E t \in Timers : Elapse(t)
  BY <1>12 DEF Elapse
<1>13. CASE UNCHANGED vars
  BY <1>13 DEF vars
<1> QED
  BY <1>1, <1>2, <1>3, <1>4, <1>5, <1>6, <1>7, <1>8, <1>9, <1>10, <1>11,
    <1>12, <1>13 DEF Next, Network, Decoder, Poll, Stop

(* The decoder thread keeps the type of its state.                          *)
LEMMA DecoderTypeStep == IInv /\ [Next]_vars => DecoderType'
<1> SUFFICES ASSUME IInv, [Next]_vars PROVE DecoderType'
  OBVIOUS
<1> USE DEF IInv, TypeOK, DecoderType, decVars
<1>1. CASE EnqueueOverflow
  BY <1>1 DEF EnqueueOverflow, Enqueueing, RequestReset, RecycledPools,
    PoolAfterReuse, WakeDecoder
<1>2. CASE EnqueuePush
  BY <1>2 DEF EnqueuePush, Enqueueing, PoolAfterReuse, WakeDecoder
<1>3. CASE (\E idr \in BOOLEAN : Deliver(idr)) \/ EnqueueSkip \/ PeerCompleted
  \/ NetworkExit
  BY <1>3 DEF Deliver, EnqueueSkip, Enqueueing, PeerCompleted, NetworkExit
<1>4. CASE DecoderTake
  <2>1. Head(queue) \in Unit
    BY <1>4 DEF DecoderTake, QueueType
  <2>2. /\ Head(queue) \in [seq : Nat, idr : BOOLEAN]
        /\ Head(queue).seq \in Nat
    BY <2>1, ConstantsAssumption DEF Unit
  <2>3. unit' \in [seq : Nat, idr : BOOLEAN] /\ fed' \in Nat
    BY <1>4, <2>2 DEF DecoderTake
  <2>4. /\ taken' \in Nat /\ dpc' = "submit"
        /\ decoded' = decoded /\ framesSeen' = framesSeen
    BY <1>4 DEF DecoderTake
  <2> QED
    BY <2>3, <2>4
<1>5. CASE DecoderSubmit
  BY <1>5 DEF DecoderSubmit
<1>6. CASE DecoderFinish
  BY <1>6 DEF DecoderFinish, RequestReset, RecycledPools
<1>7. CASE DecoderBlock \/ DecoderSleep \/ DecoderSpuriousWake \/ DecoderExit
  BY <1>7 DEF DecoderBlock, DecoderSleep, DecoderSpuriousWake, DecoderExit
<1>8. CASE PollInitialKeyframe \/ PollStartupRetry \/ PollNoRequest \/
  PollStallCheck \/ PollStallClear \/ PollStallFlag
  BY <1>8 DEF PollInitialKeyframe, RequestKeyframe, BeginPoll,
    PollStartupRetry, PollNoRequest, PollStallCheck, PollStallClear,
    RecycledPools, PollStallFlag, RequestReset
<1>9. CASE StopNotify
  BY <1>9 DEF StopNotify, WakeDecoder
<1>10. CASE StopStore \/ StopJoin \/ Stopped
  BY <1>10 DEF StopStore, StopJoin, Stopped, vars
<1>11. CASE \E t \in Timers : Elapse(t)
  BY <1>11 DEF Elapse
<1>12. CASE UNCHANGED vars
  BY <1>12 DEF vars
<1> QED
  BY <1>1, <1>2, <1>3, <1>4, <1>5, <1>6, <1>7, <1>8, <1>9, <1>10, <1>11, <1>12
    DEF Next, Network, Decoder, Poll, Stop

(* The threads stay at the places they have.                                *)
LEMMA ThreadTypeStep == IInv /\ [Next]_vars => ThreadType'
<1> SUFFICES ASSUME IInv, [Next]_vars PROVE ThreadType'
  OBVIOUS
<1> USE DEF IInv, TypeOK, ThreadType, stopVars
<1>1. CASE \E idr \in BOOLEAN : Deliver(idr)
  BY <1>1 DEF Deliver
<1>2. CASE EnqueueOverflow
  BY <1>2 DEF EnqueueOverflow, Enqueueing, RequestReset, RecycledPools,
    PoolAfterReuse, WakeDecoder
<1>3. CASE EnqueuePush
  BY <1>3 DEF EnqueuePush, Enqueueing, PoolAfterReuse, WakeDecoder
<1>4. CASE EnqueueSkip \/ PeerCompleted \/ NetworkExit
  BY <1>4 DEF EnqueueSkip, Enqueueing, PeerCompleted, NetworkExit
<1>5. CASE DecoderBlock \/ DecoderSleep \/ DecoderSpuriousWake \/ DecoderExit
  \/ DecoderTake \/ DecoderSubmit \/ DecoderFinish
  BY <1>5 DEF DecoderBlock, DecoderSleep, DecoderSpuriousWake, DecoderExit,
    DecoderTake, DecoderSubmit, DecoderFinish, RequestReset, RecycledPools
<1>6. CASE PollInitialKeyframe \/ PollStartupRetry \/ PollNoRequest \/
  PollStallCheck \/ PollStallClear \/ PollStallFlag
  BY <1>6 DEF PollInitialKeyframe, RequestKeyframe, BeginPoll,
    PollStartupRetry, PollNoRequest, PollStallCheck, PollStallClear,
    RecycledPools, PollStallFlag, RequestReset
<1>7. CASE StopStore \/ StopNotify \/ StopJoin \/ Stopped
  BY <1>7 DEF StopStore, StopNotify, WakeDecoder, StopJoin, Stopped, vars
<1>8. CASE \E t \in Timers : Elapse(t)
  BY <1>8 DEF Elapse
<1>9. CASE UNCHANGED vars
  BY <1>9 DEF vars
<1> QED
  BY <1>1, <1>2, <1>3, <1>4, <1>5, <1>6, <1>7, <1>8, <1>9 DEF Next, Network,
    Decoder, Poll, Stop

(* The keyframe requests are counted and the timers are known ones.         *)
LEMMA RequestTypeStep == IInv /\ [Next]_vars => RequestType'
<1> SUFFICES ASSUME IInv, [Next]_vars PROVE RequestType'
  OBVIOUS
<1> USE DEF IInv, TypeOK, RequestType, pliVars
<1>1. CASE (\E idr \in BOOLEAN : Deliver(idr)) \/ EnqueueSkip \/
  EnqueueOverflow \/ EnqueuePush \/ PeerCompleted \/ NetworkExit
  BY <1>1 DEF Deliver, EnqueueSkip, Enqueueing, EnqueueOverflow, RequestReset,
    RecycledPools, PoolAfterReuse, WakeDecoder, EnqueuePush, PeerCompleted,
    NetworkExit
<1>2. CASE DecoderFinish
  BY <1>2 DEF DecoderFinish, RequestReset, RecycledPools
<1>3. CASE DecoderBlock \/ DecoderSleep \/ DecoderSpuriousWake \/ DecoderExit
  \/ DecoderTake \/ DecoderSubmit
  BY <1>3 DEF DecoderBlock, DecoderSleep, DecoderSpuriousWake, DecoderExit,
    DecoderTake, DecoderSubmit
<1>4. CASE PollInitialKeyframe
  <2>1. attempts' \in Nat /\ due' \in SUBSET Timers
    BY <1>4, RequestKeyframeType DEF PollInitialKeyframe
  <2>2. completed' \in BOOLEAN /\ initialReq' \in BOOLEAN
    BY <1>4 DEF PollInitialKeyframe
  <2> QED
    BY <2>1, <2>2
<1>5. CASE PollStartupRetry
  <2>1. attempts' \in Nat /\ due' \in SUBSET Timers
    BY <1>5, RequestKeyframeType DEF PollStartupRetry
  <2>2. completed' \in BOOLEAN /\ initialReq' \in BOOLEAN
    BY <1>5 DEF PollStartupRetry
  <2> QED
    BY <2>1, <2>2
<1>6. CASE PollStallCheck
  BY <1>6 DEF PollStallCheck
<1>7. CASE PollStallFlag
  <2>1. attempts' \in Nat /\ due' \in SUBSET Timers
    BY <1>7, RequestKeyframeType DEF PollStallFlag
  <2>2. completed' \in BOOLEAN /\ initialReq' \in BOOLEAN
    BY <1>7 DEF PollStallFlag
  <2> QED
    BY <2>1, <2>2
<1>8. CASE PollNoRequest \/ PollStallClear
  BY <1>8 DEF PollNoRequest, BeginPoll, PollStallClear, RecycledPools
<1>9. CASE StopStore \/ StopNotify \/ StopJoin \/ Stopped
  BY <1>9 DEF StopStore, StopNotify, WakeDecoder, StopJoin, Stopped, vars
<1>10. CASE \E t \in Timers : Elapse(t)
  BY <1>10 DEF Elapse
<1>11. CASE UNCHANGED vars
  BY <1>11 DEF vars
<1> QED
  BY <1>1, <1>2, <1>3, <1>4, <1>5, <1>6, <1>7, <1>8, <1>9, <1>10, <1>11 DEF
    Next, Network, Decoder, Poll, Stop

(* Type correctness is preserved.                                           *)
LEMMA TypeStep == IInv /\ [Next]_vars => TypeOK'
BY QueueTypeStep, FlagTypeStep, DecoderTypeStep, ThreadTypeStep, RequestTypeStep
DEF TypeOK

(* The mutexes and the order of the stop hold after every step.             *)
LEMMA ThreadInvStep == IInv /\ [Next]_vars => ThreadInv'
<1> SUFFICES ASSUME IInv, [Next]_vars PROVE ThreadInv'
  OBVIOUS
<1> USE DEF IInv, TypeOK, QueueType, ThreadType, ThreadInv, PeerMutexFree,
  queueVars, decVars, stopVars
<1>1. CASE \E idr \in BOOLEAN : Deliver(idr)
  BY <1>1 DEF Deliver, PeerMutexFree
<1>2. CASE EnqueueSkip
  BY <1>2 DEF EnqueueSkip, Enqueueing, PeerMutexFree
<1>3. CASE EnqueueOverflow
  BY <1>3 DEF EnqueueOverflow, Enqueueing, RequestReset, RecycledPools,
    PoolAfterReuse, WakeDecoder, PeerMutexFree
<1>4. CASE EnqueuePush
  BY <1>4 DEF EnqueuePush, Enqueueing, PoolAfterReuse, WakeDecoder,
    PeerMutexFree
<1>5. CASE NetworkExit
  BY <1>5 DEF NetworkExit, PeerMutexFree
<1>6. CASE PeerCompleted
  BY <1>6 DEF PeerCompleted
<1>7. CASE DecoderBlock
  BY <1>7 DEF DecoderBlock, PeerMutexFree
<1>8. CASE DecoderExit
  BY <1>8 DEF DecoderExit, PeerMutexFree
<1>9. CASE DecoderTake
  BY <1>9 DEF DecoderTake, PeerMutexFree
<1>10. CASE DecoderSubmit
  BY <1>10 DEF DecoderSubmit, PeerMutexFree
<1>11. CASE DecoderFinish
  BY <1>11 DEF DecoderFinish, RequestReset, RecycledPools, PeerMutexFree
<1>12. CASE DecoderSleep \/ DecoderSpuriousWake
  BY <1>12 DEF DecoderSleep, DecoderSpuriousWake
<1>13. CASE PollInitialKeyframe
  BY <1>13 DEF PollInitialKeyframe, RequestKeyframe, BeginPoll, PeerMutexFree
<1>14. CASE PollStartupRetry
  BY <1>14 DEF PollStartupRetry, RequestKeyframe, BeginPoll, PeerMutexFree
<1>15. CASE PollNoRequest
  BY <1>15 DEF PollNoRequest, BeginPoll, PeerMutexFree
<1>16. CASE PollStallCheck
  BY <1>16 DEF PollStallCheck, PeerMutexFree
<1>17. CASE PollStallClear
  BY <1>17 DEF PollStallClear, RecycledPools, PeerMutexFree
<1>18. CASE PollStallFlag
  BY <1>18 DEF PollStallFlag, RequestReset, RequestKeyframe, PeerMutexFree
<1>19. CASE StopStore
  BY <1>19 DEF StopStore, PeerMutexFree
<1>20. CASE StopNotify
  BY <1>20 DEF StopNotify, WakeDecoder, PeerMutexFree
<1>21. CASE StopJoin
  BY <1>21 DEF StopJoin, PeerMutexFree
<1>22. CASE Stopped
  BY <1>22 DEF Stopped, vars
<1>23. CASE \E t \in Timers : Elapse(t)
  BY <1>23 DEF Elapse
<1>24. CASE UNCHANGED vars
  BY <1>24 DEF vars
<1> QED
  BY <1>1, <1>2, <1>3, <1>4, <1>5, <1>6, <1>7, <1>8, <1>9, <1>10, <1>11,
    <1>12, <1>13, <1>14, <1>15, <1>16, <1>17, <1>18, <1>19, <1>20, <1>21,
    <1>22, <1>23, <1>24 DEF Next, Network, Decoder, Poll, Stop

(* Nothing is torn down before both threads have ended.                     *)
LEMMA TeardownStep == IInv /\ [Next]_vars => TeardownAfterJoin'
<1> SUFFICES ASSUME IInv, [Next]_vars PROVE TeardownAfterJoin'
  OBVIOUS
<1> USE DEF IInv, TypeOK, QueueType, ThreadType, DecoderType, ThreadInv,
  TeardownAfterJoin, queueVars, decVars, stopVars
<1>1. CASE (\E idr \in BOOLEAN : Deliver(idr)) \/ EnqueueSkip \/
  EnqueueOverflow \/ EnqueuePush \/ PeerCompleted \/ NetworkExit
  BY <1>1 DEF Deliver, EnqueueSkip, Enqueueing, EnqueueOverflow, RequestReset,
    RecycledPools, PoolAfterReuse, WakeDecoder, EnqueuePush, PeerCompleted,
    NetworkExit
<1>2. CASE DecoderBlock \/ DecoderSleep \/ DecoderSpuriousWake \/ DecoderExit
  \/ DecoderTake \/ DecoderSubmit \/ DecoderFinish
  BY <1>2 DEF DecoderBlock, DecoderSleep, DecoderSpuriousWake, DecoderExit,
    DecoderTake, DecoderSubmit, DecoderFinish, RequestReset, RecycledPools
<1>3. CASE PollInitialKeyframe \/ PollStartupRetry \/ PollNoRequest \/
  PollStallCheck \/ PollStallClear \/ PollStallFlag
  BY <1>3 DEF PollInitialKeyframe, RequestKeyframe, BeginPoll,
    PollStartupRetry, PollNoRequest, PollStallCheck, PollStallClear,
    RecycledPools, PollStallFlag, RequestReset
<1>4. CASE StopJoin
  BY <1>4 DEF StopJoin
<1>5. CASE StopStore \/ StopNotify \/ Stopped
  BY <1>5 DEF StopStore, StopNotify, WakeDecoder, Stopped, vars
<1>6. CASE \E t \in Timers : Elapse(t)
  BY <1>6 DEF Elapse
<1>7. CASE UNCHANGED vars
  BY <1>7 DEF vars
<1> QED
  BY <1>1, <1>2, <1>3, <1>4, <1>5, <1>6, <1>7 DEF Next, Network, Decoder,
    Poll, Stop

(* No step loses count of an access unit.                                   *)
LEMMA DropsStep == IInv /\ [Next]_vars => DropsAccounted'
<1> SUFFICES ASSUME IInv, [Next]_vars PROVE DropsAccounted'
  OBVIOUS
<1> USE DEF IInv, TypeOK, QueueType, ThreadType, DecoderType, ThreadInv,
  DropsAccounted, NewestQueued, queueVars, decVars, stopVars
<1>1. CASE \E idr \in BOOLEAN : Deliver(idr)
  BY <1>1 DEF Deliver
<1>2. CASE EnqueueSkip
  BY <1>2 DEF EnqueueSkip, Enqueueing
<1>3. CASE EnqueueOverflow
  <2>1. \/ Len(queue') = 1 /\ drops' = drops + Len(queue)
        \/ Len(queue') = 0 /\ drops' = drops + Len(queue) + 1
    BY <1>3, OverflowOutcome
  <2>2. /\ npc = "enqueue" /\ npc' = "run" /\ running' = running
        /\ packets' = packets /\ taken' = taken
    BY <1>3 DEF EnqueueOverflow, Enqueueing
  <2>3. /\ Len(queue) \in Nat
        /\ drops' + Len(queue') = drops + Len(queue) + 1
    <3> HIDE DEF IInv, TypeOK, ThreadType, DecoderType, ThreadInv, DropsAccounted, NewestQueued
    <3>1. Len(queue) \in Nat /\ drops \in Nat
      BY DEF IInv, TypeOK
    <3> HIDE DEF QueueType, IInv, TypeOK
    <3>2. CASE Len(queue') = 1 /\ drops' = drops + Len(queue)
      BY <3>1, <3>2
    <3>3. CASE Len(queue') = 0 /\ drops' = drops + Len(queue) + 1
      BY <3>1, <3>3
    <3> QED
      BY <2>1, <3>1, <3>2, <3>3
  <2> HIDE DEF IInv, TypeOK, ThreadType, ThreadInv
  <2>4. /\ taken \in Nat /\ packets \in Nat /\ drops \in Nat /\ drops' \in Nat
        /\ Len(queue') \in Nat /\ DropsAccounted
    BY <2>1, <2>3 DEF IInv, TypeOK
  <2> HIDE DEF QueueType, DecoderType, IInv, TypeOK
  <2> QED
    BY <2>2, <2>3, <2>4
<1>4. CASE EnqueuePush
  BY <1>4 DEF EnqueuePush, Enqueueing, PoolAfterReuse, WakeDecoder
<1>5. CASE PeerCompleted \/ NetworkExit
  BY <1>5 DEF PeerCompleted, NetworkExit
<1>6. CASE DecoderTake
  BY <1>6, QueueTail DEF DecoderTake
<1>7. CASE DecoderBlock \/ DecoderSleep \/ DecoderSpuriousWake \/ DecoderExit
  \/ DecoderSubmit \/ DecoderFinish
  BY <1>7 DEF DecoderBlock, DecoderSleep, DecoderSpuriousWake, DecoderExit,
    DecoderSubmit, DecoderFinish, RequestReset, RecycledPools
<1>8. CASE PollStallClear
  BY <1>8 DEF PollStallClear, RecycledPools
<1>9. CASE PollInitialKeyframe \/ PollStartupRetry \/ PollNoRequest \/
  PollStallCheck \/ PollStallFlag
  BY <1>9 DEF PollInitialKeyframe, RequestKeyframe, BeginPoll,
    PollStartupRetry, PollNoRequest, PollStallCheck, PollStallFlag,
    RequestReset
<1>10. CASE StopStore
  BY <1>10 DEF StopStore
<1>11. CASE StopJoin
  BY <1>11 DEF StopJoin
<1>12. CASE StopNotify \/ Stopped
  BY <1>12 DEF StopNotify, WakeDecoder, Stopped, vars
<1>13. CASE \E t \in Timers : Elapse(t)
  BY <1>13 DEF Elapse
<1>14. CASE UNCHANGED vars
  BY <1>14 DEF vars
<1> QED
  BY <1>1, <1>2, <1>3, <1>4, <1>5, <1>6, <1>7, <1>8, <1>9, <1>10, <1>11,
    <1>12, <1>13, <1>14 DEF Next, Network, Decoder, Poll, Stop

(* The arithmetic of the two steps that give a whole queue back to the pool: *)
(* p, l, b buffers in the pool, the queue and the decoder, before and after. *)
LEMMA ReuseArithmetic ==
  ASSUME NEW p \in Nat, NEW pp \in Nat, NEW l \in Nat, NEW b \in 0..1,
         NEW m \in 2..4, p + l + b <= m + 1
  PROVE  /\ pp <= p + l => pp + 0 + b <= m + 1
         /\ pp + 1 <= p + l => pp + 1 + b <= m + 1
         /\ pp = 0 => pp + 1 + b <= m + 1
OBVIOUS

(* No step makes the buffers outnumber the queue and the decoder.           *)
LEMMA BuffersStep == IInv /\ [Next]_vars => BuffersBounded'
<1> SUFFICES ASSUME IInv, [Next]_vars PROVE BuffersBounded'
  OBVIOUS
<1> USE ConstantsAssumption, MaxQueuedRange DEF IInv, TypeOK, QueueType,
  DecoderType, BuffersBounded, DecoderBusy, queueVars, decVars
<1>1. CASE EnqueueOverflow
  <2>1. PICK p \in RecycledPools(Len(queue)) :
          \/ Len(queue') = 1 /\ pool' = PoolAfterReuse(p)
          \/ Len(queue') = 0 /\ pool' = p
    BY <1>1, OverflowOutcome
  <2>2. p \in Nat /\ p <= pool + Len(queue) /\ pool \in Nat /\ Len(queue) \in Nat
    BY DEF RecycledPools
  <2>3. dpc \in {"submit", "finish"} <=> dpc' \in {"submit", "finish"}
    BY <1>1 DEF EnqueueOverflow, WakeDecoder
  <2>4. Len(queue) >= MaxQueued
    BY <1>1 DEF EnqueueOverflow
  <2>5. \/ Len(queue') = 1 /\ pool' \in Nat /\ (pool' = 0 \/ pool' + 1 <= pool + Len(queue))
        \/ Len(queue') = 0 /\ pool' \in Nat /\ pool' <= pool + Len(queue)
    BY <2>1, <2>2 DEF PoolAfterReuse
  <2>6. MaxQueued >= 2 /\ MaxQueued \in Nat
    OBVIOUS
  <2> HIDE DEF DecoderBusy, IInv, TypeOK, QueueType, DecoderType
  <2>7. DecoderBusy' <=> DecoderBusy
    BY <2>3 DEF DecoderBusy
  <2>8. BuffersBounded
    BY DEF IInv
  <2> QED
    <3> DEFINE b == IF DecoderBusy THEN 1 ELSE 0
    <3>1. b' = b /\ b \in 0..1
      BY <2>7
    <3>2. pool + Len(queue) + b <= MaxQueued + 1
      BY <2>8 DEF BuffersBounded
    <3> HIDE DEF b, BuffersBounded
    <3>3. pool' + Len(queue') + b <= MaxQueued + 1
      <4>1. /\ pool' <= pool + Len(queue) => pool' + 0 + b <= MaxQueued + 1
            /\ pool' + 1 <= pool + Len(queue) => pool' + 1 + b <= MaxQueued + 1
            /\ pool' = 0 => pool' + 1 + b <= MaxQueued + 1
        BY <2>2, <2>5, <3>1, <3>2, MaxQueuedRange, ReuseArithmetic, Zenon
      <4> QED
        BY <2>5, <4>1, Zenon
    <3> QED
      BY <3>1, <3>3 DEF b, BuffersBounded
<1>2. CASE EnqueuePush
  BY <1>2 DEF EnqueuePush, Enqueueing, PoolAfterReuse, WakeDecoder
<1>3. CASE (\E idr \in BOOLEAN : Deliver(idr)) \/ EnqueueSkip \/ PeerCompleted
  \/ NetworkExit
  BY <1>3 DEF Deliver, EnqueueSkip, Enqueueing, PeerCompleted, NetworkExit
<1>4. CASE DecoderTake
  BY <1>4 DEF DecoderTake
<1>5. CASE DecoderFinish
  BY <1>5 DEF DecoderFinish, RequestReset, RecycledPools
<1>6. CASE DecoderBlock \/ DecoderSleep \/ DecoderSpuriousWake \/ DecoderExit
  \/ DecoderSubmit
  BY <1>6 DEF DecoderBlock, DecoderSleep, DecoderSpuriousWake, DecoderExit,
    DecoderSubmit
<1>7. CASE PollStallClear
  <2>1. /\ queue' = <<>> /\ dpc' = dpc
        /\ pool' \in Nat /\ pool' <= pool + Len(queue)
    BY <1>7 DEF PollStallClear, RecycledPools
  <2>2. Len(queue') = 0 /\ Len(queue) \in Nat
    BY <2>1
  <2> DEFINE b == IF DecoderBusy THEN 1 ELSE 0
  <2>3. b' = b /\ b \in 0..1 /\ pool \in Nat
    BY <2>1
  <2>4. pool + Len(queue) + b <= MaxQueued + 1
    BY DEF IInv
  <2> HIDE DEF b, IInv, TypeOK, QueueType, DecoderType, DecoderBusy, BuffersBounded
  <2>5. pool' + Len(queue') + b <= MaxQueued + 1
    <3>1. pool' + 0 + b <= MaxQueued + 1
      BY <2>1, <2>2, <2>3, <2>4, MaxQueuedRange, ReuseArithmetic, Zenon
    <3> QED
      BY <3>1, <2>2, Zenon
  <2> QED
    BY <2>3, <2>5 DEF b, BuffersBounded
<1>8. CASE PollInitialKeyframe \/ PollStartupRetry \/ PollNoRequest \/
  PollStallCheck \/ PollStallFlag
  BY <1>8 DEF PollInitialKeyframe, RequestKeyframe, BeginPoll,
    PollStartupRetry, PollNoRequest, PollStallCheck, PollStallFlag,
    RequestReset
<1>9. CASE StopJoin
  BY <1>9 DEF StopJoin
<1>10. CASE StopStore \/ StopNotify \/ Stopped
  BY <1>10 DEF StopStore, StopNotify, WakeDecoder, Stopped, vars
<1>11. CASE \E t \in Timers : Elapse(t)
  BY <1>11 DEF Elapse
<1>12. CASE UNCHANGED vars
  BY <1>12 DEF vars
<1> QED
  BY <1>1, <1>2, <1>3, <1>4, <1>5, <1>6, <1>7, <1>8, <1>9, <1>10, <1>11, <1>12
    DEF Next, Network, Decoder, Poll, Stop

(* A later arrival changes nothing in the order of the queue.               *)
LEMMA OrderKept ==
  ASSUME QueueType, ArrivalOrder, fed \in Nat, NewestQueued \in Int,
         queue' = queue, fed' = fed,
         NewestQueued' \in Int, NewestQueued <= NewestQueued'
  PROVE  ArrivalOrder'
<1>1. \A i \in 1..Len(queue) : queue[i].seq \in Nat
  BY QueuedNumber
<1>2. /\ \A i \in 1..Len(queue) : fed < queue[i].seq /\ queue[i].seq <= NewestQueued
      /\ \A i, j \in 1..Len(queue) : i < j => queue[i].seq < queue[j].seq
      /\ fed <= NewestQueued
  BY DEF ArrivalOrder
<1>3. \A i \in 1..Len(queue) : queue[i].seq <= NewestQueued'
  BY <1>1, <1>2
<1>4. fed <= NewestQueued'
  BY <1>2
<1> QED
  BY <1>2, <1>3, <1>4 DEF ArrivalOrder

(* No step reorders the queue or queues an old unit.                        *)
LEMMA ArrivalOrderStep == IInv /\ [Next]_vars => ArrivalOrder'
<1> SUFFICES ASSUME IInv, [Next]_vars PROVE ArrivalOrder'
  OBVIOUS
<1> USE DEF IInv, TypeOK, QueueType, ThreadType, DecoderType, ThreadInv,
  ArrivalOrder, NewestQueued, Unit, queueVars, decVars, stopVars
<1>1. CASE \E idr \in BOOLEAN : Deliver(idr)
  <2>1. queue' = queue /\ fed' = fed
    BY <1>1 DEF Deliver
  <2>2. NewestQueued' \in Nat /\ NewestQueued' >= NewestQueued
    BY <1>1 DEF Deliver
  <2>3. NewestQueued \in Int /\ NewestQueued <= NewestQueued' /\ NewestQueued' \in Int
    BY <2>2
  <2> QED
    BY <2>1, <2>3, OrderKept, Zenon
<1>2. CASE EnqueueSkip
  <2>1. queue' = queue /\ fed' = fed
    BY <1>2 DEF EnqueueSkip
  <2>2. NewestQueued' \in Nat /\ NewestQueued' >= NewestQueued
    BY <1>2 DEF EnqueueSkip, Enqueueing
  <2>3. NewestQueued \in Int /\ NewestQueued <= NewestQueued' /\ NewestQueued' \in Int
    BY <2>2
  <2> QED
    BY <2>1, <2>3, OrderKept, Zenon
<1>3. CASE EnqueueOverflow
  BY <1>3 DEF EnqueueOverflow, Enqueueing, RequestReset, RecycledPools,
    PoolAfterReuse, WakeDecoder
<1>4. CASE EnqueuePush
  <2> DEFINE u == [seq |-> packets, idr |-> arriving]
  <2>1. /\ queue' = Append(queue, u) /\ u.seq = packets /\ fed' = fed
        /\ NewestQueued = packets - 1 /\ NewestQueued' = packets
    BY <1>4 DEF EnqueuePush, Enqueueing
  <2> HIDE DEF u
  <2>2. /\ Len(queue') = Len(queue) + 1 /\ Len(queue) \in Nat
        /\ queue'[Len(queue) + 1] = u
        /\ \A i \in 1..Len(queue) : queue'[i] = queue[i]
    BY <2>1
  <2>3. /\ packets \in Nat /\ fed \in Nat /\ \A i \in 1..Len(queue) : queue[i].seq \in Nat
        /\ fed <= packets - 1
        /\ \A i \in 1..Len(queue) : fed < queue[i].seq /\ queue[i].seq <= packets - 1
    BY <2>1, QueuedNumber, ConstantsAssumption
  <2>4. \A i, j \in 1..Len(queue) : i < j => queue[i].seq < queue[j].seq
    OBVIOUS
  <2> HIDE DEF IInv, TypeOK, QueueType, ThreadType, DecoderType, ThreadInv, NewestQueued
  <2>5. fed' <= NewestQueued'
    BY <2>1, <2>3
  <2>6. \A i \in 1..Len(queue') : fed' < queue'[i].seq /\ queue'[i].seq <= NewestQueued'
    BY <2>1, <2>2, <2>3
  <2>7. ASSUME NEW i \in 1..Len(queue'), NEW j \in 1..Len(queue'), i < j
        PROVE  queue'[i].seq < queue'[j].seq
    <3>1. i \in 1..Len(queue) /\ queue'[i] = queue[i]
      BY <2>2, <2>7
    <3>2. CASE j = Len(queue) + 1
      BY <2>1, <2>2, <2>3, <3>1, <3>2
    <3>3. CASE j # Len(queue) + 1
      <4>1. j \in 1..Len(queue) /\ queue'[j] = queue[j]
        BY <2>2, <3>3
      <4> QED
        BY <2>4, <2>7, <3>1, <4>1
    <3> QED
      BY <3>2, <3>3
  <2> QED
    BY <2>5, <2>6, <2>7
<1>5. CASE PeerCompleted \/ NetworkExit
  BY <1>5 DEF PeerCompleted, NetworkExit
<1>6. CASE DecoderTake
  BY <1>6 DEF DecoderTake
<1>7. CASE DecoderBlock \/ DecoderSleep \/ DecoderSpuriousWake \/ DecoderExit
  \/ DecoderSubmit \/ DecoderFinish
  BY <1>7 DEF DecoderBlock, DecoderSleep, DecoderSpuriousWake, DecoderExit,
    DecoderSubmit, DecoderFinish, RequestReset, RecycledPools
<1>8. CASE PollStallClear
  BY <1>8 DEF PollStallClear, RecycledPools
<1>9. CASE PollInitialKeyframe \/ PollStartupRetry \/ PollNoRequest \/
  PollStallCheck \/ PollStallFlag
  BY <1>9 DEF PollInitialKeyframe, RequestKeyframe, BeginPoll,
    PollStartupRetry, PollNoRequest, PollStallCheck, PollStallFlag,
    RequestReset
<1>10. CASE StopJoin
  BY <1>10 DEF StopJoin
<1>11. CASE StopStore \/ StopNotify \/ Stopped
  BY <1>11 DEF StopStore, StopNotify, WakeDecoder, Stopped, vars
<1>12. CASE \E t \in Timers : Elapse(t)
  BY <1>12 DEF Elapse
<1>13. CASE UNCHANGED vars
  BY <1>13 DEF vars
<1> QED
  BY <1>1, <1>2, <1>3, <1>4, <1>5, <1>6, <1>7, <1>8, <1>9, <1>10, <1>11,
    <1>12, <1>13 DEF Next, Network, Decoder, Poll, Stop

(* No step opens a gap without raising the resync flag.                     *)
LEMMA GapStep == IInv /\ [Next]_vars => GapGuarded'
<1> SUFFICES ASSUME IInv, [Next]_vars PROVE GapGuarded'
  OBVIOUS
<1> USE DEF IInv, TypeOK, QueueType, ThreadType, DecoderType, FlagType,
  ThreadInv, GapGuarded, GapOpen, NewestKept, NewestQueued, Unit, queueVars,
  decVars, stopVars, flagVars
<1>1. CASE \E idr \in BOOLEAN : Deliver(idr)
  BY <1>1 DEF Deliver
<1>2. CASE EnqueueSkip
  BY <1>2 DEF EnqueueSkip, Enqueueing
<1>3. CASE EnqueueOverflow
  BY <1>3 DEF EnqueueOverflow, Enqueueing, RequestReset, RecycledPools,
    PoolAfterReuse, WakeDecoder
<1>4. CASE EnqueuePush
  BY <1>4 DEF EnqueuePush, Enqueueing, PoolAfterReuse, WakeDecoder
<1>5. CASE PeerCompleted \/ NetworkExit
  BY <1>5 DEF PeerCompleted, NetworkExit
<1>6. CASE DecoderTake
  <2>1. /\ queue' = Tail(queue) /\ fed' = Head(queue).seq /\ queue # <<>>
        /\ UNCHANGED <<packets, npc, running, resync, staleClear, upc>>
    BY <1>6 DEF DecoderTake
  <2>2. NewestKept = queue[Len(queue)].seq
    BY <2>1
  <2>3. NewestKept' = IF Tail(queue) = <<>> THEN Head(queue).seq
                      ELSE Tail(queue)[Len(Tail(queue))].seq
    BY <2>1
  <2> HIDE DEF NewestKept, IInv, TypeOK, ThreadType, DecoderType, FlagType,
               ThreadInv, Unit
  <2>4. QueueType
    BY DEF IInv, TypeOK
  <2> HIDE DEF QueueType
  <2>5. CASE Tail(queue) = <<>>
    <3>1. Len(queue) = 1 /\ Head(queue) = queue[1]
      BY <2>1, <2>4, <2>5, QueueTail
    <3> QED
      BY <2>2, <2>3, <2>5, <3>1, <2>1 DEF IInv
  <2>6. CASE Tail(queue) # <<>>
    <3>1. Tail(queue)[Len(Tail(queue))] = queue[Len(queue)]
      BY <2>1, <2>4, <2>6, QueueTail
    <3> QED
      BY <2>2, <2>3, <2>6, <3>1, <2>1 DEF IInv
  <2> QED
    BY <2>5, <2>6
<1>7. CASE DecoderFinish
  BY <1>7 DEF DecoderFinish, RequestReset, RecycledPools
<1>8. CASE DecoderBlock \/ DecoderSleep \/ DecoderSpuriousWake \/ DecoderExit
  \/ DecoderSubmit
  BY <1>8 DEF DecoderBlock, DecoderSleep, DecoderSpuriousWake, DecoderExit,
    DecoderSubmit
<1>9. CASE PollStallClear
  BY <1>9 DEF PollStallClear, RecycledPools
<1>10. CASE PollStallFlag
  BY <1>10 DEF PollStallFlag, RequestReset, RequestKeyframe
<1>11. CASE PollInitialKeyframe \/ PollStartupRetry \/ PollNoRequest \/
  PollStallCheck
  BY <1>11 DEF PollInitialKeyframe, RequestKeyframe, BeginPoll,
    PollStartupRetry, PollNoRequest, PollStallCheck
<1>12. CASE StopStore
  BY <1>12 DEF StopStore
<1>13. CASE StopJoin
  BY <1>13 DEF StopJoin
<1>14. CASE StopNotify \/ Stopped
  BY <1>14 DEF StopNotify, WakeDecoder, Stopped, vars
<1>15. CASE \E t \in Timers : Elapse(t)
  BY <1>15 DEF Elapse
<1>16. CASE UNCHANGED vars
  BY <1>16 DEF vars
<1> QED
  BY <1>1, <1>2, <1>3, <1>4, <1>5, <1>6, <1>7, <1>8, <1>9, <1>10, <1>11,
    <1>12, <1>13, <1>14, <1>15, <1>16 DEF Next, Network, Decoder, Poll, Stop

(* The conjunction is inductive.                                            *)
LEMMA IInvStep == IInv /\ [Next]_vars => IInv'
<1> SUFFICES ASSUME IInv, [Next]_vars PROVE IInv'
  OBVIOUS
<1>1. TypeOK' /\ ThreadInv' /\ TeardownAfterJoin'
  BY TypeStep, ThreadInvStep, TeardownStep
<1>2. ArrivalOrder' /\ DropsAccounted' /\ BuffersBounded' /\ GapGuarded'
  BY ArrivalOrderStep, DropsStep, BuffersStep, GapStep
<1> QED
  BY <1>1, <1>2 DEF IInv

(* Every behaviour of the decode queue satisfies the inductive invariant.   *)
LEMMA Invariance == Spec => []IInv
BY InitIInv, IInvStep, PTL DEF Spec

(* The queue keeps its limit, the pool kPoolLimit, and every variable its   *)
(* type, at every frame rate.                                               *)
THEOREM TypeCorrect == Spec => []TypeOK
<1>1. IInv => TypeOK
  BY DEF IInv
<1> QED
  BY <1>1, Invariance, PTL

(* Whatever overflows and stall recoveries do, the decoder gets access units *)
(* in arrival order and each at most once.                                  *)
THEOREM UnitsInOrder == Spec => []ArrivalOrder
<1>1. IInv => ArrivalOrder
  BY DEF IInv
<1> QED
  BY <1>1, Invariance, PTL

(* While the worker runs, decoder_queue_drops_ is exactly the number of units *)
(* that arrived and are neither queued nor popped.                          *)
THEOREM EveryUnitCounted == Spec => []DropsAccounted
<1>1. IInv => DropsAccounted
  BY DEF IInv
<1> QED
  BY <1>1, Invariance, PTL

(* The queue, the pool and the decoder never hold more access-unit buffers  *)
(* than a full queue and one.                                               *)
THEOREM MemoryBounded == Spec => []BuffersBounded
<1>1. IInv => BuffersBounded
  BY DEF IInv
<1> QED
  BY <1>1, Invariance, PTL

(* A loss inside the client raises the resync flag, and nothing lowers it   *)
(* while the gap is open but the decoding of an older keyframe.             *)
THEOREM GapsGuarded == Spec => []GapGuarded
<1>1. IInv => GapGuarded
  BY DEF IInv
<1> QED
  BY <1>1, Invariance, PTL

(* stop() frees the queue and the decoder only after both threads ended.    *)
THEOREM TeardownIsLast == Spec => []TeardownAfterJoin
<1>1. IInv => TeardownAfterJoin
  BY DEF IInv
<1> QED
  BY <1>1, Invariance, PTL
=============================================================================
