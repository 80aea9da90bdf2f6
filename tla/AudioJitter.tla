------------------------------ MODULE AudioJitter ------------------------------
(***************************************************************************)
(* The audio pipeline (AudioPipeline.cpp): the network thread puts packets *)
(* in order into a jitter buffer, the audio thread takes the one it        *)
(* expects, a redundant copy of it, or conceals it, and gives frames to    *)
(* the device.  The first frame decoded in an epoch fixes the clock that   *)
(* pictures are shown by; a gap in the transport starts a new epoch.       *)
(*                                                                         *)
(* A packet is its number in the stream, from which it has its timestamp   *)
(* (one frame each) and its sequence number, which wraps around.  The      *)
(* network delays, reorders and loses packets; SRTP rejects a duplicate.   *)
(* The model has no jitter hold: the wait for it gives up after 12 ms, and *)
(* a buffer that is full enough is then taken from all the same.           *)
(***************************************************************************)
EXTENDS Integers, Sequences, SequencesExt

CONSTANTS
  Modulus,     \* sequence numbers are 0..Modulus-1 (2^16)
  Start,       \* sequence number of packet 0
  MaxPackets,  \* kMaxPackets (12)
  Prime,       \* prime_packets and output_start_buffers (4)
  OutputLimit, \* output_queue_limit (6)
  MaxJump,     \* the jump that starts an epoch (48)
  MaxSent      \* bound of the model: packets of the stream

ASSUME ConstantsAssumption ==
  /\ {Modulus, Start, MaxPackets, Prime, OutputLimit, MaxJump, MaxSent} \subseteq Nat
  /\ 1 <= Prime /\ Prime <= MaxPackets /\ Prime <= OutputLimit
  /\ 2 <= Modulus

VARIABLES
  running,
  packets,   \* packets, each its number and whether it has a redundant copy
  expected,  \* expected_sequence
  primed,    \* primed and have_expected, which change together
  resetReq,  \* reset_epoch_requested
  pc,        \* audio thread: where it is
  unit,      \* what it took: a packet's number, or 0 for a gap
  submitted, \* submitted_samples, in frames
  queued,    \* queued_output_buffers
  started,   \* output_started
  haveBase, base, \* have_base_timestamp, base_timestamp
  arrived,   \* history: packets the network has delivered
  next,      \* history: the number of the packet expected
  missing    \* history: frames the device did not get since the base was set

bufferVars == <<packets, expected, primed, resetReq, next>>
deviceVars == <<submitted, queued, started, missing>>
clockVars  == <<haveBase, base>>
vars == <<running, bufferVars, pc, unit, deviceVars, clockVars, arrived>>

Numbers == 1..MaxSent

SequenceOf(n) == (Start + n) % Modulus

(* Mutant: sequence numbers are compared without regard to the wraparound. *)
MutantDelta(a, b) == a - b

(* int16_t(a - b)                                                           *)
Delta(a, b) ==
  LET d == (a - b) % Modulus IN IF 2 * d >= Modulus THEN d - Modulus ELSE d

-----------------------------------------------------------------------------
(* The network thread: submit                                               *)

(* ShouldResetEpoch                                                         *)
Jumps(n) == primed /\ Delta(SequenceOf(n), expected) > MaxJump

(* Mutant: a packet that comes too late is queued. *)
MutantLate(n) == FALSE

Late(n) == Delta(SequenceOf(n), expected) < 0

Full(q) == Len(q) >= MaxPackets

(* Before the first packet that is newer; the oldest makes room.            *)
Inserted(q, packet) ==
  LET room == IF Full(q) THEN Tail(q) ELSE q
      newer(p) == Delta(SequenceOf(packet.n), SequenceOf(p.n)) < 0
      i == SelectInSeq(room, newer)
  IN  IF i = 0 THEN Append(room, packet) ELSE InsertAt(room, i, packet)

(* What the sequence number of a packet is compared with.  A packet that   *)
(* does not start an epoch follows another within 500 ms, and half of the  *)
(* sequence numbers are minutes: they are less than half of them apart.    *)
Compared == {packets[i].n : i \in 1..Len(packets)} \cup (IF primed THEN {next} ELSE {})

Near(a, b) == 2 * (a - b) < Modulus /\ 2 * (b - a) < Modulus

InReach(n) == \A m \in Compared : Near(n, m)

Receive(n) ==
  /\ running
  /\ n \notin arrived
  /\ arrived' = arrived \cup {n}
  /\ UNCHANGED <<running, pc, unit, deviceVars, clockVars>>

(* More than 500 ms without a packet, or a jump: a new epoch.               *)
SubmitReset(n, red) ==
  /\ arrived # {}
  /\ Receive(n)
  /\ packets' = <<[n |-> n, red |-> red]>>
  /\ primed' = FALSE
  /\ resetReq' = TRUE
  /\ UNCHANGED <<expected, next>>

SubmitLate(n) ==
  /\ primed
  /\ Late(n)
  /\ InReach(n)
  /\ Receive(n)
  /\ UNCHANGED bufferVars

SubmitInsert(n, red) ==
  /\ ~(primed /\ (Jumps(n) \/ Late(n)))
  /\ InReach(n)
  /\ Receive(n)
  /\ packets' = Inserted(packets, [n |-> n, red |-> red])
  /\ UNCHANGED <<expected, primed, resetReq, next>>

-----------------------------------------------------------------------------
(* The audio thread: run                                                    *)

InitializeAudio ==
  /\ pc = "init"
  /\ \/ pc' = "loop" /\ UNCHANGED running
     \/ pc' = "failed" /\ running' = FALSE
  /\ UNCHANGED <<bufferVars, unit, deviceVars, clockVars, arrived>>

(* Mutant: the clock of the epoch before is kept. *)
MutantResetMediaEpoch == UNCHANGED haveBase

(* reset_media_epoch: the frames in the device are left to it.              *)
ResetMediaEpoch == haveBase' = FALSE

Loop ==
  /\ pc = "loop"
  /\ running
  /\ pc' = "take"
  /\ resetReq' = FALSE
  /\ IF resetReq THEN ResetMediaEpoch ELSE UNCHANGED haveBase
  /\ UNCHANGED <<running, packets, expected, primed, next, unit, deviceVars, base,
                 arrived>>

(* take_next, with the mutex held again after the wait or its 12 ms.        *)
TakeNothing ==
  /\ pc = "take"
  /\ ~running \/ packets = <<>> \/ (~primed /\ Len(packets) < Prime)
  /\ pc' = "loop"
  /\ UNCHANGED <<running, bufferVars, unit, deviceVars, clockVars, arrived>>

(* Full enough, the buffer is primed with its oldest packet.                *)
Wanted     == IF primed THEN expected ELSE SequenceOf(Head(packets).n)
WantedNext == IF primed THEN next ELSE Head(packets).n

IsAt(i, sequence) == SequenceOf(packets[i].n) = sequence

Found == {i \in 1..Len(packets) : IsAt(i, Wanted)}

(* The packet after it that may carry a copy of it.                         *)
Carriers ==
  {i \in 1..Len(packets) : IsAt(i, (Wanted + 1) % Modulus) /\ packets[i].red}

TakeNext ==
  /\ pc = "take"
  /\ running
  /\ packets # <<>>
  /\ primed \/ Len(packets) >= Prime
  /\ pc' = "play"
  /\ primed' = TRUE
  /\ expected' = (Wanted + 1) % Modulus
  /\ next' = WantedNext + 1
  /\ UNCHANGED <<running, resetReq, deviceVars, clockVars, arrived>>

TakePacket ==
  /\ TakeNext
  /\ \E i \in Found :
       /\ unit' = packets[i].n
       /\ packets' = RemoveAt(packets, i)

(* The copy is taken from the packet after it, which stays.                 *)
TakeRedundant ==
  /\ TakeNext
  /\ Found = {}
  /\ \E i \in Carriers : unit' = packets[i].n - 1
  /\ UNCHANGED packets

TakeGap ==
  /\ TakeNext
  /\ Found = {}
  /\ Carriers = {}
  /\ unit' = 0
  /\ UNCHANGED packets

(* submit_pcm: dropped at the limit of the queue, or by the device, which   *)
(* is started when enough is queued or when it refuses a buffer.            *)
Output(before) ==
  /\ \/ /\ running
        /\ queued < OutputLimit
        /\ submitted' = submitted + 1
        /\ queued' = queued + 1
        /\ missing' = before
     \/ /\ missing' = before + 1
        /\ UNCHANGED <<submitted, queued>>
  /\ started' \in {started, TRUE}

(* A gap, or a packet that cannot be decoded.                               *)
Conceal ==
  /\ pc = "play"
  /\ Output(missing)
  /\ pc' = "loop"
  /\ UNCHANGED <<running, bufferVars, unit, clockVars, arrived>>

(* Mutant: what was queued before the first packet is forgotten. *)
MutantAudioTimelineBase(n) == n

AudioTimelineBase(n) == n - submitted

(* The first packet that is decoded in an epoch fixes the clock.            *)
DecodeFirst ==
  /\ pc = "play"
  /\ unit # 0
  /\ ~haveBase
  /\ haveBase' = TRUE
  /\ base' = AudioTimelineBase(unit)
  /\ Output(0)
  /\ pc' = "loop"
  /\ UNCHANGED <<running, bufferVars, unit, arrived>>

Decode ==
  /\ pc = "play"
  /\ unit # 0
  /\ haveBase
  /\ Output(missing)
  /\ pc' = "loop"
  /\ UNCHANGED <<running, bufferVars, unit, clockVars, arrived>>

Exit ==
  /\ pc = "loop"
  /\ ~running
  /\ pc' = "exited"
  /\ UNCHANGED <<running, bufferVars, unit, deviceVars, clockVars, arrived>>

-----------------------------------------------------------------------------
(* The device and the UI thread, which has joined the network thread        *)

PlayBuffer ==
  /\ started
  /\ queued > 0
  /\ queued' = queued - 1
  /\ UNCHANGED <<running, bufferVars, pc, unit, submitted, started, missing,
                 clockVars, arrived>>

Stop ==
  /\ running
  /\ running' = FALSE
  /\ UNCHANGED <<bufferVars, pc, unit, deviceVars, clockVars, arrived>>

Join ==
  /\ pc = "exited"
  /\ pc' = "joined"
  /\ packets' = <<>>
  /\ UNCHANGED <<running, expected, primed, resetReq, next, unit, deviceVars,
                 clockVars, arrived>>

Ended ==
  /\ pc \in {"failed", "joined"} /\ ~running
  /\ UNCHANGED vars

Init ==
  /\ running = TRUE
  /\ packets = <<>> /\ expected = 0 /\ primed = FALSE /\ resetReq = FALSE
  /\ next = 0
  /\ pc = "init" /\ unit = 0
  /\ submitted = 0 /\ queued = 0 /\ started = FALSE /\ missing = 0
  /\ haveBase = FALSE /\ base = 0
  /\ arrived = {}

Submit ==
  \E n \in Numbers :
    SubmitLate(n) \/ \E red \in BOOLEAN : SubmitReset(n, red) \/ SubmitInsert(n, red)

Run ==
  \/ InitializeAudio \/ Loop \/ Exit
  \/ TakeNothing \/ TakePacket \/ TakeRedundant \/ TakeGap
  \/ Conceal \/ DecodeFirst \/ Decode

Next == Submit \/ Run \/ PlayBuffer \/ Stop \/ Join \/ Ended

Spec == Init /\ [][Next]_vars
-----------------------------------------------------------------------------
(* Properties                                                               *)

(* Every variable keeps its type; the buffer has its limit.                 *)
TypeOK ==
  /\ {running, primed, resetReq, started, haveBase} \subseteq BOOLEAN
  /\ packets \in Seq([n : Numbers, red : BOOLEAN]) /\ Len(packets) <= MaxPackets
  /\ expected \in 0..(Modulus - 1) /\ next \in 0..(MaxSent + 1)
  /\ pc \in {"init", "failed", "loop", "take", "play", "exited", "joined"}
  /\ unit \in 0..MaxSent
  /\ {submitted, missing} \subseteq Nat /\ queued \in 0..OutputLimit
  /\ base \in Int
  /\ arrived \subseteq Numbers

(* The buffer is in the order of the stream, whatever the network did to it *)
(* and wherever the sequence numbers wrap around; and once it is primed it  *)
(* holds nothing older than what is expected, which would never leave it    *)
(* and keep take_next from waiting, so that gap after gap is concealed.     *)
BufferOrdered ==
  /\ TypeOK
  /\ \A i, j \in 1..Len(packets) : i < j => packets[i].n < packets[j].n
  /\ primed => \A i \in 1..Len(packets) : packets[i].n >= next
  /\ primed => expected = SequenceOf(next)

(* A packet that is refused as late is before the one expected in the       *)
(* stream, although only wrapped sequence numbers are compared.  (It was    *)
(* played, recovered or concealed, or it is older than the packet the       *)
(* buffer was primed with, or was pushed out of the full buffer.)           *)
LateIsPast == [][\A n \in Numbers : SubmitLate(n) => n < next]_vars

(* The clock of an epoch: base_timestamp and the frames submitted give the  *)
(* timestamp of the frame that comes next, behind by exactly the frames     *)
(* that did not get into the device; through gaps, concealment, redundant   *)
(* copies and the epoch before, which the device may still be playing.      *)
ClockExact ==
  haveBase /\ primed /\ ~resetReq /\ pc \in {"loop", "take"} =>
    base + submitted + missing = next
=============================================================================
