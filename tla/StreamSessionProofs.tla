-------------------------- MODULE StreamSessionProofs --------------------------
(***************************************************************************)
(* Proofs, for any number of candidates, of messages and any size of       *)
(* libpeer's table, of the safety properties of StreamSession.             *)
(*                                                                         *)
(* One negotiation is enough for all of it: webrtc_started_ is never taken *)
(* back, so each stage of start_webrtc_media is passed at most once, and   *)
(* what a stage establishes stays.                                         *)
(*                                                                         *)
(* The second part is about the gamepad, whose messages take the session's *)
(* control socket (ControllerInput): for any inputs and positions, however *)
(* often it is connected, what the server knows of it.                     *)
(***************************************************************************)
EXTENDS StreamSession, ControllerInput, TLAPS, FiniteSetTheorems, SequenceTheorems

Fresh       == {"fetch", "create", "offer"}
Unanswered  == Fresh \cup {"call", "answer"}
Negotiating == Unanswered \cup {"flush"}

(* The variables that keep their type whatever the order of the steps.     *)
Types ==
  /\ upc \in {"connect", "idle", "drain", "frames", "grace", "fetch", "create",
              "offer", "call", "answer", "flush", "input", "end", "joinIce",
              "joinNet", "close", "stopped"}
  /\ ret \in {"frames", "input"}
  /\ sock \in {"none", "open", "dead"}
  /\ wire \in Seq(Frames) /\ rx \in Seq(Frames)
  /\ sent \in 0..MaxFrames
  /\ {alive, hangup, asked, started, burst, graceUp, engineSeen, canSend,
      registered, iceRun, netRun, video, stopReq} \subseteq BOOLEAN
  /\ peer \in PeerStates
  /\ table \in [Remote -> Nat]
  /\ {offered, added, batch} \subseteq SUBSET Remote
  /\ ipc \in {"none", "fetch", "add", "done"}
  /\ npc \in {"run", "exited"}

(* The negotiation has begun once, or not at all, and with a cause.        *)
Gate ==
  /\ negotiations = IF started THEN 1 ELSE 0
  /\ upc \in Negotiating => started
  /\ started => engineSeen \/ (burst /\ graceUp)

(* Candidates are gathered in one stage, and posted and pending ones are   *)
(* their numbers in order.                                                 *)
Gathered ==
  /\ pending \in Seq(Nat) /\ posted \in Seq(Nat)
  /\ gathered \in 0..MaxLocal
  /\ ~started \/ upc \in Fresh => gathered = 0
  /\ gathered = Len(posted) + Len(pending)
  /\ \A i \in 1..Len(posted) : posted[i] = i
  /\ \A i \in 1..Len(pending) : pending[i] = Len(posted) + i

(* The answer has come before anything is posted, and all is posted when   *)
(* the polling begins.                                                     *)
Answered ==
  /\ upc \in {"answer", "flush"} => registered
  /\ canSend => started /\ registered /\ upc \notin Unanswered
  /\ posted # <<>> => canSend
  /\ ipc # "none" => started /\ pending = <<>> /\ upc \notin Negotiating

(* What has been joined stays so.                                          *)
Joined ==
  /\ upc \in {"joinNet", "close", "stopped"} => ipc \in {"none", "done"} /\ ~iceRun
  /\ upc \in {"close", "stopped"} => npc = "exited"

IInv == Types /\ Gate /\ Gathered /\ Answered /\ Joined

-----------------------------------------------------------------------------
(* A sequence goes on being one.                                           *)
LEMMA Drained ==
  ASSUME NEW S, NEW w \in Seq(S), NEW r \in Seq(S), NEW n \in 0..Len(w)
  PROVE  /\ r \o SubSeq(w, 1, n) \in Seq(S)
         /\ SubSeq(w, n + 1, Len(w)) \in Seq(S)
<1>1. SubSeq(w, 1, n) \in Seq(S)
  BY SubSeqProperties, LenProperties
<1>2. SubSeq(w, n + 1, Len(w)) \in Seq(S)
  BY SubSeqProperties, LenProperties
<1> QED
  BY <1>1, <1>2, ConcatProperties

(* Every variable keeps its type.                                          *)
LEMMA TypesStep == Types /\ [Next]_vars => Types'
<1> SUFFICES ASSUME Types, [Next]_vars PROVE Types'
  OBVIOUS
<1> USE DEF Types, uiVars, sockVars, gateVars, offVars, iceVars, netVars
<1>1. CASE Drain
  <2>1. PICK n \in 0..Len(wire) :
          /\ rx' = rx \o SubSeq(wire, 1, n)
          /\ wire' = SubSeq(wire, n + 1, Len(wire))
          /\ sock' = IF hangup /\ n = Len(wire) THEN "dead" ELSE sock
    BY <1>1 DEF Drain
  <2>2. rx' \in Seq(Frames) /\ wire' \in Seq(Frames)
    BY <2>1, Drained
  <2>3. sock' \in {"none", "open", "dead"}
    BY <2>1
  <2> QED
    BY <1>1, <2>2, <2>3 DEF Drain
<1>2. CASE \E kind \in Frames : ServerSend(kind)
  <2>1. PICK kind \in Frames : ServerSend(kind)
    BY <1>2
  <2>2. wire' \in Seq(Frames)
    BY <2>1, AppendProperties DEF ServerSend
  <2>3. sent' \in 0..MaxFrames
    BY <2>1, ConstantsAssumption DEF ServerSend
  <2> QED
    BY <2>1, <2>2, <2>3 DEF ServerSend
<1>3. CASE HandleEngineReady \/ HandleBurst \/ HandleGetStatus \/ HandleClose
  <2>1. rx' \in Seq(Frames)
    BY <1>3, HeadTailProperties DEF HandleEngineReady, HandleBurst, HandleGetStatus,
      HandleClose, NextFrame
  <2> QED
    BY <1>3, <2>1 DEF HandleEngineReady, HandleBurst, HandleGetStatus,
      HandleClose, StartMedia, RecordBurst, SendStatusHandshake, NextFrame
<1>4. CASE SetRemoteDescription
  <2>1. table' \in [Remote -> Nat]
    BY <1>4 DEF SetRemoteDescription
  <2> QED
    BY <1>4, <2>1 DEF SetRemoteDescription, NegotiationStep, PeerStates
<1>5. CASE IceAdd
  <2>1. PICK c \in batch :
          /\ batch' = batch \ {c}
          /\ \/ UNCHANGED <<added, table>>
             \/ /\ added' = added \cup {c}
                /\ table' = [table EXCEPT ![c] = @ + 1] \/ table' = table
    BY <1>5 DEF IceAdd
  <2>2. c \in Remote
    BY <2>1
  <2>3. table' \in [Remote -> Nat]
    BY <2>1, <2>2
  <2>4. {offered, added', batch'} \subseteq SUBSET Remote
    BY <2>1, <2>2
  <2> QED
    BY <1>5, <2>3, <2>4 DEF IceAdd
<1>6. CASE Connect \/ BeginFrame \/ FramesDone \/ GraceCheck \/ PollGamepads
  \/ UpdateStreamEnd
  BY <1>6 DEF Connect, BeginFrame, FramesDone, GraceCheck, StartMedia, PollGamepads,
    UpdateStreamEnd, BeginStop
<1>7. CASE Fetch \/ CreatePeer \/ CreateOffer \/ SendOffer
  BY <1>7 DEF Fetch, CreatePeer, CreateOffer, SendOffer, NegotiationStep, Abort,
    PeerStates
<1>8. CASE FlushCandidates
  BY <1>8 DEF FlushCandidates
<1>9. CASE Stop \/ Stopped
  BY <1>9 DEF Stop, StopIcePoll, JoinNetwork, CloseAndDestroy, Stopped, PeerStates, vars
<1>10. CASE NetworkLoop \/ VideoArrives \/ NetworkExit
  BY <1>10 DEF NetworkLoop, PeerProgress, VideoArrives, NetworkExit, PeerStates
<1>11. CASE IceFetch \/ IceSleep
  BY <1>11 DEF IceFetch, IceSleep
<1>12. CASE ServerHangup \/ GraceElapses
  BY <1>12 DEF ServerHangup, GraceElapses
<1>14. CASE \E c \in Remote : ServerGathers(c)
  <2>1. PICK c \in Remote : ServerGathers(c)
    BY <1>14
  <2>2. offered' = offered \cup {c}
    BY <2>1 DEF ServerGathers
  <2>3. offered' \subseteq Remote
    BY <2>2
  <2> QED
    BY <2>1, <2>3 DEF ServerGathers
<1>13. CASE UNCHANGED vars
  BY <1>13 DEF vars
<1> QED
  BY <1>1, <1>2, <1>3, <1>4, <1>5, <1>6, <1>7, <1>8, <1>9, <1>10, <1>11, <1>12,
    <1>13, <1>14 DEF Next, UI, Frame, Negotiation, IcePoll

-----------------------------------------------------------------------------
(* The steps that have nothing to do with the negotiation.                 *)
Others ==
  \/ Stopped \/ NetworkLoop \/ VideoArrives \/ NetworkExit
  \/ IcePoll \/ ServerHangup \/ UNCHANGED vars
  \/ \E kind \in Frames : ServerSend(kind)
  \/ \E c \in Remote : ServerGathers(c)

(* They leave alone where the UI thread is and what it has done.           *)
LEMMA OthersLeave ==
  ASSUME Others
  PROVE  UNCHANGED <<upc, ret, gateVars, offVars, iceRun, netRun, stopReq>>
BY DEF Others, Stopped, NetworkLoop, VideoArrives, NetworkExit, IcePoll, IceFetch,
  IceAdd, IceSleep, ServerHangup, ServerSend, ServerGathers, vars, uiVars, gateVars,
  offVars, iceVars, netVars

(* No step begins a second negotiation, or one without a cause.            *)
LEMMA GateStep == Types /\ Gate /\ [Next]_vars => Gate'
<1> SUFFICES ASSUME Types, Gate, [Next]_vars PROVE Gate'
  OBVIOUS
<1> USE DEF Gate, Negotiating, Unanswered, Fresh
<1>1. CASE HandleEngineReady
  <2>1. ret' \in {"frames", "input"} /\ engineSeen' = TRUE
    BY <1>1 DEF HandleEngineReady, StartMedia, Types
  <2>2. CASE started
    BY <1>1, <2>1, <2>2 DEF HandleEngineReady, StartMedia
  <2>3. CASE ~started
    BY <1>1, <2>1, <2>3 DEF HandleEngineReady, StartMedia
  <2> QED
    BY <2>2, <2>3
<1>2. CASE GraceCheck
  <2>1. CASE FallbackDue
    BY <1>2, <2>1 DEF GraceCheck, FallbackDue, StartMedia
  <2>2. CASE ~FallbackDue
    BY <1>2, <2>2 DEF GraceCheck
  <2> QED
    BY <2>1, <2>2
<1>3. CASE HandleBurst \/ HandleGetStatus \/ HandleClose
  <2>1. burst' \in {burst, TRUE} /\ UNCHANGED <<upc, started, graceUp, engineSeen, negotiations>>
    BY <1>3 DEF HandleBurst, HandleGetStatus, HandleClose, RecordBurst, uiVars, gateVars
  <2> QED
    BY <2>1
<1>4. CASE Connect \/ BeginFrame \/ Drain \/ FramesDone \/ PollGamepads
  \/ UpdateStreamEnd
  <2>1. upc' \notin Negotiating /\ UNCHANGED gateVars
    BY <1>4 DEF Connect, BeginFrame, Drain, FramesDone, PollGamepads, UpdateStreamEnd,
      BeginStop
  <2> QED
    BY <2>1 DEF gateVars
<1>5. CASE Negotiation
  <2>1. upc \in Negotiating /\ UNCHANGED gateVars
    BY <1>5 DEF Negotiation, Fetch, CreatePeer, CreateOffer, SendOffer,
      SetRemoteDescription, FlushCandidates, NegotiationStep, Abort
  <2> QED
    BY <2>1 DEF gateVars
<1>6. CASE Stop
  <2>1. upc' \notin Negotiating /\ UNCHANGED gateVars
    BY <1>6 DEF Stop, StopIcePoll, JoinNetwork, CloseAndDestroy
  <2> QED
    BY <2>1 DEF gateVars
<1>7. CASE GraceElapses
  BY <1>7 DEF GraceElapses, uiVars
<1>8. CASE Others
  BY <1>8, OthersLeave DEF gateVars
<1> QED
  BY <1>1, <1>2, <1>3, <1>4, <1>5, <1>6, <1>7, <1>8 DEF Next, UI, Frame, Others

-----------------------------------------------------------------------------
(* The steps that leave the candidates alone and enter no early stage.     *)
Calm ==
  \/ Others \/ Stop \/ GraceElapses
  \/ Connect \/ BeginFrame \/ Drain \/ FramesDone \/ PollGamepads \/ UpdateStreamEnd
  \/ HandleBurst \/ HandleGetStatus \/ HandleClose

LEMMA CalmLeaves ==
  ASSUME Calm
  PROVE  /\ UNCHANGED <<offVars, started>>
         /\ upc' = upc \/ upc' \notin Negotiating
         /\ iceRun' \in {iceRun, FALSE}
<1> USE DEF offVars, gateVars, uiVars, iceVars, Negotiating, Unanswered, Fresh
<1>1. CASE Others
  BY <1>1, OthersLeave
<1>2. CASE Stop
  BY <1>2 DEF Stop, StopIcePoll, JoinNetwork, CloseAndDestroy
<1>3. CASE Connect \/ BeginFrame \/ Drain \/ FramesDone \/ PollGamepads \/ UpdateStreamEnd
  BY <1>3 DEF Connect, BeginFrame, Drain, FramesDone, PollGamepads, UpdateStreamEnd,
    BeginStop
<1>4. CASE HandleBurst \/ HandleGetStatus \/ HandleClose \/ GraceElapses
  BY <1>4 DEF HandleBurst, HandleGetStatus, HandleClose, GraceElapses
<1> QED
  BY <1>1, <1>2, <1>3, <1>4 DEF Calm

LEMMA EveryStep ==
  ASSUME [Next]_vars
  PROVE  \/ Calm \/ HandleEngineReady \/ GraceCheck \/ Fetch \/ CreatePeer
         \/ CreateOffer \/ SendOffer \/ SetRemoteDescription \/ FlushCandidates
BY DEF Next, UI, Frame, Negotiation, Calm, Others

(* What the two triggers of a negotiation do to it.                        *)
LEMMA Triggers ==
  ASSUME Types, HandleEngineReady \/ GraceCheck
  PROVE  /\ UNCHANGED <<offVars, iceVars, netVars>>
         /\ upc \in {"frames", "grace"}
         /\ \/ started' = started /\ upc' \in {"frames", "input"}
            \/ ~started /\ started' /\ upc' = "fetch"
<1>1. CASE HandleEngineReady
  BY <1>1 DEF HandleEngineReady, StartMedia, NextFrame
<1>2. CASE GraceCheck
  <2>1. CASE FallbackDue
    BY <1>2, <2>1 DEF GraceCheck, FallbackDue, StartMedia
  <2>2. CASE ~FallbackDue
    BY <1>2, <2>2 DEF GraceCheck
  <2> QED
    BY <2>1, <2>2
<1> QED
  BY <1>1, <1>2

(* Appending n numbers to an empty buffer.                                 *)
LEMMA Numbered ==
  ASSUME NEW b \in Seq(Nat), Len(b) = 0, NEW n \in Nat
  PROVE  LET c == b \o [i \in 1..n |-> 0 + i]
         IN  c \in Seq(Nat) /\ Len(c) = n /\ \A i \in 1..n : c[i] = i
<1> DEFINE s == [i \in 1..n |-> 0 + i]
<1>1. s \in Seq(Nat) /\ Len(s) = n /\ \A i \in 1..n : s[i] = i
  <2>1. \A i \in 1..n : 0 + i \in Nat
    OBVIOUS
  <2>2. s \in [1..n -> Nat]
    BY <2>1
  <2> QED
    BY <2>2
<1>2. b = <<>>
  BY EmptySeq
<1>3. b \o s = s
  BY <1>1, <1>2, ConcatEmptySeq
<1> QED
  BY <1>1, <1>3

(* The candidates stay in order and complete.                              *)
LEMMA GatheredStep ==
  ASSUME Types, Gate, Gathered, Answered, [Next]_vars PROVE Gathered'
<1> USE DEF Gathered
<1>1. CASE Calm
  <2>1. UNCHANGED <<pending, posted, gathered, started>>
    BY <1>1, CalmLeaves DEF offVars
  <2>2. upc' = upc \/ upc' \notin Fresh
    BY <1>1, CalmLeaves DEF Negotiating, Unanswered
  <2> QED
    BY <2>1, <2>2
<1>2. CASE HandleEngineReady \/ GraceCheck
  <2>1. UNCHANGED <<pending, posted, gathered>>
    BY <1>2, Triggers DEF offVars
  <2>2. ~started' \/ upc' \in Fresh => ~started
    BY <1>2, Triggers DEF Fresh
  <2> QED
    BY <2>1, <2>2
<1>3. CASE Fetch \/ CreatePeer
  <2>1. UNCHANGED <<pending, posted, gathered, started>> /\ upc \in Fresh
    BY <1>3 DEF Fetch, CreatePeer, NegotiationStep, Abort, offVars, gateVars, Fresh
  <2> QED
    BY <2>1
<1>4. CASE CreateOffer
  <2>1. upc = "offer" /\ gathered = 0 /\ ~canSend
    BY <1>4 DEF CreateOffer, NegotiationStep, Fresh, Unanswered, Answered
  <2>2. UNCHANGED started /\ started /\ upc' \notin Fresh
    BY <1>4, <2>1 DEF CreateOffer, NegotiationStep, Abort, gateVars, Gate, Types, Fresh,
      Negotiating, Unanswered
  <2>3. CASE UNCHANGED <<pending, posted, gathered>>
    BY <2>2, <2>3
  <2>4. CASE \E n \in 0..MaxLocal :
               /\ gathered' = gathered + n
               /\ OnIceCandidates([i \in 1..n |-> gathered + i])
    <3>1. PICK n \in 0..MaxLocal :
            /\ gathered' = gathered + n
            /\ OnIceCandidates([i \in 1..n |-> gathered + i])
      BY <2>4
    <3>2. /\ gathered' = n /\ n \in Nat
          /\ posted' = posted /\ pending' = pending \o [i \in 1..n |-> 0 + i]
      <4>1. n \in Nat
        BY ConstantsAssumption
      <4>2. gathered' = n
        BY <2>1, <3>1, <4>1
      <4>3. OnIceCandidates([i \in 1..n |-> 0 + i])
        BY <2>1, <3>1
      <4>4. posted' = posted /\ pending' = pending \o [i \in 1..n |-> 0 + i]
        BY <2>1, <4>3, Zenon DEF OnIceCandidates
      <4> QED
        BY <4>1, <4>2, <4>4
    <3>3. Len(posted) = 0 /\ Len(pending) = 0
      BY <2>1, LenProperties
    <3>4. pending' \in Seq(Nat) /\ Len(pending') = n /\ \A i \in 1..n : pending'[i] = i
      BY <3>2, <3>3, Numbered
    <3> QED
      BY <2>2, <3>1, <3>2, <3>3, <3>4
  <2> QED
    BY <1>4, <2>3, <2>4 DEF CreateOffer, offVars
<1>5. CASE SendOffer \/ SetRemoteDescription
  <2>1. UNCHANGED <<pending, posted, gathered, started>> /\ started /\ upc' \notin Fresh
    BY <1>5 DEF SendOffer, SetRemoteDescription, NegotiationStep, Abort, gateVars, Gate,
      Types, Fresh, Negotiating, Unanswered
  <2> QED
    BY <2>1
<1>6. CASE FlushCandidates
  <2>1. UNCHANGED <<gathered, started>> /\ started /\ upc' \notin Fresh
    BY <1>6 DEF FlushCandidates, gateVars, Gate, Types, Fresh, Negotiating
  <2>2. CASE pending = <<>>
    <3>1. UNCHANGED <<pending, posted>>
      BY <1>6, <2>2 DEF FlushCandidates
    <3> QED
      BY <2>1, <3>1
  <2>3. CASE pending # <<>>
    <3>1. posted' = Append(posted, Head(pending)) /\ pending' = Tail(pending)
      BY <1>6, <2>3 DEF FlushCandidates, Remaining
    <3>2. /\ Len(pending) \in Nat \ {0} /\ Len(posted) \in Nat
          /\ Head(pending) \in Nat /\ Head(pending) = pending[1]
          /\ pending' \in Seq(Nat) /\ Len(pending') = Len(pending) - 1
          /\ \A i \in 1..Len(pending') : pending'[i] = pending[i + 1]
      BY <2>3, <3>1, HeadTailProperties, LenProperties, EmptySeq
    <3>3. /\ posted' \in Seq(Nat) /\ Len(posted') = Len(posted) + 1
          /\ \A i \in 1..Len(posted) : posted'[i] = posted[i]
          /\ posted'[Len(posted) + 1] = Head(pending)
      BY <3>1, <3>2, AppendProperties
    <3>4. Head(pending) = Len(posted) + 1
      BY <3>2
    <3>5. \A i \in 1..Len(posted') : posted'[i] = i
      <4> TAKE i \in 1..Len(posted')
      <4>1. CASE i \in 1..Len(posted)
        BY <3>3, <4>1
      <4>2. CASE i = Len(posted) + 1
        BY <3>3, <3>4, <4>2
      <4> QED
        BY <3>2, <3>3, <4>1, <4>2
    <3>6. \A i \in 1..Len(pending') : pending'[i] = Len(posted') + i
      BY <3>2, <3>3
    <3>7. gathered' = Len(posted') + Len(pending')
      BY <2>1, <3>2, <3>3
    <3> QED
      BY <2>1, <3>2, <3>3, <3>5, <3>6, <3>7
  <2> QED
    BY <2>2, <2>3
<1> QED
  BY <1>1, <1>2, <1>3, <1>4, <1>5, <1>6, EveryStep

(* The answer comes before the candidates, they before the polling.        *)
LEMMA AnsweredStep ==
  ASSUME Types, Gate, Answered, [Next]_vars PROVE Answered'
<1> USE DEF Answered
<1>1. CASE Calm
  <2>1. UNCHANGED <<pending, posted, canSend, registered, started>>
    BY <1>1, CalmLeaves DEF offVars
  <2>2. upc' = upc \/ upc' \notin Negotiating
    BY <1>1, CalmLeaves
  <2>3. ipc' # "none" => ipc # "none"
    BY <1>1 DEF Calm, Others, Stopped, NetworkLoop, VideoArrives, NetworkExit, IcePoll,
      IceFetch, IceAdd, IceSleep, ServerHangup, ServerSend, ServerGathers, vars, Stop,
      StopIcePoll, JoinNetwork, CloseAndDestroy, GraceElapses, Connect, BeginFrame,
      Drain, FramesDone, PollGamepads, UpdateStreamEnd, HandleBurst, HandleGetStatus,
      HandleClose, iceVars
  <2> QED
    BY <2>1, <2>2, <2>3 DEF Negotiating, Unanswered
<1>2. CASE HandleEngineReady \/ GraceCheck
  <2>1. UNCHANGED <<pending, posted, canSend, registered, ipc>>
    BY <1>2, Triggers DEF offVars, iceVars
  <2> QED
    BY <1>2, <2>1, Triggers DEF Negotiating, Unanswered, Fresh
<1>3. CASE Fetch \/ CreatePeer \/ CreateOffer \/ SendOffer \/ SetRemoteDescription
  <2>1. /\ upc \in Unanswered /\ upc' \in Negotiating \cup {ret}
        /\ UNCHANGED <<started, canSend, ipc>>
    BY <1>3 DEF Fetch, CreatePeer, CreateOffer, SendOffer, SetRemoteDescription,
      NegotiationStep, Abort, offVars, gateVars, iceVars, Unanswered, Negotiating, Fresh
  <2>2. started /\ ~canSend /\ ipc = "none" /\ posted = <<>>
    BY <2>1 DEF Gate, Types, Negotiating
  <2>3. posted' = posted
    BY <1>3, <2>2 DEF Fetch, CreatePeer, CreateOffer, OnIceCandidates, SendOffer,
      SetRemoteDescription, offVars
  <2>4. upc' \in {"answer", "flush"} => registered'
    BY <1>3 DEF Fetch, CreatePeer, CreateOffer, SendOffer, SetRemoteDescription,
      NegotiationStep, Abort, Types
  <2> QED
    BY <2>1, <2>2, <2>3, <2>4
<1>4. CASE FlushCandidates
  <2>1. /\ upc = "flush" /\ started /\ registered /\ canSend' = TRUE
        /\ UNCHANGED <<started, registered>>
    BY <1>4 DEF FlushCandidates, gateVars, Gate, Types, Negotiating
  <2>2. ipc = "none"
    BY <2>1 DEF Negotiating
  <2>3. CASE pending = <<>>
    BY <1>4, <2>1, <2>3 DEF FlushCandidates, Types, Negotiating, Unanswered, Fresh
  <2>4. CASE pending # <<>>
    BY <1>4, <2>1, <2>2, <2>4 DEF FlushCandidates, Unanswered, Fresh
  <2> QED
    BY <2>3, <2>4
<1> QED
  BY <1>1, <1>2, <1>3, <1>4, EveryStep

(* Threads that were joined do not run again.                              *)
LEMMA JoinedStep ==
  ASSUME Types, Joined, [Next]_vars PROVE Joined'
<1> USE DEF Joined
<1>1. CASE Stop
  BY <1>1 DEF Stop, StopIcePoll, JoinNetwork, CloseAndDestroy, iceVars, netVars
<1>2. CASE Others
  <2>1. upc' = upc /\ iceRun' = iceRun
    BY <1>2, OthersLeave
  <2>2. /\ ipc \in {"none", "done"} => ipc' = ipc
        /\ npc = "exited" => npc' = npc
    BY <1>2 DEF Others, Stopped, NetworkLoop, VideoArrives, NetworkExit, IcePoll,
      IceFetch, IceAdd, IceSleep, ServerHangup, ServerSend, ServerGathers, vars, iceVars,
      netVars
  <2> QED
    BY <2>1, <2>2
<1>3. CASE GraceElapses
  BY <1>3 DEF GraceElapses, uiVars, iceVars, netVars
<1>4. CASE HandleEngineReady \/ GraceCheck
  BY <1>4, Triggers
<1>5. CASE Negotiation
  <2>1. upc' \in Negotiating \cup {ret}
    BY <1>5 DEF Negotiation, Fetch, CreatePeer, CreateOffer, SendOffer,
      SetRemoteDescription, FlushCandidates, NegotiationStep, Abort, Negotiating,
      Unanswered, Fresh
  <2> QED
    BY <2>1 DEF Types, Negotiating, Unanswered, Fresh
<1>6. CASE Connect \/ BeginFrame \/ Drain \/ FramesDone \/ PollGamepads
  \/ UpdateStreamEnd \/ HandleBurst \/ HandleGetStatus \/ HandleClose
  <2>1. upc' \notin {"joinNet", "close", "stopped"}
    BY <1>6 DEF Connect, BeginFrame, Drain, FramesDone, PollGamepads, UpdateStreamEnd,
      BeginStop, HandleBurst, HandleGetStatus, HandleClose, NextFrame, uiVars
  <2> QED
    BY <2>1
<1> QED
  BY <1>1, <1>2, <1>3, <1>4, <1>5, <1>6 DEF Next, UI, Frame, Others

-----------------------------------------------------------------------------
LEMMA InitIInv == Init => IInv
<1> SUFFICES ASSUME Init PROVE IInv
  OBVIOUS
<1>1. Types
  <2>1. wire \in Seq(Frames) /\ rx \in Seq(Frames)
    BY EmptySeq DEF Init
  <2>2. table \in [Remote -> Nat]
    BY DEF Init
  <2>3. sent \in 0..MaxFrames
    BY ConstantsAssumption DEF Init
  <2>4. {offered, added, batch} \subseteq SUBSET Remote
    BY DEF Init
  <2> QED
    BY <2>1, <2>2, <2>3, <2>4 DEF Init, Types, PeerStates
<1>2. Gathered
  BY ConstantsAssumption, EmptySeq DEF Init, Gathered
<1>3. Gate /\ Answered /\ Joined
  BY DEF Init, Gate, Answered, Joined, Negotiating, Unanswered, Fresh
<1> QED
  BY <1>1, <1>2, <1>3 DEF IInv

LEMMA Invariance == Spec => []IInv
<1>1. IInv /\ [Next]_vars => IInv'
  BY TypesStep, GateStep, GatheredStep, AnsweredStep, JoinedStep DEF IInv
<1> QED
  BY <1>1, InitIInv, PTL DEF Spec

(* However the two triggers interleave, a session is negotiated once and   *)
(* with a cause (start_webrtc_media behind webrtc_started_.exchange).      *)
THEOREM NegotiatedOnce == Spec => []OneNegotiation
<1>1. IInv => OneNegotiation
  <2> SUFFICES ASSUME IInv PROVE OneNegotiation
    OBVIOUS
  <2> USE DEF IInv
  <2>1. negotiations <= 1 /\ negotiations \in Nat /\ StartJustified
    BY DEF Gate, Types, StartJustified
  <2>2. pending \in Seq(1..gathered) /\ posted \in Seq(1..gathered)
    <3>1. \A i \in 1..Len(posted) : posted[i] \in 1..gathered
      BY LenProperties DEF Gathered
    <3>2. \A i \in 1..Len(pending) : pending[i] \in 1..gathered
      BY LenProperties DEF Gathered
    <3>3. /\ pending \in [1..Len(pending) -> 1..gathered] /\ Len(pending) \in Nat
          /\ posted \in [1..Len(posted) -> 1..gathered] /\ Len(posted) \in Nat
      BY <3>1, <3>2, LenProperties DEF Gathered
    <3> QED
      BY <3>3, SeqDef
  <2>3. gathered \in Nat /\ Len(pending) + Len(posted) <= MaxLocal
    BY LenProperties, ConstantsAssumption DEF Gathered
  <2>4. TypeOK
    BY <2>1, <2>2, <2>3 DEF TypeOK, Types
  <2> QED
    BY <2>1, <2>4 DEF OneNegotiation
<1> QED
  BY <1>1, Invariance, PTL

(* Local candidates reach the server in order, after its answer, and all   *)
(* of them before its own are asked for (on_ice_candidate, and the flush   *)
(* at the end of start_webrtc_media).                                      *)
THEOREM CandidatesDelivered == Spec => []LocalCandidatesDelivered
<1>1. IInv => LocalCandidatesDelivered
  <2> SUFFICES ASSUME IInv PROVE LocalCandidatesDelivered
    OBVIOUS
  <2> USE DEF IInv
  <2>1. AnswerBeforeCandidates
    BY DEF AnswerBeforeCandidates, Answered
  <2>2. posted \o pending = [i \in 1..gathered |-> i]
    <3>1. /\ posted \o pending \in Seq(Nat)
          /\ Len(posted \o pending) = gathered
          /\ \A i \in 1..gathered : (posted \o pending)[i] = i
      <4> DEFINE both == posted \o pending
      <4>1. /\ both \in Seq(Nat) /\ Len(both) = Len(posted) + Len(pending)
            /\ \A i \in 1..(Len(posted) + Len(pending)) :
                 both[i] = IF i <= Len(posted) THEN posted[i] ELSE pending[i - Len(posted)]
        BY ConcatProperties DEF Gathered
      <4>2. Len(posted) \in Nat /\ Len(pending) \in Nat
        BY LenProperties DEF Gathered
      <4> HIDE DEF both
      <4>3. \A i \in 1..gathered : both[i] = i
        <5> SUFFICES ASSUME NEW i \in 1..gathered PROVE both[i] = i
          OBVIOUS
        <5>1. gathered = Len(posted) + Len(pending) /\ gathered \in Nat
          BY <4>2 DEF Gathered
        <5>2. both[i] = IF i <= Len(posted) THEN posted[i] ELSE pending[i - Len(posted)]
          BY <4>1, <5>1
        <5>3. CASE i <= Len(posted)
          <6>1. i \in 1..Len(posted)
            BY <4>2, <5>1, <5>3
          <6> QED BY <5>2, <5>3, <6>1 DEF Gathered
        <5>4. CASE ~(i <= Len(posted))
          <6>1. /\ i - Len(posted) \in 1..Len(pending)
                /\ Len(posted) + (i - Len(posted)) = i
            BY <4>2, <5>1, <5>4
          <6> QED BY <5>2, <5>4, <6>1 DEF Gathered
        <5> QED BY <5>3, <5>4
      <4> QED
        BY <4>1, <4>3 DEF Gathered, both
    <3>2. posted \o pending \in [1..gathered -> Nat]
      BY <3>1, LenProperties
    <3> QED
      BY <3>1, <3>2
  <2> QED
    BY <2>1, <2>2 DEF LocalCandidatesDelivered, Answered
<1> QED
  BY <1>1, Invariance, PTL

(* The peer connection is destroyed when both threads that use it have     *)
(* been joined (WebRtcSession::stop).                                      *)
THEOREM NoUseAfterTeardown == Spec => []TeardownAfterJoin
<1>1. IInv => TeardownAfterJoin
  BY DEF IInv, Joined, TeardownAfterJoin
<1> QED
  BY <1>1, Invariance, PTL

-----------------------------------------------------------------------------
(* The gamepad.                                                            *)
Controls == Inputs \cup {"axis"}
Axes     == {Scaled(position) : position \in Sticks}
Values   == {0, 1} \cup Axes
Devices  == [live : BOOLEAN, held : SUBSET Inputs, axis : Axes]

Messages ==
  [type : {"connected"}, conn : Nat]
    \cup [type : {"disconnected"}, id : Ids]
    \cup [type : {"input"}, id : Ids, input : Inputs, on : BOOLEAN]
    \cup [type : {"axis"}, id : Ids, value : Axes]

(* What a message says: of which control, of which device and what.        *)
Control(m)     == IF m.type = "axis" THEN "axis" ELSE m.input
Value(m)       == IF m.type = "axis" THEN m.value ELSE IF m.on THEN 1 ELSE 0
About(m, d, c) == m.type \in {"input", "axis"} /\ m.id = d /\ Control(m) = c

Position(device, c) ==
  IF c = "axis" THEN device.axis ELSE IF c \in device.held THEN 1 ELSE 0

Reported(c) == IF c = "axis" THEN lastAxis ELSE IF c \in last THEN 1 ELSE 0

(* The message at p is of the connection made last.                        *)
Current(s, p) == \A q \in p..Len(s) : s[q].type # "connected"

(* Once the messages s have been served, control c of the device is at v,  *)
(* when what was sent before the last connection does not count.           *)
Shows(s, device, d, c, v) ==
  \/ \E p \in 1..Len(s) :
       /\ Current(s, p) /\ About(s[p], d, c) /\ Value(s[p]) = v
       /\ \A q \in (p + 1)..Len(s) : ~About(s[q], d, c)
  \/ /\ \A p \in 1..Len(s) : Current(s, p) => ~About(s[p], d, c)
     /\ Position(device, c) = v

(* A connection is on its way.                                             *)
Awaited == ~Current(out, 1)

(* The id of the connection: given last, or one that is still to be given. *)
Own(d) == IF Awaited THEN d \in Ids \ ToSet(given) ELSE given # <<>> /\ d = Last(given)

(* Types.                                                                  *)
PadTypes ==
  /\ plugged \in BOOLEAN /\ down \subseteq Inputs /\ stick \in Sticks /\ plugs \in Nat
  /\ channel \in {"none", "open", "dead"}
  /\ attached \in BOOLEAN /\ acked \in BOOLEAN /\ id \in Ids
  /\ last \subseteq Inputs /\ lastAxis \in Axes
  /\ out \in Seq(Messages) /\ acks \in Seq(Ids) /\ given \in Seq(Ids)
  /\ devices \in [Ids -> Devices]

(* Answers are ids that were given, and other ids have no device.          *)
Answers ==
  /\ ToSet(acks) \subseteq ToSet(given)
  /\ acked => id \in ToSet(given)
  /\ \A d \in Ids \ ToSet(given) : devices[d] = NoDevice

(* The pad's device lives from its connection on, and no disconnection     *)
(* follows.                                                                *)
Attached ==
  channel # "dead" /\ attached =>
    /\ \A p \in 1..Len(out) : Current(out, p) => out[p].type # "disconnected"
    /\ ~Awaited => given # <<>> /\ devices[Last(given)].live

(* Before the answer everything reported is counted as unheard.            *)
Unacknowledged ==
  attached /\ ~acked => \A c \in Controls \ unheard : Reported(c) = 0

(* What will show of a control is what was reported or rest: the former    *)
(* when the report was addressed to the device, the latter when nothing    *)
(* has been.                                                               *)
Agreement(d, c) ==
  \A v \in Values : Shows(out, devices[d], d, c, v) =>
    /\ v \in {0, Reported(c)}
    /\ c \notin unheard => v = Reported(c)
    /\ id # d => v = 0

(* It is so for every id the connection can still turn out to have.        *)
Agrees ==
  channel # "dead" /\ attached =>
    \A d \in Ids, c \in Controls : Own(d) /\ (acked => id = d) => Agreement(d, c)

(* The inductive invariant.                                                *)
PadInv == PadTypes /\ Answers /\ Attached /\ Unacknowledged /\ Agrees

-----------------------------------------------------------------------------
(* SetToSeq lists every element of a finite set.                           *)
LEMMA Listed ==
  ASSUME NEW S, IsFiniteSet(S)
  PROVE  /\ Cardinality(S) \in Nat
         /\ SetToSeq(S) \in [1..Cardinality(S) -> S]
         /\ \A x \in S : \E i \in 1..Cardinality(S) : SetToSeq(S)[i] = x
<1> DEFINE n == Cardinality(S)
<1>1. n \in Nat /\ ExistsBijection(1..n, S)
  BY FS_CardinalityType
<1>2. IsFiniteSet(1..n) /\ Cardinality(1..n) = n
  BY <1>1, FS_Interval, SMT
<1>3. \E f \in [1..n -> S] : IsInjective(f)
  BY <1>1 DEF ExistsBijection, Bijection, Injection
<1>4. SetToSeq(S) \in [1..n -> S] /\ IsInjective(SetToSeq(S))
  BY <1>3 DEF SetToSeq
<1>5. SetToSeq(S) \in Injection(1..n, S)
  BY <1>4 DEF Injection
<1>6. SetToSeq(S) \in Surjection(1..n, S)
  BY <1>5, <1>2, FS_Injection
<1> QED BY <1>1, <1>4, <1>6 DEF Surjection

(* Positions of the stick are scaled to whole numbers, that of rest to 0,  *)
(* and what is not 0 is more than the threshold away from it.              *)
LEMMA ScaledAxis ==
  /\ 0 \in Axes
  /\ \A a \in Axes : a \in Int /\ (a = 0 \/ Magnitude(a) > Threshold)
<1>1. ASSUME NEW magnitude \in Nat
      PROVE  Stretch(magnitude) \in Int
  <2> DEFINE range == MaxAxis - Deadzone  far == (magnitude - Deadzone) * MaxAxis
  <2>1. range \in Nat \ {0} /\ magnitude \in Int /\ Deadzone \in Int /\ MaxAxis \in Int
    BY <1>1, PadConstants
  <2>2. far \in Int
    BY <2>1
  <2>3. far \div range \in Int
    <3> HIDE DEF far, range
    <3> QED BY <2>1, <2>2, SMT
  <2> QED BY <2>3 DEF Stretch
<1>2. ASSUME NEW position \in Sticks
      PROVE  /\ Scaled(position) \in Int
             /\ Scaled(position) = 0 \/ Magnitude(Scaled(position)) > Threshold
  <2>1. Deadzone \in Nat /\ Threshold \in Nat /\ Threshold < Deadzone /\ position \in Int
    BY <1>2, PadConstants
  <2>2. Magnitude(position) \in Nat
    BY <2>1 DEF Magnitude, Distance
  <2>3. Stretched(position) \in Int
    BY <1>1, <2>2 DEF Stretched
  <2> QED BY <2>1, <2>3 DEF Scaled, Magnitude, Distance
<1>3. 0 \in Sticks /\ Deadzone \in Nat /\ Scaled(0) = 0
  <2>1. 0 \in Sticks /\ Deadzone \in Nat /\ 0 <= Deadzone
    BY PadConstants
  <2>2. Stretched(0) = 0
    BY <2>1 DEF Stretched, Stretch, Magnitude, Distance
  <2> QED BY <2>1, <2>2 DEF Scaled, Magnitude, Distance
<1> QED BY <1>2, <1>3 DEF Axes

(* What controller_update sends: each of its messages is about something   *)
(* that differs and says how it is now, and nothing that differs is left   *)
(* out.                                                                    *)
Moved(axis) == Distance(Scaled(stick), axis) > Threshold

News(before, axis) == Changed(before) \cup (IF Moved(axis) THEN {"axis"} ELSE {})

Now(c) == IF c = "axis" THEN Scaled(stick) ELSE IF c \in down THEN 1 ELSE 0

Tells(r, to, news) ==
  /\ r \in Seq(Messages)
  /\ \A p \in 1..Len(r) :
       /\ r[p].type \in {"input", "axis"} /\ r[p].id = to
       /\ Control(r[p]) \in news /\ Value(r[p]) = Now(Control(r[p]))
  /\ \A c \in news : \E p \in 1..Len(r) : Control(r[p]) = c

(* The fields of a message about an input.                                 *)
LEMMA InputFields ==
  ASSUME NEW to, NEW input, NEW isOn \in BOOLEAN
  PROVE  LET m == Input(to, input, isOn)
         IN  m.type = "input" /\ m.id = to /\ m.input = input /\ m.on = isOn
BY DEF Input

LEMMA ReportsTell ==
  ASSUME down \subseteq Inputs, stick \in Sticks,
         NEW before \in SUBSET Inputs, NEW axis \in Axes, NEW to \in Ids
  PROVE  Tells(Reports(to, before, axis), to, News(before, axis))
<1> DEFINE S == Changed(before)
           n == Cardinality(S)
           f == SetToSeq(S)
           pressed == [i \in 1..n |-> LET input == f[i] IN Input(to, input, input \in down)]
           moved == IF Moved(axis) THEN <<Axis(to, Scaled(stick))>> ELSE <<>>
           r == pressed \o moved
<1>1. S \subseteq Inputs /\ IsFiniteSet(S)
  <2>1. S \subseteq Inputs
    BY DEF Changed
  <2> QED BY <2>1, FS_Subset, PadConstants
<1>2. n \in Nat /\ f \in [1..n -> S] /\ \A x \in S : \E i \in 1..n : f[i] = x
  BY <1>1, Listed
<1>3. Reports(to, before, axis) = r
  BY DEF Reports, Moved
<1> HIDE DEF f, n, S
<1>4. /\ pressed \in Seq(Messages) /\ Len(pressed) = n
      /\ \A i \in 1..n : pressed[i] = Input(to, f[i], f[i] \in down)
  <2>1. \A i \in 1..n : pressed[i] = Input(to, f[i], f[i] \in down) /\ pressed[i] \in Messages
    BY <1>1, <1>2 DEF Input, Messages
  <2> QED BY <1>2, <2>1
<1>5. Scaled(stick) \in Axes
  BY DEF Axes
<1>6. /\ moved \in Seq(Messages)
      /\ Len(moved) = IF Moved(axis) THEN 1 ELSE 0
      /\ Moved(axis) => moved[1] = Axis(to, Scaled(stick))
  <2>1. Axis(to, Scaled(stick)) \in Messages
    BY <1>5 DEF Axis, Messages
  <2> QED BY <2>1
<1> HIDE DEF pressed, moved
<1>7. /\ r \in Seq(Messages) /\ Len(r) = n + Len(moved)
      /\ \A p \in 1..n : r[p] = pressed[p]
      /\ Moved(axis) => r[n + 1] = moved[1]
  <2>1. Len(moved) \in Nat
    BY <1>6
  <2>2. /\ r \in Seq(Messages) /\ Len(r) = Len(pressed) + Len(moved)
        /\ \A i \in 1..(Len(pressed) + Len(moved)) :
             r[i] = IF i <= Len(pressed) THEN pressed[i] ELSE moved[i - Len(pressed)]
    BY <1>4, <1>6, ConcatProperties
  <2> HIDE DEF r
  <2>3. \A i \in 1..(n + Len(moved)) : r[i] = IF i <= n THEN pressed[i] ELSE moved[i - n]
    BY <1>4, <2>2
  <2>4. \A p \in 1..n : r[p] = pressed[p]
    BY <1>2, <2>1, <2>3
  <2>5. ASSUME Moved(axis)
        PROVE  r[n + 1] = moved[1]
    <3>1. n + 1 \in 1..(n + Len(moved)) /\ ~(n + 1 <= n) /\ (n + 1) - n = 1
      BY <1>2, <1>6, <2>5
    <3>2. r[n + 1] = IF n + 1 <= n THEN pressed[n + 1] ELSE moved[(n + 1) - n]
      BY <2>3, <3>1, Zenon
    <3> QED BY ONLY <3>1, <3>2, Zenon
  <2> QED BY <1>4, <2>2, <2>4, <2>5
<1>8. ASSUME NEW p \in 1..n
      PROVE  /\ r[p].type = "input" /\ r[p].id = to /\ r[p].input = f[p]
             /\ Control(r[p]) = f[p] /\ f[p] \in S /\ f[p] # "axis"
             /\ Value(r[p]) = Now(f[p])
  <2>1. r[p] = Input(to, f[p], f[p] \in down)
    BY <1>4, <1>7
  <2>2. r[p].type = "input" /\ r[p].id = to /\ r[p].input = f[p] /\ r[p].on = (f[p] \in down)
    <3> DEFINE o == f[p] \in down
    <3>1. o \in BOOLEAN
      OBVIOUS
    <3>2. r[p] = Input(to, f[p], o)
      BY <2>1
    <3> HIDE DEF o
    <3>3. LET m == Input(to, f[p], o)
          IN  m.type = "input" /\ m.id = to /\ m.input = f[p] /\ m.on = o
      BY <3>1, InputFields
    <3>4. r[p].type = "input" /\ r[p].id = to /\ r[p].input = f[p] /\ r[p].on = o
      BY ONLY <3>2, <3>3, Zenon
    <3> QED BY ONLY <3>4, Zenon DEF o
  <2>3. f[p] \in S /\ f[p] # "axis"
    BY <1>1, <1>2, PadConstants
  <2> QED BY <2>2, <2>3 DEF Control, Value, Now
<1>9. ASSUME Moved(axis)
      PROVE  /\ r[n + 1].type = "axis" /\ r[n + 1].id = to
             /\ Control(r[n + 1]) = "axis" /\ Value(r[n + 1]) = Now("axis")
  <2>1. r[n + 1] = Axis(to, Scaled(stick))
    BY <1>6, <1>7, <1>9
  <2> QED BY <2>1 DEF Axis, Control, Value, Now
<1> HIDE DEF r
<1>10. Len(r) = IF Moved(axis) THEN n + 1 ELSE n
  BY <1>2, <1>6, <1>7
<1>11. \A p \in 1..Len(r) : p \in 1..n \/ (Moved(axis) /\ p = n + 1)
  BY <1>2, <1>10
<1>12. \A p \in 1..Len(r) :
         /\ r[p].type \in {"input", "axis"} /\ r[p].id = to
         /\ Control(r[p]) \in News(before, axis)
         /\ Value(r[p]) = Now(Control(r[p]))
  BY <1>8, <1>9, <1>11, Zenon DEF News, S
<1>13. ASSUME NEW c \in News(before, axis)
       PROVE  \E p \in 1..Len(r) : Control(r[p]) = c
  <2>1. CASE c \in S
    <3>1. PICK i \in 1..n : f[i] = c
      BY <1>2, <2>1
    <3>2. i \in 1..Len(r)
      BY <1>2, <1>10
    <3> QED BY <1>8, <3>1, <3>2
  <2>2. CASE Moved(axis) /\ c = "axis"
    <3>1. n + 1 \in 1..Len(r)
      BY <1>2, <1>10, <2>2
    <3> QED BY <1>9, <2>2, <3>1
  <2> QED BY <2>1, <2>2 DEF News, S
<1> QED BY <1>3, <1>7, <1>12, <1>13 DEF Tells

-----------------------------------------------------------------------------
(* Messages sent behind those on their way.                               *)
LEMMA More ==
  ASSUME NEW s \in Seq(Messages), NEW more \in Seq(Messages),
         \A p \in 1..Len(more) : more[p].type # "connected"
  PROVE  LET t == s \o more  n == Len(s)  k == Len(more)
         IN  /\ n \in Nat /\ k \in Nat /\ Len(t) = n + k
             /\ \A i \in 1..n : i \in 1..(n + k) /\ t[i] = s[i]
             /\ \A i \in 1..k : n + i \in 1..(n + k) /\ t[n + i] = more[i]
             /\ \A i \in 1..(n + k) : i \in 1..n \/ \E j \in 1..k : i = n + j
             /\ \A i \in 1..n : Current(t, i) <=> Current(s, i)
<1> DEFINE t == s \o more  n == Len(s)  k == Len(more)
<1>1. n \in Nat /\ k \in Nat
  OBVIOUS
<1>2. /\ Len(t) = n + k
      /\ \A i \in 1..(n + k) : t[i] = IF i <= n THEN s[i] ELSE more[i - n]
  BY ConcatProperties
<1> HIDE DEF t, n, k
<1>4. \A i \in 1..n : i \in 1..(n + k) /\ t[i] = s[i]
  BY <1>1, <1>2
<1>5. \A i \in 1..k : n + i \in 1..(n + k) /\ t[n + i] = more[i]
  <2> TAKE i \in 1..k
  <2>1. n + i \in 1..(n + k) /\ ~(n + i <= n) /\ (n + i) - n = i
    BY <1>1
  <2>2. t[n + i] = IF n + i <= n THEN s[n + i] ELSE more[(n + i) - n]
    BY <1>2, <2>1, Zenon
  <2> QED BY ONLY <2>1, <2>2, Zenon
<1>6. \A i \in 1..(n + k) : i \in 1..n \/ \E j \in 1..k : i = n + j
  <2> TAKE i \in 1..(n + k)
  <2>1. i \in 1..n \/ (i - n \in 1..k /\ i = n + (i - n))
    BY <1>1
  <2> QED BY <2>1
<1>7. \A i \in 1..n : Current(t, i) <=> Current(s, i)
  <2> TAKE i \in 1..n
  <2>1. ASSUME Current(t, i) PROVE Current(s, i)
    <3> SUFFICES ASSUME NEW q \in i..n PROVE s[q].type # "connected"
      BY DEF Current, n
    <3>1. q \in 1..n /\ q \in i..Len(t)
      BY <1>1, <1>2
    <3> QED BY <1>4, <2>1, <3>1 DEF Current
  <2>2. ASSUME Current(s, i) PROVE Current(t, i)
    <3> SUFFICES ASSUME NEW q \in i..(n + k) PROVE t[q].type # "connected"
      BY <1>2 DEF Current
    <3>1. q \in 1..(n + k)
      BY <1>1
    <3>2. CASE q \in 1..n
      <4>1. q \in i..Len(s)
        BY <3>2 DEF n
      <4> QED BY <1>4, <2>2, <3>2, <4>1 DEF Current
    <3>3. ASSUME NEW j \in 1..k, q = n + j PROVE t[q].type # "connected"
      BY <1>5, <3>3 DEF k
    <3> QED BY <1>6, <3>1, <3>2, <3>3
  <2> QED BY <2>1, <2>2
<1> QED BY <1>1, <1>2, <1>4, <1>5, <1>6, <1>7 DEF t, n, k

(* Messages after the last connection, sent behind those on their way, are *)
(* served after them: where one of them is about the control, its value    *)
(* is what shows.                                                          *)
LEMMA ShownWithMore ==
  ASSUME NEW s \in Seq(Messages), NEW more \in Seq(Messages),
         \A p \in 1..Len(more) : more[p].type # "connected",
         NEW device, NEW d, NEW c, NEW v, Shows(s \o more, device, d, c, v)
  PROVE  /\ (\A p \in 1..Len(more) : ~About(more[p], d, c)) => Shows(s, device, d, c, v)
         /\ (\E p \in 1..Len(more) : About(more[p], d, c))
              => \E p \in 1..Len(more) : About(more[p], d, c) /\ Value(more[p]) = v
<1> DEFINE t == s \o more  n == Len(s)  k == Len(more)
<1>1. n \in Nat /\ k \in Nat /\ Len(t) = n + k
  BY More
<1>3. Shows(t, device, d, c, v)
  OBVIOUS
<1>4. \A i \in 1..n : i \in 1..(n + k) /\ t[i] = s[i] /\ (Current(t, i) <=> Current(s, i))
  BY More
<1>5. \A i \in 1..k : n + i \in 1..(n + k) /\ t[n + i] = more[i]
  BY More
<1>6. \A i \in 1..(n + k) : i \in 1..n \/ \E j \in 1..k : i = n + j
  BY More
<1> HIDE DEF t, n, k
<1>8. \A j \in 1..k : Current(t, n + j)
  <2> SUFFICES ASSUME NEW j \in 1..k, NEW q \in (n + j)..(n + k) PROVE t[q].type # "connected"
    BY <1>1 DEF Current
  <2>1. q - n \in 1..k /\ q = n + (q - n)
    BY <1>1
  <2>2. t[q] = more[q - n]
    BY <1>5, <2>1, Zenon
  <2> QED BY <2>1, <2>2 DEF k
<1>9. ASSUME \A p \in 1..k : ~About(more[p], d, c)
      PROVE  Shows(s, device, d, c, v)
  <2>1. \A p \in 1..k : ~About(t[n + p], d, c)
    BY <1>5, <1>9
  <2>2. CASE \E p \in 1..Len(t) :
               /\ Current(t, p) /\ About(t[p], d, c) /\ Value(t[p]) = v
               /\ \A q \in (p + 1)..Len(t) : ~About(t[q], d, c)
    <3>1. PICK p \in 1..(n + k) :
             /\ Current(t, p) /\ About(t[p], d, c) /\ Value(t[p]) = v
             /\ \A q \in (p + 1)..(n + k) : ~About(t[q], d, c)
      BY <1>1, <2>2
    <3>2. p \in 1..n
      BY <1>6, <2>1, <3>1
    <3>3. Current(s, p) /\ About(s[p], d, c) /\ Value(s[p]) = v
      BY <1>4, <3>1, <3>2
    <3>4. ASSUME NEW q \in (p + 1)..n PROVE ~About(s[q], d, c)
      <4>1. q \in 1..n /\ q \in (p + 1)..(n + k)
        BY <1>1
      <4> QED BY <1>4, <3>1, <4>1
    <3>5. p \in 1..Len(s) /\ \A q \in (p + 1)..Len(s) : ~About(s[q], d, c)
      BY <3>2, <3>4 DEF n
    <3> QED BY <3>3, <3>5, Zenon DEF Shows
  <2>3. CASE /\ \A p \in 1..Len(t) : Current(t, p) => ~About(t[p], d, c)
             /\ Position(device, c) = v
    <3>1. ASSUME NEW p \in 1..n, Current(s, p) PROVE ~About(s[p], d, c)
      <4>1. p \in 1..Len(t) /\ t[p] = s[p] /\ Current(t, p)
        BY <1>1, <1>4, <3>1
      <4>2. ~About(t[p], d, c)
        BY <2>3, <4>1, Zenon
      <4> QED BY ONLY <4>1, <4>2, Zenon
    <3>2. \A p \in 1..Len(s) : Current(s, p) => ~About(s[p], d, c)
      BY <3>1 DEF n
    <3> QED BY <2>3, <3>2, Zenon DEF Shows
  <2> QED BY <1>3, <2>2, <2>3, Zenon DEF Shows
<1>10. ASSUME NEW j \in 1..k, About(more[j], d, c)
       PROVE  \E p \in 1..k : About(more[p], d, c) /\ Value(more[p]) = v
  <2>1. /\ n + j \in 1..Len(t) /\ Current(t, n + j) /\ About(t[n + j], d, c)
    BY <1>1, <1>5, <1>8, <1>10
  <2>2. PICK p \in 1..(n + k) :
           /\ Current(t, p) /\ About(t[p], d, c) /\ Value(t[p]) = v
           /\ \A q \in (p + 1)..(n + k) : ~About(t[q], d, c)
    BY <1>1, <1>3, <2>1 DEF Shows
  <2>3. ASSUME p \in 1..n PROVE FALSE
    <3>1. n + j \in (p + 1)..(n + k)
      BY <1>1, <2>3
    <3> QED BY <2>1, <2>2, <3>1
  <2>4. PICK i \in 1..k : p = n + i
    BY <1>6, <2>3
  <2>5. t[p] = more[i]
    BY <1>5, <2>4
  <2> QED BY <2>2, <2>5
<1> QED BY <1>9, <1>10 DEF k

(* What is sent before a connection does not show.                         *)
LEMMA ShownWithConnection ==
  ASSUME NEW s \in Seq(Messages), NEW m \in Messages, m.type = "connected",
         NEW device, NEW d, NEW c, NEW v, Shows(Append(s, m), device, d, c, v)
  PROVE  Position(device, c) = v
<1> DEFINE t == Append(s, m)
<1>1. Len(t) \in Nat /\ Len(t) = Len(s) + 1 /\ t[Len(t)] = m
  BY AppendProperties
<1>2. Shows(t, device, d, c, v)
  OBVIOUS
<1> HIDE DEF t
<1>3. \A p \in 1..Len(t) : ~Current(t, p)
  <2> TAKE p \in 1..Len(t)
  <2>1. Len(t) \in p..Len(t)
    BY <1>1
  <2> QED BY <1>1, <2>1 DEF Current
<1> QED BY <1>2, <1>3 DEF Shows

(* A message that has been served shows in the device, when it counts.     *)
LEMMA ShownOfTail ==
  ASSUME NEW s \in Seq(Messages), s # <<>>, NEW device, NEW after, NEW d, NEW c, NEW v,
         Shows(Tail(s), after, d, c, v),
         IF Current(s, 1) /\ About(Head(s), d, c)
         THEN Position(after, c) = Value(Head(s))
         ELSE Position(after, c) = Position(device, c)
  PROVE  Shows(s, device, d, c, v)
<1> DEFINE t == Tail(s)  n == Len(s)
<1>1. n \in Nat /\ n >= 1 /\ Len(t) = n - 1 /\ Head(s) = s[1]
  BY EmptySeq, HeadTailProperties
<1>2. \A i \in 1..(n - 1) : t[i] = s[i + 1] /\ i + 1 \in 1..n
  BY <1>1, HeadTailProperties
<1>3. Shows(t, after, d, c, v)
  OBVIOUS
<1> HIDE DEF t, n
<1>4. \A i \in 1..(n - 1) : Current(t, i) <=> Current(s, i + 1)
  <2> TAKE i \in 1..(n - 1)
  <2>1. ASSUME Current(t, i) PROVE Current(s, i + 1)
    <3> SUFFICES ASSUME NEW q \in (i + 1)..n PROVE s[q].type # "connected"
      BY DEF Current, n
    <3>1. q - 1 \in i..Len(t) /\ q - 1 \in 1..(n - 1) /\ (q - 1) + 1 = q
      BY <1>1
    <3>2. t[q - 1] = s[(q - 1) + 1] /\ t[q - 1].type # "connected"
      BY <1>2, <2>1, <3>1, Zenon DEF Current
    <3> QED BY ONLY <3>1, <3>2, Zenon
  <2>2. ASSUME Current(s, i + 1) PROVE Current(t, i)
    <3> SUFFICES ASSUME NEW q \in i..(n - 1) PROVE t[q].type # "connected"
      BY <1>1 DEF Current
    <3>1. q + 1 \in (i + 1)..Len(s) /\ q \in 1..(n - 1)
      BY <1>1 DEF n
    <3>2. t[q] = s[q + 1] /\ s[q + 1].type # "connected"
      BY <1>2, <2>2, <3>1, Zenon DEF Current
    <3> QED BY ONLY <3>2, Zenon
  <2> QED BY <2>1, <2>2
<1>5. CASE \E p \in 1..Len(t) :
             /\ Current(t, p) /\ About(t[p], d, c) /\ Value(t[p]) = v
             /\ \A q \in (p + 1)..Len(t) : ~About(t[q], d, c)
  <2>1. PICK p \in 1..(n - 1) :
           /\ Current(t, p) /\ About(t[p], d, c) /\ Value(t[p]) = v
           /\ \A q \in (p + 1)..(n - 1) : ~About(t[q], d, c)
    BY <1>1, <1>5
  <2>2. /\ p + 1 \in 1..n /\ Current(s, p + 1)
        /\ About(s[p + 1], d, c) /\ Value(s[p + 1]) = v
    BY <1>2, <1>4, <2>1
  <2>3. ASSUME NEW q \in ((p + 1) + 1)..n PROVE ~About(s[q], d, c)
    <3>1. q - 1 \in (p + 1)..(n - 1) /\ q - 1 \in 1..(n - 1) /\ (q - 1) + 1 = q
      BY <1>1
    <3>2. t[q - 1] = s[(q - 1) + 1] /\ ~About(t[q - 1], d, c)
      BY <1>2, <2>1, <3>1, Zenon
    <3> QED BY ONLY <3>1, <3>2, Zenon
  <2> QED BY <2>2, <2>3, Zenon DEF Shows, n
<1>6. CASE /\ \A p \in 1..Len(t) : Current(t, p) => ~About(t[p], d, c)
           /\ Position(after, c) = v
  <2>1. ASSUME NEW p \in 2..n, Current(s, p) PROVE ~About(s[p], d, c)
    <3>1. p - 1 \in 1..Len(t) /\ p - 1 \in 1..(n - 1) /\ (p - 1) + 1 = p
      BY <1>1
    <3>2. t[p - 1] = s[(p - 1) + 1] /\ (Current(t, p - 1) <=> Current(s, (p - 1) + 1))
      BY <1>2, <1>4, <3>1, Zenon
    <3>3. t[p - 1] = s[p] /\ Current(t, p - 1)
      BY ONLY <2>1, <3>1, <3>2, Zenon
    <3>4. ~About(t[p - 1], d, c)
      BY <1>6, <3>1, <3>3, Zenon
    <3> QED BY ONLY <3>3, <3>4, Zenon
  <2>2. CASE Current(s, 1) /\ About(Head(s), d, c)
    <3>1. About(s[1], d, c) /\ Value(s[1]) = v
      BY <1>1, <1>6, <2>2
    <3>2. ASSUME NEW q \in (1 + 1)..n PROVE ~About(s[q], d, c)
      <4>1. q \in 2..n
        BY <1>1
      <4>2. Current(s, q)
        <5> SUFFICES ASSUME NEW r \in q..n PROVE s[r].type # "connected"
          BY DEF Current, n
        <5>1. r \in 1..Len(s)
          BY <1>1 DEF n
        <5> QED BY <2>2, <5>1 DEF Current
      <4> QED BY <2>1, <4>1, <4>2
    <3>3. 1 \in 1..n
      BY <1>1
    <3> QED BY <2>2, <3>1, <3>2, <3>3, Zenon DEF Shows, n
  <2>3. CASE ~(Current(s, 1) /\ About(Head(s), d, c))
    <3>1. ASSUME NEW p \in 1..n, Current(s, p) PROVE ~About(s[p], d, c)
      <4>1. p = 1 \/ p \in 2..n
        BY <1>1
      <4> QED BY <1>1, <2>1, <2>3, <3>1, <4>1
    <3>2. Position(device, c) = v
      BY <1>6, <2>3
    <3> QED BY <3>1, <3>2, Zenon DEF Shows, n
  <2> QED BY <2>2, <2>3
<1> QED BY <1>3, <1>5, <1>6, Zenon DEF Shows

-----------------------------------------------------------------------------
LEMMA PadInitially ==
  ASSUME PadInit
  PROVE  PadInv
<1>1. 0 \in Axes /\ 0 \in Sticks /\ Provisional \in Ids /\ 0 \in Nat
  BY ScaledAxis, PadConstants DEF Provisional, Ids
<1>2. NoDevice \in Devices
  BY <1>1 DEF NoDevice, Devices
<1>3. PadTypes
  <2>1. /\ plugged \in BOOLEAN /\ down \subseteq Inputs /\ stick \in Sticks /\ plugs \in Nat
        /\ channel \in {"none", "open", "dead"}
        /\ attached \in BOOLEAN /\ acked \in BOOLEAN /\ id \in Ids
        /\ last \subseteq Inputs /\ lastAxis \in Axes
    BY <1>1 DEF PadInit
  <2>2. out \in Seq(Messages) /\ acks \in Seq(Ids) /\ given \in Seq(Ids)
    BY EmptySeq DEF PadInit
  <2>3. devices \in [Ids -> Devices]
    BY <1>2 DEF PadInit
  <2> QED BY <2>1, <2>2, <2>3 DEF PadTypes
<1>4. ToSet(acks) = {}
  BY DEF PadInit, ToSet
<1>5. Answers
  BY <1>4 DEF PadInit, Answers
<1> QED BY <1>3, <1>5 DEF PadInit, PadInv, Attached, Unacknowledged, Agrees

(* Steps that do not touch what the invariant is about.                    *)
LEMMA Untouched ==
  ASSUME PadInv, plugged' \in BOOLEAN, down' \subseteq Inputs, stick' \in Sticks, plugs' \in Nat,
         channel' \in {"none", "open", "dead"}, channel' = "dead" \/ channel # "dead",
         UNCHANGED <<attached, acked, id, last, lastAxis, out, acks, serverVars, unheard>>
  PROVE  PadInv'
<1> USE DEF serverVars
<1>1. PadTypes'
  BY DEF PadInv, PadTypes
<1>2. Answers'
  BY DEF PadInv, Answers
<1>3. Attached'
  BY DEF PadInv, Attached, Awaited
<1>4. Unacknowledged'
  BY DEF PadInv, Unacknowledged, Reported
<1>5. Agrees'
  <2> SUFFICES ASSUME (channel # "dead")', attached'
      PROVE (\A d \in Ids, c \in Controls : Own(d) /\ (acked => id = d) => Agreement(d, c))'
    BY DEF Agrees
  <2>1. \A d \in Ids, c \in Controls : Own(d) /\ (acked => id = d) => Agreement(d, c)
    BY DEF PadInv, Agrees
  <2> QED BY <2>1 DEF Own, Awaited, Agreement, Reported
<1> QED BY <1>1, <1>2, <1>3, <1>4, <1>5 DEF PadInv

(* The answers that have arrived are taken off the socket.                 *)
LEMMA ReadAnswers ==
  ASSUME acks \in Seq(Ids), NEW n \in 0..Len(acks), Read(n)
  PROVE  /\ acks' \in Seq(Ids)
         /\ ToSet(acks') \subseteq ToSet(acks)
         /\ n > 0 => acks[1] \in Ids /\ acks[1] \in ToSet(acks)
<1> DEFINE k == Len(acks)
<1>1. k \in Nat /\ DOMAIN acks = 1..k /\ \A i \in 1..k : acks[i] \in Ids
  BY LenProperties, ElementOfSeq
<1>2. /\ SubSeq(acks, n + 1, k) \in Seq(Ids)
      /\ Len(SubSeq(acks, n + 1, k)) = IF n + 1 <= k THEN k - (n + 1) + 1 ELSE 0
      /\ \A i \in 1..(k - (n + 1) + 1) : SubSeq(acks, n + 1, k)[i] = acks[(n + 1) + i - 1]
  <2>1. \A i \in (n + 1)..k : acks[i] \in Ids
    BY <1>1
  <2>2. n + 1 \in Int /\ k \in Int
    BY <1>1
  <2> HIDE DEF k
  <2> QED BY <2>1, <2>2, SubSeqProperties
<1>3. acks' = SubSeq(acks, n + 1, k)
  BY DEF Read
<1>4. ASSUME NEW x \in ToSet(acks') PROVE x \in ToSet(acks)
  <2>1. PICK i \in 1..Len(acks') : x = acks'[i]
    BY <1>2, <1>3, <1>4, LenProperties DEF ToSet
  <2>2. i \in 1..(k - (n + 1) + 1) /\ (n + 1) + i - 1 \in 1..k
    BY <1>1, <1>2, <1>3
  <2>3. x = acks[(n + 1) + i - 1]
    BY <1>2, <1>3, <2>1, <2>2
  <2> QED BY <1>1, <2>2, <2>3 DEF ToSet
<1>5. ASSUME n > 0 PROVE acks[1] \in Ids /\ acks[1] \in ToSet(acks)
  <2>1. 1 \in 1..k
    BY <1>1, <1>5
  <2> QED BY <1>1, <2>1 DEF ToSet
<1> QED BY <1>2, <1>3, <1>4, <1>5

(* All is sent as long as the socket is not dead.                          *)
LEMMA SentInOrder ==
  ASSUME out \in Seq(Messages), NEW more \in Seq(Messages),
         channel \in {"open", "dead"}, Send(more)
  PROVE  /\ out' \in Seq(Messages)
         /\ channel' \in {"open", "dead"}
         /\ channel' # "dead" => channel # "dead" /\ out' = out \o more
<1>1. CASE channel = "dead"
  BY <1>1 DEF Send
<1>2. CASE channel = "open"
  <2>1. CASE out' = out \o more /\ UNCHANGED channel
    BY <1>2, <2>1, ConcatProperties
  <2>2. ASSUME NEW n \in 0..(Len(more) - 1), out' = out \o SubSeq(more, 1, n), channel' = "dead"
        PROVE  out' \in Seq(Messages)
    <3>1. Len(more) \in Nat /\ \A i \in 1..n : more[i] \in Messages
      BY LenProperties, ElementOfSeq
    <3>2. SubSeq(more, 1, n) \in Seq(Messages)
      BY <3>1, SubSeqProperties
    <3> QED BY <2>2, <3>2, ConcatProperties
  <2> QED BY <1>2, <2>1, <2>2 DEF Send, Deliver
<1> QED BY <1>1, <1>2

-----------------------------------------------------------------------------
(* The server.                                                             *)
LEMMA NewGiven ==
  ASSUME given \in Seq(Ids), NEW fresh \in Ids
  PROVE  LET longer == Append(given, fresh)
         IN  /\ longer \in Seq(Ids) /\ longer # <<>> /\ Last(longer) = fresh
             /\ ToSet(longer) = ToSet(given) \cup {fresh}
<1> DEFINE longer == Append(given, fresh)  n == Len(given)
<1>1. /\ n \in Nat /\ longer \in Seq(Ids) /\ Len(longer) = n + 1
      /\ \A i \in 1..n : longer[i] = given[i]
      /\ longer[n + 1] = fresh
  BY AppendProperties
<1>2. DOMAIN longer = 1..(n + 1) /\ DOMAIN given = 1..n
  BY <1>1, LenProperties
<1> HIDE DEF longer, n
<1>3. longer # <<>> /\ Last(longer) = fresh
  BY <1>1, EmptySeq DEF Last
<1>4. ASSUME NEW x \in ToSet(longer) PROVE x \in ToSet(given) \cup {fresh}
  <2>1. PICK i \in 1..(n + 1) : x = longer[i]
    BY <1>2, <1>4 DEF ToSet
  <2>2. i \in 1..n \/ i = n + 1
    BY <1>1
  <2> QED BY <1>1, <1>2, <2>1, <2>2 DEF ToSet
<1>5. ASSUME NEW x \in ToSet(given) PROVE x \in ToSet(longer)
  <2>1. PICK i \in 1..n : x = given[i]
    BY <1>2, <1>5 DEF ToSet
  <2>2. i \in 1..(n + 1) /\ x = longer[i]
    BY <1>1, <2>1
  <2> QED BY <1>2, <2>2 DEF ToSet
<1>6. fresh \in ToSet(longer)
  <2>1. n + 1 \in 1..(n + 1)
    BY <1>1
  <2> QED BY <1>1, <1>2, <2>1 DEF ToSet
<1> QED BY <1>1, <1>3, <1>4, <1>5, <1>6 DEF longer

(* The first message is taken off those on their way.                      *)
LEMMA OutServed ==
  ASSUME out \in Seq(Messages), out # <<>>, out' = Tail(out)
  PROVE  /\ Head(out) \in Messages /\ out' \in Seq(Messages)
         /\ \A p \in 1..Len(out') :
              p + 1 \in 1..Len(out) /\ out'[p] = out[p + 1]
              /\ (Current(out', p) => Current(out, p + 1))
         /\ Awaited' => Awaited
         /\ Head(out).type # "connected" /\ Awaited => Awaited'
         /\ ~Awaited => Head(out) = out[1] /\ 1 \in 1..Len(out) /\ Head(out).type # "connected"
         /\ Head(out).type = "connected" => Awaited
<1> DEFINE n == Len(out)
<1>1. /\ n \in Nat /\ n >= 1 /\ Head(out) = out[1] /\ Head(out) \in Messages
      /\ out' \in Seq(Messages) /\ Len(out') = n - 1
      /\ \A i \in 1..(n - 1) : out'[i] = out[i + 1]
  BY EmptySeq, HeadTailProperties
<1> HIDE DEF n
<1>2. ASSUME NEW p \in 1..(n - 1)
      PROVE  p + 1 \in 1..n /\ out'[p] = out[p + 1]
  BY <1>1
<1>3. ASSUME NEW p \in 1..n, \A q \in p..(n - 1) : out'[q].type # "connected"
      PROVE  \A q \in (p + 1)..n : out[q].type # "connected"
  <2> TAKE q \in (p + 1)..n
  <2>1. q - 1 \in p..(n - 1) /\ q - 1 \in 1..(n - 1) /\ (q - 1) + 1 = q
    BY <1>1
  <2>2. out'[q - 1] = out[(q - 1) + 1] /\ out'[q - 1].type # "connected"
    BY <1>1, <1>3, <2>1, Zenon
  <2> QED BY ONLY <2>1, <2>2, Zenon
<1>4. ASSUME NEW p \in 1..Len(out'), Current(out', p) PROVE Current(out, p + 1)
  <2>1. p \in 1..n /\ \A q \in p..(n - 1) : out'[q].type # "connected"
    BY <1>1, <1>4 DEF Current
  <2> QED BY <1>3, <2>1 DEF Current, n
<1>5. ASSUME Head(out).type # "connected", Current(out', 1) PROVE Current(out, 1)
  <2>1. 1 \in 1..n /\ \A q \in 1..(n - 1) : out'[q].type # "connected"
    BY <1>1, <1>5 DEF Current
  <2>2. \A q \in (1 + 1)..n : out[q].type # "connected"
    BY <1>3, <2>1
  <2>3. \A q \in 1..n : q = 1 \/ q \in (1 + 1)..n
    BY <1>1
  <2> QED BY <1>1, <1>5, <2>2, <2>3 DEF Current, n
<1>6. ASSUME Current(out, 1)
      PROVE  Current(out', 1) /\ 1 \in 1..n /\ Head(out).type # "connected"
  <2>1. \A q \in 1..n : out[q].type # "connected"
    BY <1>6 DEF Current, n
  <2>2. \A q \in 1..Len(out') : out'[q].type # "connected"
    BY <1>1, <1>2, <2>1
  <2> QED BY <1>1, <2>1, <2>2 DEF Current
<1> QED BY <1>1, <1>2, <1>4, <1>5, <1>6 DEF Awaited, n

(* A connection gets an id nobody had.                                     *)
LEMMA GiveStep ==
  ASSUME PadInv, out # <<>>, out' = Tail(out), Head(out).type = "connected", Give,
         UNCHANGED <<padVars, channel, clientVars, unheard>>
  PROVE  PadInv'
<1> USE DEF padVars, clientVars
<1>1. out \in Seq(Messages) /\ given \in Seq(Ids) /\ acks \in Seq(Ids)
      /\ devices \in [Ids -> Devices] /\ PadTypes
  BY DEF PadInv, PadTypes
<1>2. PICK fresh \in Ids \ ToSet(given) :
         /\ devices' = [devices EXCEPT ![fresh] = [NoDevice EXCEPT !.live = TRUE]]
         /\ given' = Append(given, fresh)
         /\ acks' = Append(acks, fresh)
  BY DEF Give
<1> DEFINE born == [NoDevice EXCEPT !.live = TRUE]
<1>3. /\ devices[fresh] = NoDevice
      /\ NoDevice \in Devices
  BY <1>1, <1>2 DEF PadInv, Answers
<1>4. born \in Devices /\ born.live /\ \A c : Position(born, c) = Position(NoDevice, c)
  BY <1>3 DEF NoDevice, Devices, Position
<1> HIDE DEF born
<1>5. /\ devices' \in [Ids -> Devices] /\ devices'[fresh] = born
      /\ \A d \in Ids : d # fresh => devices'[d] = devices[d]
  BY <1>1, <1>2, <1>4 DEF born
<1>6. /\ given' \in Seq(Ids) /\ given' # <<>> /\ Last(given') = fresh
      /\ ToSet(given') = ToSet(given) \cup {fresh}
  BY <1>1, <1>2, NewGiven
<1>7. acks' \in Seq(Ids) /\ ToSet(acks') \subseteq ToSet(acks) \cup {fresh}
  <2>1. /\ acks' \in Seq(Ids) /\ Len(acks') = Len(acks) + 1 /\ Len(acks) \in Nat
        /\ \A i \in 1..Len(acks) : acks'[i] = acks[i]
        /\ acks'[Len(acks) + 1] = fresh
    BY <1>1, <1>2, AppendProperties
  <2>2. ASSUME NEW x \in ToSet(acks') PROVE x \in ToSet(acks) \cup {fresh}
    <3>1. PICK i \in 1..(Len(acks) + 1) : x = acks'[i]
      BY <2>1, <2>2, LenProperties DEF ToSet
    <3>2. i \in 1..Len(acks) \/ i = Len(acks) + 1
      BY <2>1
    <3> QED BY <1>1, <2>1, <3>1, <3>2, LenProperties DEF ToSet
  <2> QED BY <2>1, <2>2
<1>8. /\ out' \in Seq(Messages) /\ Awaited
      /\ \A p \in 1..Len(out') :
           p + 1 \in 1..Len(out) /\ out'[p] = out[p + 1]
           /\ (Current(out', p) => Current(out, p + 1))
  BY <1>1, OutServed
<1>9. PadTypes'
  BY <1>1, <1>5, <1>6, <1>7, <1>8 DEF PadTypes
<1>10. Answers'
  <2>1. ToSet(acks') \subseteq ToSet(given')
    BY <1>6, <1>7 DEF PadInv, Answers
  <2>2. acked' => id' \in ToSet(given')
    BY <1>6 DEF PadInv, Answers
  <2>3. \A d \in Ids \ ToSet(given') : devices'[d] = NoDevice
    BY <1>5, <1>6 DEF PadInv, Answers
  <2> QED BY <2>1, <2>2, <2>3 DEF Answers
<1>11. Attached'
  <2> SUFFICES ASSUME (channel # "dead")', attached'
      PROVE (/\ \A p \in 1..Len(out) : Current(out, p) => out[p].type # "disconnected"
             /\ ~Awaited => given # <<>> /\ devices[Last(given)].live)'
    BY DEF Attached
  <2>1. \A p \in 1..Len(out) : Current(out, p) => out[p].type # "disconnected"
    BY DEF PadInv, Attached
  <2>2. \A p \in 1..Len(out') : Current(out', p) => out'[p].type # "disconnected"
    BY <1>8, <2>1
  <2> QED BY <1>4, <1>5, <1>6, <2>2
<1>12. Unacknowledged'
  BY DEF PadInv, Unacknowledged, Reported
<1>13. Agrees'
  <2> SUFFICES ASSUME (channel # "dead")', attached', NEW d \in Ids, NEW c \in Controls,
                      Own(d)', (acked => id = d)'
               PROVE  Agreement(d, c)'
    BY DEF Agrees
  <2>1. d \in Ids \ ToSet(given) /\ Own(d)
    BY <1>2, <1>6, <1>8 DEF Own
  <2>2. Agreement(d, c)
    BY <2>1 DEF PadInv, Agrees
  <2>3. Position(devices'[d], c) = Position(devices[d], c)
    BY <1>3, <1>4, <1>5
  <2>4. ~Current(out, 1)
    BY <1>8 DEF Awaited
  <2>5. \A v : Shows(out', devices'[d], d, c, v) => Shows(out, devices[d], d, c, v)
    BY <1>1, <2>3, <2>4, ShownOfTail
  <2> QED BY <2>2, <2>5 DEF Agreement, Reported
<1> QED BY <1>9, <1>10, <1>11, <1>12, <1>13 DEF PadInv

(* Input and a disconnection change the device they are addressed to.      *)
LEMMA ApplyStep ==
  ASSUME PadInv, out # <<>>, out' = Tail(out),
         Head(out).type # "connected", Apply(Head(out)),
         UNCHANGED <<padVars, channel, clientVars, unheard>>
  PROVE  PadInv'
<1> USE DEF padVars, clientVars
<1> DEFINE m == Head(out)
<1>1. out \in Seq(Messages) /\ given \in Seq(Ids) /\ devices \in [Ids -> Devices] /\ PadTypes
  BY DEF PadInv, PadTypes
<1>2. /\ out' \in Seq(Messages)
      /\ \A p \in 1..Len(out') :
           p + 1 \in 1..Len(out) /\ out'[p] = out[p + 1]
           /\ (Current(out', p) => Current(out, p + 1))
      /\ Awaited' <=> Awaited
      /\ ~Awaited => m = out[1] /\ 1 \in 1..Len(out)
      /\ m \in Messages /\ m.type # "connected"
  BY <1>1, OutServed
<1>3. UNCHANGED <<given, acks>>
  BY DEF Apply
<1>4. /\ m.id \in Ids /\ m.type \in {"disconnected", "input", "axis"}
      /\ m.type = "input" => m.input \in Inputs /\ m.on \in BOOLEAN
      /\ m.type = "axis" => m.value \in Axes
  BY <1>2 DEF Messages
<1> HIDE DEF m
<1> DEFINE old == devices[m.id]
           new == After(m, old)
<1>5. devices' = [devices EXCEPT ![m.id] = new]
  BY DEF Apply, m
<1>6. old \in Devices /\ NoDevice \in Devices
  BY <1>1, <1>4, ScaledAxis DEF NoDevice, Devices
<1>7. new \in Devices
  BY <1>4, <1>6 DEF After, Devices
<1>8. (m.type # "disconnected" => new.live = old.live) /\ (old = NoDevice => new = NoDevice)
  <2>1. ~NoDevice.live
    BY DEF NoDevice
  <2> QED BY <1>4, <1>6, <2>1 DEF After, Devices
<1>9. ASSUME m.type # "disconnected", old.live, NEW c \in Controls
      PROVE  Position(new, c) = IF Control(m) = c THEN Value(m) ELSE Position(old, c)
  <2>1. CASE m.type = "axis"
    <3>1. new = [old EXCEPT !.axis = m.value]
      BY <1>9, <2>1 DEF After
    <3>2. new.axis = m.value /\ new.held = old.held
      BY <1>6, <3>1 DEF Devices
    <3> HIDE DEF new, old
    <3> QED BY <2>1, <3>2 DEF Position, Control, Value
  <2>2. CASE m.type = "input" /\ m.on
    <3>1. new = [old EXCEPT !.held = @ \cup {m.input}]
      BY <1>9, <2>2 DEF After
    <3>2. new.axis = old.axis /\ new.held = old.held \cup {m.input} /\ m.input # "axis"
      BY <1>4, <1>6, <2>2, <3>1, PadConstants DEF Devices
    <3> HIDE DEF new, old
    <3> QED BY <2>2, <3>2 DEF Position, Control, Value
  <2>3. CASE m.type = "input" /\ ~m.on
    <3>1. new = [old EXCEPT !.held = @ \ {m.input}]
      BY <1>9, <2>3 DEF After
    <3>2. new.axis = old.axis /\ new.held = old.held \ {m.input} /\ m.input # "axis"
      BY <1>4, <1>6, <2>3, <3>1, PadConstants DEF Devices
    <3> HIDE DEF new, old
    <3> QED BY <2>3, <3>2 DEF Position, Control, Value
  <2> QED BY <1>4, <1>9, <2>1, <2>2, <2>3
<1> HIDE DEF new
<1>10. /\ devices' \in [Ids -> Devices] /\ devices'[m.id] = new
       /\ \A d \in Ids : d # m.id => devices'[d] = devices[d]
  BY <1>1, <1>4, <1>5, <1>7
<1>11. PadTypes'
  BY <1>1, <1>2, <1>3, <1>10 DEF PadTypes
<1>12. Answers'
  <2>1. \A d \in Ids \ ToSet(given) : devices'[d] = NoDevice
    BY <1>8, <1>10 DEF PadInv, Answers
  <2> QED BY <1>3, <2>1 DEF PadInv, Answers
<1>13. ASSUME channel # "dead", attached, ~Awaited
       PROVE  /\ m.type # "disconnected" /\ given # <<>>
              /\ Last(given) \in Ids /\ devices[Last(given)].live
  <2>1. Current(out, 1)
    BY <1>13 DEF Awaited
  <2>2. m.type # "disconnected" /\ given # <<>> /\ devices[Last(given)].live
    BY <1>2, <1>13, <2>1 DEF PadInv, Attached
  <2>3. Last(given) \in Ids
    BY <1>1, <2>2, EmptySeq, ElementOfSeq DEF Last
  <2> QED BY <2>2, <2>3
<1>14. Attached'
  <2> SUFFICES ASSUME (channel # "dead")', attached'
      PROVE (/\ \A p \in 1..Len(out) : Current(out, p) => out[p].type # "disconnected"
             /\ ~Awaited => given # <<>> /\ devices[Last(given)].live)'
    BY DEF Attached
  <2>1. \A p \in 1..Len(out) : Current(out, p) => out[p].type # "disconnected"
    BY DEF PadInv, Attached
  <2>2. \A p \in 1..Len(out') : Current(out', p) => out'[p].type # "disconnected"
    BY <1>2, <2>1
  <2>3. ~Awaited' => given' # <<>> /\ devices'[Last(given')].live
    BY <1>2, <1>3, <1>8, <1>10, <1>13
  <2> QED BY <2>2, <2>3
<1>15. Unacknowledged'
  BY DEF PadInv, Unacknowledged, Reported
<1>16. Agrees'
  <2> SUFFICES ASSUME (channel # "dead")', attached', NEW d \in Ids, NEW c \in Controls,
                      Own(d)', (acked => id = d)'
               PROVE  Agreement(d, c)'
    BY DEF Agrees
  <2>1. Own(d)
    BY <1>2, <1>3 DEF Own
  <2>2. Agreement(d, c)
    BY <2>1 DEF PadInv, Agrees
  <2>3. IF Current(out, 1) /\ About(m, d, c)
        THEN Position(devices'[d], c) = Value(m)
        ELSE Position(devices'[d], c) = Position(devices[d], c)
    <3>1. CASE Awaited
      <4>1. devices[d] = NoDevice /\ devices'[d] = NoDevice
        BY <1>12, <1>3, <2>1, <3>1 DEF Own, PadInv, Answers
      <4> QED BY <3>1, <4>1 DEF Awaited
    <3>2. CASE ~Awaited
      <4>1. d = Last(given) /\ devices[d].live /\ m.type # "disconnected"
        BY <1>13, <2>1, <3>2 DEF Own
      <4>2. CASE d = m.id
        <5>1. Position(devices'[d], c) =
                IF Control(m) = c THEN Value(m) ELSE Position(devices[d], c)
          BY <1>9, <1>10, <4>1, <4>2
        <5>2. About(m, d, c) <=> Control(m) = c
          BY <1>4, <4>1, <4>2 DEF About
        <5> QED BY <3>2, <5>1, <5>2 DEF Awaited
      <4>3. CASE d # m.id
        BY <1>10, <4>3 DEF About
      <4> QED BY <4>2, <4>3
    <3> QED BY <3>1, <3>2
  <2>4. \A v : Shows(out', devices'[d], d, c, v) => Shows(out, devices[d], d, c, v)
    BY <1>1, <2>3, ShownOfTail DEF m
  <2> QED BY <2>2, <2>4 DEF Agreement, Reported
<1> QED BY <1>11, <1>12, <1>14, <1>15, <1>16 DEF PadInv

-----------------------------------------------------------------------------
(* A frame with the pad.                                                   *)
LEMMA UpdateStep ==
  ASSUME PadInv, channel # "none", NEW n \in 0..Len(acks), Read(n), Update(n),
         UNCHANGED <<padVars, serverVars>>
  PROVE  PadInv'
<1> DEFINE now   == IF attached THEN last ELSE {}
           axis  == IF attached THEN lastAxis ELSE 0
           to    == IF ~attached THEN Provisional ELSE IF Acknowledged(n) THEN acks[1] ELSE id
           known == attached /\ (acked \/ Acknowledged(n))
           news  == News(now, axis)
           r     == Reports(to, now, axis)
           first == IF attached THEN <<>> ELSE <<Connected(plugs)>>
           before(c) == IF c = "axis" THEN axis ELSE IF c \in now THEN 1 ELSE 0
<1>1. /\ PadTypes /\ out \in Seq(Messages) /\ acks \in Seq(Ids) /\ down \subseteq Inputs
      /\ stick \in Sticks /\ plugs \in Nat /\ channel \in {"open", "dead"}
      /\ devices \in [Ids -> Devices]
  BY DEF PadInv, PadTypes
<1>2. /\ now \in SUBSET Inputs /\ axis \in Axes
      /\ acks' \in Seq(Ids) /\ ToSet(acks') \subseteq ToSet(acks)
      /\ n > 0 => acks[1] \in Ids /\ acks[1] \in ToSet(acks)
  BY <1>1, ReadAnswers, ScaledAxis DEF PadTypes
<1>3. to \in Ids
  BY <1>1, <1>2, PadConstants DEF PadTypes, Provisional, Ids, Acknowledged
<1>4. /\ attached' = TRUE /\ acked' = known /\ id' = to /\ last' = down
      /\ lastAxis' = IF Moved(axis) THEN Scaled(stick) ELSE axis
      /\ unheard' = IF ~attached THEN news
                    ELSE (unheard \ news) \cup (IF known THEN {} ELSE news)
  BY DEF Update, News, Moved
<1>5. Send(first \o r)
  BY DEF Update
<1>6. UNCHANGED <<plugged, down, stick, plugs, devices, given>>
  BY DEF padVars, serverVars
<1>7. /\ r \in Seq(Messages)
      /\ \A p \in 1..Len(r) :
           /\ r[p].type \in {"input", "axis"} /\ r[p].id = to
           /\ Control(r[p]) \in news /\ Value(r[p]) = Now(Control(r[p]))
      /\ \A c \in news : \E p \in 1..Len(r) : Control(r[p]) = c
  <2>1. /\ down \subseteq Inputs /\ stick \in Sticks
        /\ now \in SUBSET Inputs /\ axis \in Axes /\ to \in Ids
        /\ r = Reports(to, now, axis) /\ news = News(now, axis)
    BY <1>1, <1>2, <1>3
  <2> HIDE DEF now, axis, to, news, r
  <2>2. Tells(r, to, news)
    BY ONLY <2>1, ReportsTell, Zenon
  <2> QED BY <2>2 DEF Tells
<1>8. Scaled(stick) \in Axes
  BY <1>1 DEF Axes
<1>9. \A c \in Controls : Reported(c)' = IF c \in news THEN Now(c) ELSE before(c)
  <2> TAKE c \in Controls
  <2>1. CASE c = "axis"
    <3>1. c \in news <=> Moved(axis)
      BY <1>1, <1>2, <2>1, PadConstants DEF News, Changed
    <3>2. Reported(c)' = lastAxis' /\ Now(c) = Scaled(stick) /\ before(c) = axis
      BY <2>1 DEF Reported, Now
    <3> QED BY <1>4, <3>1, <3>2
  <2>2. CASE c # "axis"
    <3>1. c \in news <=> c \in Changed(now)
      BY <2>2 DEF News
    <3>2. Reported(c)' = (IF c \in down THEN 1 ELSE 0)
      BY <1>4, <2>2 DEF Reported
    <3>3. Now(c) = (IF c \in down THEN 1 ELSE 0) /\ before(c) = (IF c \in now THEN 1 ELSE 0)
      BY <2>2 DEF Now
    <3>4. c \notin Changed(now) => (c \in down <=> c \in now)
      BY DEF Changed
    <3> HIDE DEF now, before, news
    <3> QED BY <3>1, <3>2, <3>3, <3>4
  <2> QED BY <2>1, <2>2
<1>10. /\ attached => \A c \in Controls : before(c) = Reported(c)
       /\ ~attached => \A c : before(c) = 0
  BY DEF Reported
<1>11. first \in Seq(Messages) /\ (~attached => Connected(plugs) \in Messages)
  <2>1. Connected(plugs) \in Messages
    BY <1>1 DEF Connected, Messages
  <2> QED BY <2>1
<1> HIDE DEF now, axis, to, known, news, r, before, first
<1>12. first \o r \in Seq(Messages)
  BY <1>7, <1>11, ConcatProperties
<1>13. /\ out' \in Seq(Messages) /\ channel' \in {"open", "dead"}
       /\ channel' # "dead" => channel # "dead" /\ out' = out \o (first \o r)
  BY <1>1, <1>5, <1>12, SentInOrder
<1>14. \A p \in 1..Len(r) : r[p].type # "connected"
  BY <1>7
<1>15. PadTypes'
  <2>1. lastAxis' \in Axes /\ last' \subseteq Inputs /\ acked' \in BOOLEAN
    BY <1>1, <1>2, <1>4, <1>8 DEF known
  <2> QED BY <1>1, <1>2, <1>3, <1>4, <1>6, <1>13, <2>1 DEF PadTypes
<1>16. Answers'
  <2>1. acked' => id' \in ToSet(given)
    BY <1>2, <1>4 DEF known, to, Acknowledged, PadInv, Answers
  <2> QED BY <1>2, <1>6, <2>1 DEF PadInv, Answers
<1>17. Unacknowledged'
  <2> SUFFICES ASSUME NEW c \in Controls, ~acked', c \notin unheard'
      PROVE Reported(c)' = 0
    BY DEF Unacknowledged
  <2>1. c \notin news /\ (attached => c \notin unheard /\ ~acked)
    BY <1>4 DEF known
  <2>2. Reported(c)' = before(c)
    BY <1>9, <2>1
  <2> QED BY <1>10, <2>1, <2>2 DEF PadInv, Unacknowledged
<1>18. \A c \in Controls : before(c) # Reported(c)' => c \in news
  BY <1>9
<1>19. ASSUME NEW s \in Seq(Messages), NEW c \in Controls, NEW d \in Ids, NEW v, NEW device,
              acked' => id' = d, Shows(s \o r, device, d, c, v)
       PROVE  \/ v = Reported(c)' /\ to = d
              \/ Shows(s, device, d, c, v) /\ (c \notin news \/ to # d)
  <2>1. CASE \E p \in 1..Len(r) : About(r[p], d, c)
    <3>1. PICK p \in 1..Len(r) : About(r[p], d, c) /\ Value(r[p]) = v
      BY <1>7, <1>14, <1>19, <2>1, ShownWithMore
    <3>2. c \in news /\ v = Now(c) /\ to = d
      BY <1>7, <3>1 DEF About
    <3> QED BY <1>9, <3>2
  <2>2. CASE \A p \in 1..Len(r) : ~About(r[p], d, c)
    <3>1. Shows(s, device, d, c, v)
      BY <1>7, <1>14, <1>19, <2>2, ShownWithMore
    <3>2. c \in news => to # d
      BY <1>7, <2>2 DEF About
    <3> QED BY <3>1, <3>2
  <2> QED BY <2>1, <2>2
<1>20. CASE attached
  <2>1. channel' # "dead" => channel # "dead" /\ out' = out \o r
    <3>1. first \o r = r
      BY <1>7, <1>20, ConcatEmptySeq DEF first
    <3> QED BY <1>13, <3>1
  <2>2. ASSUME channel' # "dead"
        PROVE  /\ Awaited' <=> Awaited
               /\ \A p \in 1..Len(out') : Current(out', p) => out'[p].type # "disconnected"
    <3> DEFINE i == Len(out)  k == Len(r)
    <3>1. /\ i \in Nat /\ k \in Nat /\ Len(out') = i + k
          /\ \A p \in 1..i : p \in 1..(i + k) /\ out'[p] = out[p]
          /\ \A p \in 1..k : i + p \in 1..(i + k) /\ out'[i + p] = r[p]
          /\ \A p \in 1..(i + k) : p \in 1..i \/ \E j \in 1..k : p = i + j
          /\ \A p \in 1..i : Current(out', p) <=> Current(out, p)
      <4> DEFINE t == out \o r
      <4>1. /\ i \in Nat /\ k \in Nat /\ Len(t) = i + k
            /\ \A p \in 1..i : p \in 1..(i + k) /\ t[p] = out[p]
            /\ \A p \in 1..k : i + p \in 1..(i + k) /\ t[i + p] = r[p]
            /\ \A p \in 1..(i + k) : p \in 1..i \/ \E j \in 1..k : p = i + j
            /\ \A p \in 1..i : Current(t, p) <=> Current(out, p)
        BY <1>1, <1>7, <1>14, More
      <4>2. out' = t
        BY <2>1, <2>2
      <4> HIDE DEF t, i, k
      <4> QED BY ONLY <4>1, <4>2, Zenon
    <3> HIDE DEF i, k
    <3>2. Current(out', 1) <=> Current(out, 1)
      <4>1. CASE i = 0
        <5>1. \A p \in 1..(i + k) : out'[p].type # "connected"
          BY <1>14, <3>1, <4>1 DEF k
        <5> QED BY <3>1, <4>1, <5>1 DEF Current, i
      <4>2. CASE i # 0
        BY <3>1, <4>2
      <4> QED BY <4>1, <4>2
    <3>3. ASSUME NEW p \in 1..(i + k), Current(out', p) PROVE out'[p].type # "disconnected"
      <4>1. CASE p \in 1..i
        BY <1>20, <2>1, <2>2, <3>1, <3>3, <4>1 DEF PadInv, Attached, i
      <4>2. ASSUME NEW j \in 1..k, p = i + j PROVE out'[p].type # "disconnected"
        BY <1>7, <3>1, <4>2 DEF k
      <4> QED BY <3>1, <4>1, <4>2
    <3> QED BY <3>1, <3>2, <3>3 DEF Awaited
  <2>3. Attached'
    BY <1>6, <1>20, <2>1, <2>2 DEF PadInv, Attached
  <2>4. Agrees'
    <3> SUFFICES ASSUME channel' # "dead", NEW d \in Ids, NEW c \in Controls,
                        Own(d)', acked' => id' = d, NEW v \in Values,
                        Shows(out', devices'[d], d, c, v)
                 PROVE  /\ v \in {0, Reported(c)'}
                        /\ c \notin unheard' => v = Reported(c)'
                        /\ id' # d => v = 0
      BY DEF Agrees, Agreement, Values, Axes, Scaled, Stretched, Magnitude
    <3>1. Own(d) /\ (acked => id = d)
      BY <1>4, <1>6, <1>20, <2>2 DEF Own, known, to, Acknowledged
    <3>2. Agreement(d, c)
      BY <1>20, <2>1, <3>1 DEF PadInv, Agrees
    <3>3. CASE v = Reported(c)' /\ to = d
      BY <1>4, <3>3
    <3>4. CASE Shows(out, devices[d], d, c, v) /\ (c \notin news \/ to # d)
      <4>1. v \in {0, Reported(c)} /\ (c \notin unheard => v = Reported(c)) /\ (id # d => v = 0)
        BY <3>2, <3>4 DEF Agreement
      <4>2. to # d => ~known /\ to = id
        BY <1>4, <1>20 DEF known, to
      <4>3. CASE to # d
        <5>1. v = 0
          BY <4>1, <4>2, <4>3
        <5>2. c \notin unheard' => Reported(c)' = 0
          BY <1>4, <1>17, <4>2, <4>3 DEF Unacknowledged
        <5> QED BY <5>1, <5>2
      <4>4. CASE to = d
        <5>1. c \notin news /\ Reported(c)' = Reported(c)
          BY <1>9, <1>10, <1>20, <3>4, <4>4
        <5>2. c \notin unheard' => c \notin unheard
          BY <1>4, <1>20, <5>1
        <5> QED BY <1>4, <4>1, <4>4, <5>1, <5>2
      <4> QED BY <4>3, <4>4
    <3>5. Shows(out \o r, devices[d], d, c, v)
      BY <1>6, <2>1
    <3> QED BY <1>1, <1>19, <3>3, <3>4, <3>5
  <2> QED BY <1>15, <1>16, <1>17, <2>3, <2>4 DEF PadInv
<1>21. CASE ~attached
  <2> DEFINE s == Append(out, Connected(plugs))
  <2>1. channel' # "dead" => channel # "dead" /\ out' = s \o r
    <3>1. first = <<Connected(plugs)>> /\ out \o first = s
      BY <1>1, <1>11, <1>21, AppendProperties DEF first
    <3>2. (out \o first) \o r = out \o (first \o r)
      <4>1. out \in Seq(Messages) /\ first \in Seq(Messages) /\ r \in Seq(Messages)
        BY <1>1, <1>7, <1>11
      <4> QED BY ONLY <4>1, ConcatAssociative
    <3> HIDE DEF s
    <3> QED BY <1>13, <3>1, <3>2
  <2>2. /\ s \in Seq(Messages) /\ Len(s) \in Nat \ {0}
        /\ s[Len(s)].type = "connected"
    <3>1. /\ s \in Seq(Messages) /\ Len(s) = Len(out) + 1 /\ Len(out) \in Nat
          /\ s[Len(out) + 1] = Connected(plugs)
      BY <1>1, <1>11, <1>21, AppendProperties
    <3> HIDE DEF s
    <3> QED BY <3>1 DEF Connected
  <2>3. \A c, d, v, device : Shows(s, device, d, c, v) => Position(device, c) = v
    BY <1>1, <1>11, <1>21, ShownWithConnection DEF Connected
  <2> HIDE DEF s
  <2>4. ASSUME channel' # "dead"
        PROVE  /\ Awaited'
               /\ \A p \in 1..Len(out') : Current(out', p) => out'[p].type # "disconnected"
    <3> DEFINE i == Len(s)  k == Len(r)
    <3>1. /\ i \in Nat /\ k \in Nat /\ Len(out') = i + k
          /\ \A p \in 1..i : p \in 1..(i + k) /\ out'[p] = s[p]
          /\ \A p \in 1..k : i + p \in 1..(i + k) /\ out'[i + p] = r[p]
          /\ \A p \in 1..(i + k) : p \in 1..i \/ \E j \in 1..k : p = i + j
      BY <1>7, <1>14, <2>1, <2>2, <2>4, More
    <3>2. \A p \in 1..i : ~Current(out', p)
      <4> TAKE p \in 1..i
      <4>1. i \in p..(i + k) /\ i \in 1..i /\ s[i].type = "connected"
        BY <2>2, <3>1
      <4> HIDE DEF i, k
      <4>2. out'[i].type = "connected"
        BY <3>1, <4>1
      <4> QED BY <3>1, <4>1, <4>2 DEF Current
    <3>3. 1 \in 1..i
      BY <2>2
    <3> HIDE DEF i, k
    <3>4. ASSUME NEW p \in 1..(i + k), Current(out', p) PROVE out'[p].type # "disconnected"
      <4>1. PICK j \in 1..k : p = i + j
        BY <3>1, <3>2, <3>4
      <4>2. out'[p] = r[j]
        BY <3>1, <4>1
      <4> QED BY <1>7, <4>2 DEF k
    <3> QED BY <3>1, <3>2, <3>3, <3>4 DEF Awaited
  <2>5. Attached'
    BY <2>4 DEF Attached
  <2>6. Agrees'
    <3> SUFFICES ASSUME channel' # "dead", NEW d \in Ids, NEW c \in Controls,
                        Own(d)', acked' => id' = d, NEW v \in Values,
                        Shows(out', devices'[d], d, c, v)
                 PROVE  /\ v \in {0, Reported(c)'}
                        /\ c \notin unheard' => v = Reported(c)'
                        /\ id' # d => v = 0
      BY DEF Agrees, Agreement, Values, Axes, Scaled, Stretched, Magnitude
    <3>1. devices[d] = NoDevice
      BY <1>6, <2>4 DEF Own, PadInv, Answers
    <3>2. CASE v = Reported(c)' /\ to = d
      BY <1>4, <3>2
    <3>3. CASE Shows(s, devices[d], d, c, v)
      <4>1. v = 0
        BY <2>3, <3>1, <3>3 DEF Position, NoDevice
      <4>2. c \notin unheard' => Reported(c)' = 0
        BY <1>4, <1>17, <1>21 DEF Unacknowledged, known
      <4> QED BY <4>1, <4>2
    <3>4. Shows(s \o r, devices[d], d, c, v)
      BY <1>6, <2>1
    <3> QED BY <1>19, <2>2, <3>2, <3>3, <3>4
  <2> QED BY <1>15, <1>16, <1>17, <2>5, <2>6 DEF PadInv
<1> QED BY <1>20, <1>21

(* A frame without it.                                                     *)
LEMMA LeaveStep ==
  ASSUME PadInv, channel # "none", NEW n \in 0..Len(acks), Read(n), Leave(n),
         UNCHANGED <<padVars, serverVars>>
  PROVE  PadInv'
<1> USE DEF padVars, serverVars
<1> DEFINE to   == IF Acknowledged(n) THEN acks[1] ELSE id
           more == IF attached THEN <<Disconnected(to)>> ELSE <<>>
<1>1. /\ PadTypes /\ out \in Seq(Messages) /\ acks \in Seq(Ids) /\ channel \in {"open", "dead"}
  BY DEF PadInv, PadTypes
<1>2. /\ acks' \in Seq(Ids) /\ ToSet(acks') \subseteq ToSet(acks)
      /\ n > 0 => acks[1] \in Ids
  BY <1>1, ReadAnswers
<1>3. more \in Seq(Messages)
  <2>1. to \in Ids
    BY <1>1, <1>2 DEF PadTypes, Acknowledged
  <2>2. Disconnected(to) \in Messages
    BY <2>1 DEF Disconnected, Messages
  <2> QED BY <2>2
<1>4. Send(more)
  BY DEF Leave
<1> HIDE DEF more
<1>5. out' \in Seq(Messages) /\ channel' \in {"open", "dead"}
  BY <1>1, <1>3, <1>4, SentInOrder
<1>6. attached' = FALSE /\ acked' = FALSE /\ id' = Provisional /\ last' = {} /\ lastAxis' = 0
  BY DEF Leave
<1>7. PadTypes'
  <2>1. Provisional \in Ids /\ 0 \in Axes
    BY ScaledAxis, PadConstants DEF Provisional, Ids
  <2>2. lastAxis' \in Axes /\ last' \subseteq Inputs /\ id' \in Ids
    BY <1>6, <2>1
  <2> QED BY <1>1, <1>2, <1>5, <1>6, <2>2 DEF PadTypes
<1>8. Answers'
  BY <1>2, <1>6 DEF PadInv, Answers
<1> QED BY <1>6, <1>7, <1>8 DEF PadInv, Attached, Unacknowledged, Agrees

(* Every step keeps the invariant.                                         *)
LEMMA PadPreserved ==
  ASSUME PadInv, [PadNext]_inputVars
  PROVE  PadInv'
<1> USE DEF inputVars, padVars, clientVars
<1>1. PadTypes
  BY DEF PadInv
<1>2. CASE Plug
  <2>1. plugged' \in BOOLEAN
    BY <1>2 DEF Plug
  <2>2. plugs \in Nat /\ (plugs' = plugs \/ plugs' = plugs + 1)
    BY <1>1, <1>2 DEF Plug, PadTypes
  <2>3. plugs' \in Nat
    BY ONLY <2>2
  <2> QED BY <1>1, <1>2, <2>1, <2>3, Untouched DEF Plug, PadTypes
<1>3. CASE Change
  <2>1. down' \subseteq Inputs /\ stick' \in Sticks
    BY <1>1, <1>3 DEF Change, PadTypes
  <2> QED BY <1>1, <1>3, <2>1, Untouched DEF Change, PadTypes
<1>4. CASE Open
  BY <1>1, <1>4, Untouched DEF Open, PadTypes
<1>5. CASE DrawFrame
  BY <1>5, UpdateStep, LeaveStep DEF DrawFrame
<1>6. CASE Tick
  BY <1>1, <1>6, Untouched DEF Tick, PadTypes
<1>7. CASE Serve
  BY <1>7, GiveStep, ApplyStep DEF Serve
<1>8. CASE UNCHANGED inputVars
  BY <1>1, <1>8, Untouched DEF PadTypes
<1> QED BY <1>2, <1>3, <1>4, <1>5, <1>6, <1>7, <1>8 DEF PadNext

(* When all is quiet nothing is on its way: what shows is what is there.   *)
LEMMA PadInvAgrees ==
  ASSUME PadInv
  PROVE  ServerAgrees
<1> SUFFICES ASSUME Quiet, id = Last(given)
             PROVE  LET device == devices[id]
                    IN  /\ device.live
                        /\ device.held \subseteq down
                        /\ down \ unheard \subseteq device.held
                        /\ Distance(lastAxis, Scaled(stick)) <= Threshold =>
                             /\ "axis" \notin unheard =>
                                  Distance(device.axis, Scaled(stick)) <= Threshold
                             /\ Scaled(stick) = 0 => device.axis = 0
  BY DEF ServerAgrees
<1> DEFINE device == devices[id]
<1>1. /\ channel = "open" /\ out = <<>> /\ attached /\ acked /\ last = down
  BY DEF Quiet
<1>2. /\ id \in Ids /\ device \in Devices /\ down \subseteq Inputs /\ lastAxis \in Axes
  BY DEF PadInv, PadTypes
<1>3. Len(out) = 0 /\ ~Awaited
  BY <1>1 DEF Awaited, Current
<1>4. device.live /\ Own(id)
  BY <1>1, <1>3 DEF PadInv, Attached, Own
<1>5. device.axis \in Axes
  BY <1>2 DEF Devices
<1> HIDE DEF device
<1>6. ASSUME NEW c \in Controls
      PROVE  /\ Position(device, c) \in {0, Reported(c)}
             /\ c \notin unheard => Position(device, c) = Reported(c)
  <2>1. Position(device, c) \in Values
    BY <1>5 DEF Position, Values
  <2>2. Shows(out, device, id, c, Position(device, c))
    BY <1>3 DEF Shows
  <2>3. Agreement(id, c)
    BY <1>1, <1>2, <1>4 DEF PadInv, Agrees
  <2> QED BY <2>1, <2>2, <2>3 DEF Agreement, device
<1>7. ASSUME NEW c \in Inputs
      PROVE  /\ c \in Controls /\ Reported(c) = IF c \in down THEN 1 ELSE 0
             /\ Position(device, c) = IF c \in device.held THEN 1 ELSE 0
  BY <1>1, PadConstants DEF Controls, Reported, Position
<1>8. device.held \subseteq down
  <2>1. device.held \subseteq Inputs
    BY <1>2 DEF Devices, device
  <2> SUFFICES ASSUME NEW c \in device.held PROVE c \in down
    OBVIOUS
  <2> QED BY <1>6, <1>7, <2>1
<1>9. down \ unheard \subseteq device.held
  BY <1>2, <1>6, <1>7
<1>10. device.axis \in {0, lastAxis} /\ ("axis" \notin unheard => device.axis = lastAxis)
  BY <1>6 DEF Controls, Position, Reported
<1>11. ASSUME Distance(lastAxis, Scaled(stick)) <= Threshold, Scaled(stick) = 0
       PROVE  device.axis = 0
  <2>1. /\ lastAxis \in Int /\ Threshold \in Nat
        /\ lastAxis = 0 \/ Magnitude(lastAxis) > Threshold
    BY <1>2, ScaledAxis, PadConstants
  <2>2. lastAxis = 0
    BY <1>11, <2>1 DEF Magnitude, Distance
  <2> QED BY <1>10, <2>2
<1> QED BY <1>4, <1>8, <1>9, <1>10, <1>11 DEF device

(* When all is quiet the server holds down what the user does, but for     *)
(* what was pressed before its answer (controller_update and               *)
(* handle_control_event).                                                  *)
THEOREM PadAgrees == PadSpec => []ServerAgrees
<1>1. PadInit => PadInv
  BY PadInitially
<1>2. PadInv /\ [PadNext]_inputVars => PadInv'
  BY PadPreserved
<1>3. PadInv => ServerAgrees
  BY PadInvAgrees
<1> QED BY <1>1, <1>2, <1>3, PTL DEF PadSpec
=============================================================================
