----------------------------- MODULE StreamSession -----------------------------
(***************************************************************************)
(* One stream from its start to its end: StreamView draws a frame at a     *)
(* time and, each frame, polls the control socket (WebSocketClient,        *)
(* BoosteroidControlChannel), starts the WebRTC negotiation when the       *)
(* server says so (WebRtcSession::start_webrtc_media), reads the gamepad   *)
(* and checks whether the stream has to end.  All of that is one thread,   *)
(* and the negotiation blocks it.  Beside it run the network thread, which *)
(* drives the peer connection, and the thread that polls the server for    *)
(* its ICE candidates.                                                     *)
(*                                                                         *)
(* peer_mutex_ is left implicit: the UI thread owns it while it posts the  *)
(* buffered candidates, the two other threads for the length of one step.  *)
(* What the decoder does with the video, and the keyframe requests of      *)
(* poll, are module DecodeQueue.                                           *)
(***************************************************************************)
EXTENDS Integers, Sequences, FiniteSets, Functions

CONSTANTS
  Remote,     \* ICE candidates the server may offer
  TableSize,  \* remote candidates libpeer has room for (10)
  MaxLocal,   \* bound of the model: local candidates gathered
  MaxFrames   \* bound of the model: messages the server sends

ASSUME ConstantsAssumption ==
  /\ IsFiniteSet(Remote)
  /\ TableSize \in Nat
  /\ MaxLocal \in Nat
  /\ MaxFrames \in Nat

(* settings/webrtc, a stream/* message, stream/getstatus, a close frame.   *)
Frames == {"engine", "burst", "getstatus", "close"}

VARIABLES
  upc,          \* UI thread: where it is
  ret,          \* UI thread: where it goes on after a negotiation
  sock,         \* the control socket
  alive,        \* control_channel_alive_
  wire,         \* messages of the server on their way
  rx,           \* rx_buffer_: messages read and not yet handled
  hangup,       \* the server has closed the connection
  sent,         \* how many messages the server has sent
  started,      \* webrtc_started_
  burst,        \* first_session_active_at_ is set
  graceUp,      \* 20 s have passed since
  peer,         \* pc_ and its state
  pending,      \* pending_local_ice_
  canSend,      \* ice_can_send_
  posted,       \* candidates POSTed to addIceCandidate, in order
  gathered,     \* how many local candidates were gathered
  registered,   \* the server has handled our call request
  offered,      \* candidates the server answers getIceCandidate with
  table,        \* libpeer's remote candidates: how often it holds each
  added,        \* added_remote_ice_
  batch,        \* candidates of the last poll still to be added
  ipc,          \* ICE poll thread: where it is
  iceRun,       \* ice_poll_running_
  npc,          \* network thread: running or exited
  netRun,       \* network_running_
  stopReq,      \* stop_requested_ and exit_requested_ (set together)
  video,        \* got_video_track_
  asked,        \* the server sent getstatus and waits for the reply
  engineSeen,   \* history: settings/webrtc was handled
  negotiations  \* history: how often start_webrtc_media ran

uiVars   == <<upc, ret>>
sockVars == <<sock, alive, wire, rx, hangup, sent, asked>>
gateVars == <<started, burst, graceUp, engineSeen, negotiations>>
offVars  == <<pending, canSend, posted, gathered, registered>>
iceVars  == <<offered, added, batch, ipc, iceRun>>
netVars  == <<npc, netRun, video>>
vars == <<uiVars, sockVars, gateVars, offVars, iceVars, netVars, peer, table, stopReq>>

PeerStates == {"none", "new", "checking", "connected", "completed", "failed", "closed"}
TableLoad  == {c \in Remote : table[c] > 0}

(* The UI thread posts the buffered candidates with peer_mutex_ held.      *)
PeerMutexFree == upc # "flush"

-----------------------------------------------------------------------------
(* start(): the workers run already when the control socket is opened.      *)
Connect ==
  /\ upc = "connect"
  /\ upc' = "idle"
  /\ \/ sock' = "open" /\ alive' = TRUE
     \/ sock' = "none" /\ UNCHANGED alive
  /\ UNCHANGED <<ret, wire, rx, hangup, sent, asked, gateVars, offVars, iceVars,
                 netVars, peer, table, stopReq>>

(* StreamView::draw, then WebRtcSession::poll.                             *)
BeginFrame ==
  /\ upc = "idle"
  /\ ~stopReq
  /\ upc' = IF sock = "open" THEN "drain" ELSE "grace"
  /\ UNCHANGED <<ret, sockVars, gateVars, offVars, iceVars, netVars, peer,
                 table, stopReq>>

(* WebSocketClient::poll reads what has arrived; the end of the connection *)
(* is noticed after the last message.                                      *)
Drain ==
  /\ upc = "drain"
  /\ upc' = "frames"
  /\ \E n \in 0..Len(wire) :
       /\ rx' = rx \o SubSeq(wire, 1, n)
       /\ wire' = SubSeq(wire, n + 1, Len(wire))
       /\ sock' = IF hangup /\ n = Len(wire) THEN "dead" ELSE sock
  /\ UNCHANGED <<ret, alive, hangup, sent, asked, gateVars, offVars, iceVars,
                 netVars, peer, table, stopReq>>

(* Mutant: the flag is set but not looked at. *)
MutantStartMedia(next) ==
  /\ started' = TRUE
  /\ negotiations' = negotiations + 1
  /\ upc' = "fetch"
  /\ ret' = next

(* if (!webrtc_started_.exchange(true)) start_webrtc_media()               *)
StartMedia(next) ==
  IF started
  THEN UNCHANGED <<started, negotiations>> /\ upc' = next /\ UNCHANGED ret
  ELSE /\ started' = TRUE
       /\ negotiations' = negotiations + 1
       /\ upc' = "fetch"
       /\ ret' = next

NextFrame(kind) ==
  /\ upc = "frames"
  /\ rx # <<>>
  /\ Head(rx) = kind
  /\ rx' = Tail(rx)

HandleEngineReady ==
  /\ NextFrame("engine")
  /\ engineSeen' = TRUE
  /\ StartMedia("frames")
  /\ UNCHANGED <<sock, alive, wire, hangup, sent, asked, burst, graceUp, offVars,
                 iceVars, netVars, peer, table, stopReq>>

(* SessionActive: only the first burst before the start is recorded.       *)
RecordBurst == burst' = IF started THEN burst ELSE TRUE

HandleBurst ==
  /\ NextFrame("burst")
  /\ RecordBurst
  /\ UNCHANGED <<uiVars, sock, alive, wire, hangup, sent, asked, started, graceUp,
                 engineSeen, negotiations, offVars, iceVars, netVars, peer,
                 table, stopReq>>

(* The readiness reply goes out if the socket takes it.                    *)
SendStatusHandshake ==
  IF sock = "open"
  THEN \/ asked' = FALSE /\ UNCHANGED sock
       \/ sock' = "dead" /\ UNCHANGED asked
  ELSE UNCHANGED <<sock, asked>>

HandleGetStatus ==
  /\ NextFrame("getstatus")
  /\ SendStatusHandshake
  /\ RecordBurst
  /\ UNCHANGED <<uiVars, alive, wire, hangup, sent, started, graceUp, engineSeen,
                 negotiations, offVars, iceVars, netVars, peer, table, stopReq>>

(* A close frame is echoed; the frames behind it are still handled.        *)
HandleClose ==
  /\ NextFrame("close")
  /\ sock' = "dead"
  /\ UNCHANGED <<uiVars, alive, wire, hangup, sent, asked, gateVars, offVars,
                 iceVars, netVars, peer, table, stopReq>>

FramesDone ==
  /\ upc = "frames"
  /\ rx = <<>>
  /\ upc' = "grace"
  /\ UNCHANGED <<ret, sockVars, gateVars, offVars, iceVars, netVars, peer,
                 table, stopReq>>

(* Mutant: the fallback belongs to the socket's branch of poll. *)
MutantFallbackOffline == ~started /\ burst /\ graceUp /\ sock = "open"

(* The fallback for a session another device has already initialized.      *)
FallbackDue == ~started /\ burst /\ graceUp

GraceCheck ==
  /\ upc = "grace"
  /\ IF FallbackDue
     THEN StartMedia("input")
     ELSE upc' = "input" /\ UNCHANGED <<ret, started, negotiations>>
  /\ UNCHANGED <<sockVars, burst, graceUp, engineSeen, offVars, iceVars, netVars,
                 peer, table, stopReq>>

-----------------------------------------------------------------------------
(* start_webrtc_media: every request may fail, and a failure ends it.       *)

Abort ==
  /\ upc' = ret
  /\ UNCHANGED <<ret, sockVars, gateVars, iceVars, netVars, table, stopReq>>

NegotiationStep(here, there) ==
  /\ upc = here
  /\ upc' = there
  /\ UNCHANGED <<ret, sockVars, gateVars, netVars, stopReq>>

(* getIceServers and getParams.                                            *)
Fetch ==
  \/ /\ NegotiationStep("fetch", "create")
     /\ UNCHANGED <<offVars, iceVars, peer, table>>
  \/ upc = "fetch" /\ Abort /\ UNCHANGED <<offVars, peer>>

(* setup_peer_connection: from here on the network thread runs the peer.   *)
CreatePeer ==
  \/ /\ NegotiationStep("create", "offer")
     /\ peer' = "new"
     /\ UNCHANGED <<offVars, iceVars, table>>
  \/ upc = "create" /\ Abort /\ UNCHANGED <<offVars, peer>>

(* on_ice_candidate, for all the candidates gathered at once: sent if the  *)
(* answer is in, else buffered.                                            *)
OnIceCandidates(new) ==
  IF canSend
  THEN posted' = posted \o new /\ UNCHANGED pending
  ELSE pending' = pending \o new /\ UNCHANGED posted

(* peer_connection_create_offer gathers, synchronously.                    *)
CreateOffer ==
  \/ /\ NegotiationStep("offer", "call")
     /\ \E n \in 0..MaxLocal :
          /\ gathered' = gathered + n
          /\ OnIceCandidates([i \in 1..n |-> gathered + i])
     /\ UNCHANGED <<canSend, registered, iceVars, peer, table>>
  \/ upc = "offer" /\ Abort /\ UNCHANGED <<offVars, peer>>

(* SendOffer: the request may reach the server and its answer be lost.     *)
SendOffer ==
  \/ /\ NegotiationStep("call", "answer")
     /\ registered' = TRUE
     /\ UNCHANGED <<pending, canSend, posted, gathered, iceVars, peer,
                    table>>
  \/ /\ upc = "call"
     /\ Abort
     /\ registered' \in {registered, TRUE}
     /\ UNCHANGED <<pending, canSend, posted, gathered, peer>>

(* peer_connection_set_remote_description: the answer may carry candidates. *)
(* libpeer does not look whether they fit into its table: that they do is   *)
(* an assumption about the server.                                          *)
SetRemoteDescription ==
  /\ NegotiationStep("answer", "flush")
  /\ peer' = "checking"
  /\ \E C \in SUBSET offered :
       /\ Cardinality(C) <= TableSize
       /\ table' = [c \in Remote |-> IF c \in C THEN table[c] + 1 ELSE table[c]]
  /\ UNCHANGED <<pending, canSend, posted, gathered, registered, iceVars>>

(* Mutant: the loop ends with the first candidate and clears the buffer. *)
MutantRemaining(buffer) == <<>>

Remaining(buffer) == Tail(buffer)

(* The buffered candidates are posted in order, then cleared; no failure   *)
(* stops this.                                                             *)
FlushCandidates ==
  /\ upc = "flush"
  /\ canSend' = TRUE
  /\ IF pending # <<>>
     THEN /\ posted' = Append(posted, Head(pending))
          /\ pending' = Remaining(pending)
          /\ UNCHANGED <<upc, ipc, iceRun>>
     ELSE /\ upc' = ret
          /\ iceRun' = TRUE
          /\ ipc' = IF iceRun THEN ipc ELSE "fetch"
          /\ UNCHANGED <<posted, pending>>
  /\ UNCHANGED <<ret, sockVars, gateVars, gathered, registered, offered,
                 added, batch, netVars, peer, table, stopReq>>

-----------------------------------------------------------------------------
(* The rest of the frame: gamepad, end of stream, and the stop              *)

BeginStop == upc' = "joinIce" /\ stopReq' = TRUE /\ netRun' = FALSE

(* PollGamepads: the exit combination has been held for 900 ms, or not.    *)
PollGamepads ==
  /\ upc = "input"
  /\ \/ BeginStop
     \/ upc' = "end" /\ UNCHANGED <<stopReq, netRun>>
  /\ UNCHANGED <<ret, sockVars, gateVars, offVars, iceVars, npc, video, peer, table>>

(* UpdateStreamEndState: only the loss of the network after video ends it. *)
UpdateStreamEnd ==
  /\ upc = "end"
  /\ \/ video /\ BeginStop
     \/ upc' = "idle" /\ UNCHANGED <<stopReq, netRun>>
  /\ UNCHANGED <<ret, sockVars, gateVars, offVars, iceVars, npc, video, peer, table>>

(* Mutant: the ICE poll is told to stop and not joined. *)
MutantStopIcePoll ==
  /\ upc = "joinIce"
  /\ iceRun' = FALSE
  /\ upc' = "joinNet"
  /\ UNCHANGED <<ret, sockVars, gateVars, offVars, offered, added, batch, ipc,
                 netVars, peer, table, stopReq>>

(* stop_ice_poll_worker                                                    *)
StopIcePoll ==
  /\ upc = "joinIce"
  /\ iceRun' = FALSE
  /\ upc' = IF ipc \in {"none", "done"} THEN "joinNet" ELSE "joinIce"
  /\ iceRun \/ ipc \in {"none", "done"}
  /\ UNCHANGED <<ret, sockVars, gateVars, offVars, offered, added, batch, ipc,
                 netVars, peer, table, stopReq>>

JoinNetwork ==
  /\ upc = "joinNet"
  /\ npc = "exited"
  /\ upc' = "close"
  /\ UNCHANGED <<ret, sockVars, gateVars, offVars, iceVars, netVars, peer, table,
                 stopReq>>

(* The control socket is closed, the peer connection destroyed.            *)
CloseAndDestroy ==
  /\ upc = "close"
  /\ sock' = "none"
  /\ alive' = FALSE
  /\ peer' = "none"
  /\ upc' = "stopped"
  /\ UNCHANGED <<ret, wire, rx, hangup, sent, asked, gateVars, offVars, iceVars,
                 netVars, table, stopReq>>

Stopped == upc = "stopped" /\ UNCHANGED vars

-----------------------------------------------------------------------------
(* Network thread: network_loop over libpeer's states                       *)

PeerProgress ==
  \/ peer = "checking" /\ TableLoad # {} /\ peer' \in {"connected", "failed"}
  \/ peer = "connected" /\ peer' \in {"completed", "checking", "failed"}
  \/ peer = "completed" /\ peer' = "closed"

NetworkLoop ==
  /\ npc = "run"
  /\ PeerMutexFree
  /\ PeerProgress
  /\ UNCHANGED <<uiVars, sockVars, gateVars, offVars, iceVars, netVars, table,
                 stopReq>>

(* The server sends video once it has its readiness reply.                 *)
VideoArrives ==
  /\ npc = "run"
  /\ PeerMutexFree
  /\ peer = "completed"
  /\ ~asked
  /\ ~video
  /\ video' = TRUE
  /\ UNCHANGED <<uiVars, sockVars, gateVars, offVars, iceVars, npc, netRun, peer,
                 table, stopReq>>

NetworkExit ==
  /\ npc = "run"
  /\ ~netRun
  /\ PeerMutexFree
  /\ npc' = "exited"
  /\ UNCHANGED <<uiVars, sockVars, gateVars, offVars, iceVars, netRun, video,
                 peer, table, stopReq>>

-----------------------------------------------------------------------------
(* ICE poll thread                                                          *)

(* Mutant: the poll runs until the connection is closed. *)
MutantKeepPolling == peer # "closed"

KeepPolling == iceRun /\ ~stopReq

(* PollRemoteIceCandidates returns the whole list, or nothing on a failure. *)
IceFetch ==
  /\ ipc = "fetch"
  /\ IF KeepPolling
     THEN /\ batch' \in {offered, {}}
          /\ ipc' = "add"
     ELSE ipc' = "done" /\ UNCHANGED batch
  /\ UNCHANGED <<uiVars, sockVars, gateVars, offVars, offered, added, iceRun,
                 netVars, peer, table, stopReq>>

(* A candidate that was in an earlier answer is skipped; libpeer refuses   *)
(* one that its table has no room for.                                     *)
AlreadyAdded(c) == c \in added

TableCount == SumFunction(table)

IceAdd ==
  /\ ipc = "add"
  /\ PeerMutexFree
  /\ \E c \in batch :
       /\ batch' = batch \ {c}
       /\ IF peer = "none" \/ AlreadyAdded(c)
          THEN UNCHANGED <<added, table>>
          ELSE /\ added' = added \cup {c}
               /\ table' = IF TableCount < TableSize
                           THEN [table EXCEPT ![c] = @ + 1] ELSE table
  /\ UNCHANGED <<uiVars, sockVars, gateVars, offVars, offered, ipc, iceRun,
                 netVars, peer, stopReq>>

(* The batch is done; the next poll is a second later.                     *)
IceSleep ==
  /\ ipc = "add"
  /\ batch = {}
  /\ ipc' = "fetch"
  /\ UNCHANGED <<uiVars, sockVars, gateVars, offVars, offered, added, batch,
                 iceRun, netVars, peer, table, stopReq>>

-----------------------------------------------------------------------------
(* The server, the network and time                                         *)

ServerSend(kind) ==
  /\ sock = "open"
  /\ ~hangup
  /\ sent < MaxFrames
  /\ kind = "getstatus" => peer = "completed" /\ ~asked
  /\ wire' = Append(wire, kind)
  /\ sent' = sent + 1
  /\ asked' = IF kind = "getstatus" THEN TRUE ELSE asked
  /\ UNCHANGED <<uiVars, sock, alive, rx, hangup, gateVars, offVars, iceVars,
                 netVars, peer, table, stopReq>>

ServerHangup ==
  /\ sock = "open"
  /\ ~hangup
  /\ hangup' = TRUE
  /\ UNCHANGED <<uiVars, sock, alive, wire, rx, sent, asked, gateVars, offVars,
                 iceVars, netVars, peer, table, stopReq>>

ServerGathers(c) ==
  /\ registered \/ upc = "call"
  /\ c \notin offered
  /\ offered' = offered \cup {c}
  /\ UNCHANGED <<uiVars, sockVars, gateVars, offVars, added, batch, ipc, iceRun,
                 netVars, peer, table, stopReq>>

GraceElapses ==
  /\ burst
  /\ ~graceUp
  /\ graceUp' = TRUE
  /\ UNCHANGED <<uiVars, sockVars, started, burst, engineSeen, negotiations,
                 offVars, iceVars, netVars, peer, table, stopReq>>

-----------------------------------------------------------------------------
Init ==
  /\ upc = "connect" /\ ret = "input"
  /\ sock = "none" /\ alive = FALSE /\ wire = <<>> /\ rx = <<>>
  /\ hangup = FALSE /\ sent = 0 /\ asked = FALSE
  /\ started = FALSE /\ burst = FALSE /\ graceUp = FALSE
  /\ engineSeen = FALSE /\ negotiations = 0
  /\ peer = "none" /\ table = [c \in Remote |-> 0]
  /\ pending = <<>> /\ canSend = FALSE /\ posted = <<>> /\ gathered = 0
  /\ registered = FALSE
  /\ offered = {} /\ added = {} /\ batch = {}
  /\ ipc = "none" /\ iceRun = FALSE
  /\ npc = "run" /\ netRun = TRUE /\ video = FALSE
  /\ stopReq = FALSE

Negotiation ==
  \/ Fetch \/ CreatePeer \/ CreateOffer \/ SendOffer \/ SetRemoteDescription
  \/ FlushCandidates

Frame ==
  \/ Connect \/ BeginFrame \/ Drain
  \/ HandleEngineReady \/ HandleBurst \/ HandleGetStatus \/ HandleClose
  \/ FramesDone \/ GraceCheck \/ PollGamepads \/ UpdateStreamEnd

Stop == StopIcePoll \/ JoinNetwork \/ CloseAndDestroy

UI == Frame \/ Negotiation \/ Stop

IcePoll == IceFetch \/ IceAdd \/ IceSleep

Next ==
  \/ UI \/ Stopped
  \/ NetworkLoop \/ VideoArrives \/ NetworkExit
  \/ IcePoll
  \/ \E kind \in Frames : ServerSend(kind)
  \/ ServerHangup
  \/ \E c \in Remote : ServerGathers(c)
  \/ GraceElapses

Spec == Init /\ [][Next]_vars

(***************************************************************************)
(* Every thread is scheduled: frames are drawn, and a request to the       *)
(* server returns, if only by failing (each has a time limit).  Twenty     *)
(* seconds pass.  A message on the wire is read in the end: a frame that   *)
(* finds nothing to read is not repeated for ever.  The server, the user   *)
(* and the peer owe nothing.                                               *)
(***************************************************************************)
Fairness ==
  /\ WF_vars(UI)
  /\ SF_vars(Drain /\ wire' # wire)
  /\ WF_vars(NetworkExit)
  /\ WF_vars(IcePoll)
  /\ WF_vars(GraceElapses)

FairSpec == Spec /\ Fairness
-----------------------------------------------------------------------------
(* Properties                                                               *)

(* Every variable keeps its type.                                          *)
TypeOK ==
  /\ upc \in {"connect", "idle", "drain", "frames", "grace", "fetch", "create",
              "offer", "call", "answer", "flush", "input", "end", "joinIce",
              "joinNet", "close", "stopped"}
  /\ ret \in {"frames", "input"}
  /\ sock \in {"none", "open", "dead"}
  /\ wire \in Seq(Frames) /\ rx \in Seq(Frames)
  /\ sent \in 0..MaxFrames
  /\ {alive, hangup, asked, started, burst, graceUp, engineSeen, canSend,
      registered, iceRun, netRun, video, stopReq} \subseteq BOOLEAN
  /\ negotiations \in Nat /\ gathered \in Nat
  /\ peer \in PeerStates
  /\ table \in [Remote -> Nat]
  /\ pending \in Seq(1..gathered) /\ posted \in Seq(1..gathered)
  /\ Len(pending) + Len(posted) <= MaxLocal
  /\ {offered, added, batch} \subseteq SUBSET Remote
  /\ ipc \in {"none", "fetch", "add", "done"}
  /\ npc \in {"run", "exited"}

(* No candidate is posted to a server that has not registered our peer: it *)
(* would be lost (the "earlyCandidates" of the original client).           *)
AnswerBeforeCandidates == posted # <<>> => registered /\ canSend

(* Whatever was gathered is posted once and in order or still buffered,    *)
(* never before the answer, and the buffer is empty once the ICE polling   *)
(* runs.                                                                   *)
LocalCandidatesDelivered ==
  /\ AnswerBeforeCandidates
  /\ posted \o pending = [i \in 1..gathered |-> i]
  /\ ipc # "none" => pending = <<>>

(* Signaling starts on settings/webrtc, or 20 s after a stream/* message   *)
(* that no settings/webrtc followed; whatever else the server sends.       *)
StartJustified == negotiations > 0 => engineSeen \/ (burst /\ graceUp)

(* The session is negotiated once, however the two triggers interleave,    *)
(* and not without a cause.                                                *)
OneNegotiation == TypeOK /\ StartJustified /\ negotiations <= 1

(* The peer connection is destroyed when no thread can use it.             *)
TeardownAfterJoin ==
  upc \in {"close", "stopped"} =>
    npc = "exited" /\ ipc \in {"none", "done"} /\ ~iceRun

(* One stream/* message is enough: if settings/webrtc never comes, the     *)
(* negotiation starts all the same.                                        *)
FallbackStarts == burst ~> (started \/ stopReq)

(* A stop comes to an end, also in the middle of an ICE poll.              *)
StopEnds == stopReq ~> (upc = "stopped")

(* StreamView.cpp:187-189: "session/control-channel failures are still     *)
(* caught by is_control_channel_alive()".                                  *)
ControlFailureSurfaces == (sock = "dead") ~> (~alive)
=============================================================================
