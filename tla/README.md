# A TLA+ model of BoosterNX

BoosterNX is a Nintendo Switch client for the Boosteroid cloud gaming service
(C++20 on libnx, borealis for the user interface, libpeer for WebRTC, FFmpeg
and the deko3d or OpenGL renderer for video).  Its own code is `app/src`;
`extern` is vendored.  There is no test suite, so the reference is the code
and its comments.  This directory holds TLA+ modules translated from that
code, TLC configurations that check them on small instances, and TLAPS proofs
for every value of the constants.  `PROJECT.json` lists, for each definition,
the lines it translates; for each run, what it checks; for each property, a
mutant of the model that the property catches; and the hazards of the code
the properties are aimed at.

    tlc -config DecodeQueue.cfg MCDecodeQueue
    tlc -config Account.cfg Account
    tlapm DecodeQueueProofs.tla

## The system

| part | source | state | operations | talks to |
|---|---|---|---|---|
| decode queue | `webrtc/media.cpp`, `session.cpp`, `stream/DecodeQueuePolicy.hpp` | deque of access units, buffer pool, four recovery flags, keyframe timers and budget | deliver, queue, overflow; wait, pop, decode; poll for keyframes and stalls; stop | libpeer (RTP in, PLI out), decoder, UI |
| stream session | `webrtc/session.cpp`, `StreamView.cpp`, `boosteroid_control_channel.cpp`, `boosteroid_signaling_client.cpp` | socket and receive buffer, start gate, ICE lists, three threads | connect, poll, handle a message, negotiate, trickle and poll ICE, end of stream, teardown | server (WebSocket, HTTPS), libpeer, decode queue |
| picture queue | `stream/ffmpeg/AVFrameHolder.*`, `VideoFrameTiming.hpp`, renderers | two deques, the picture shown, generations, drop counts | push, pop at a target, draw, clean up | decoder thread, UI thread, audio clock |
| audio pipeline | `stream/audio/*` | jitter buffer, epoch and timeline, output queue | submit, reorder, conceal, decode, queue to the device, playback clock | network thread, own thread, picture queue |
| controller and touch | `webrtc/input.cpp`, `controller_*` | last state sent, provisional or server id, keyboard and mouse flags | connect, acknowledge, send changes, disconnect | UI, control channel |
| session launch | `boosteroid_client.cpp`, `ui_helpers.cpp` | launch flag, last-session poll, setup and queue deadlines, one-shot confirmation | look up, leave, create, await, confirm, cancel | HTTPS, realtime WebSocket, UI |
| image loader | `cover_image_cache.cpp` | three queues, pending requests, memory cache, three workers | request, prefetch, take, load, complete, shut down | UI cards, disk, HTTPS |
| storage | `atomic_file_replace.hpp`, `play_history.cpp`, `stream_settings.cpp` | JSON files, `.bak`, `.tmp` | load, replace, clear | file system |
| account, library, search | `LoginView.cpp`, `library_tab.cpp`, `search_tab.cpp`, `main_activity.cpp`, `app_state.cpp` | signed-in client, installed games, pending asynchronous results | sign in, sign out, reload, search | HTTPS, UI |
| WebSocket | `WebSocketClient.cpp` | TLS connection, receive buffer | connect, frame, send with retries, poll, close | control channel, realtime socket |
| renderers, decoder wrapper | `stream/deko3d`, `stream/OpenGL`, `FFmpegVideoDecoder.cpp` | mappings, rendered generation, codec | submit, draw | picture queue |
| journal, action guard, policies, views | the rest of `app/src` | breadcrumb file; otherwise pure functions and layout | | |

Threads: the UI thread (draws, polls the control socket, negotiates), and per
stream a network thread (libpeer), a decoder thread, an ICE poll thread and
an audio thread; for the program, three image workers and one task thread for
asynchronous requests.

What is hard, and what makes each part correct:

* **Decode queue.** Three threads, a condition variable, flags stored inside
  and outside the mutex, timers that limit each other.  Units must come out
  in order and be accounted for, nothing that depends on a lost unit may be
  decoded, a needed keyframe must be asked for, and stopping must end.
* **Stream session.** Messages arrive in any order and twice, requests fail
  anywhere in the negotiation, candidates are gathered before they may be
  sent, and everything can be stopped in the middle.  One negotiation, with
  its cause; candidates in order, after the answer; no use after teardown.
* **Picture queue.** Timestamps wrap around, generations start again with
  each stream, uploads fail.  Frame and generation stay together, pictures
  are shown in order, drops are justified and counted.
* **Image loader.** A raised priority leaves stale queue entries, requests
  join running loads, notifications can be spent on the wrong worker.  Every
  completion is called once, no image is loaded twice at a time.
* **Session launch.** The confirmation must be sent once (a second one locks
  the account out), no wait may be for ever, and a cancelled launch must
  neither start a stream nor report progress.
* **Audio.** Reordering, duplicates, wraparound and clock resets; a packet is
  played once and in order, the buffer is bounded, the clock never runs
  backwards within an epoch.
* **Pictures in GPU memory.** Nobody waits for the GPU: that a surface or a
  slot is not written again while a frame in flight reads it follows from the
  sizes of four rings, each counted by another clock.
* **Controller.** The server knows deltas only: every press needs its release
  under the same identity, and that identity changes while input is sent.
* **Storage.** A crash between two renames, a rename that is refused, a file
  left behind by the last crash: what is found afterwards must be a value
  somebody saved.
* **Account.** A result that arrives late meets a user who has signed out, in
  or away meanwhile; what is saved and what is shown must be of one account.

## The plan

In order of importance: (1) `DecodeQueue`, the threads the stream stands on;
(2) `StreamSession`, the protocol around it; (3) `FrameQueue`; (4)
`ImageLoader`; (5) `SessionLaunch`; (6) `AudioJitter`; (7) `VideoSurfaces`,
decoder and renderer; (8) `ControllerInput`; (9) `FileStore`, with crashes,
and the abstract `StoredValue` it implements; (10) `Account`, which composes
`FileStore` with the tabs and the task thread.  These are written.

Left: (11) `WebSocketFraming`, the receive buffer against a reference parser;
(12) the pure policies (end of stream, delivery pulses, backoff, dates)
against reference definitions; a lossy ordered channel that `DecodeQueue` and
`FrameQueue` implement, and a memoising loader for `ImageLoader`.

| module | models | checked by | proved in |
|---|---|---|---|
| `DecodeQueue` | decode queue, keyframe requests, stop | `MCDecodeQueue` with `DecodeQueue.cfg`, `DecodeQueueStop.cfg` | `DecodeQueueProofs` |
| `StreamSession` | control messages, negotiation, ICE, teardown | `MCStreamSession` with `StreamSession.cfg` | `StreamSessionProofs` |
| `FrameQueue` | pictures from decoder to screen | `FrameQueue.cfg` | `FrameQueueProofs` |
| `VideoSurfaces` | decoded pictures in GPU memory, NVDEC crash marker | `MCVideoSurfaces` with `VideoSurfaces.cfg` | `VideoSurfacesProofs` |
| `ImageLoader` | cover image loader and its cache | `MCImageLoader` with `ImageLoader.cfg` | `ImageLoaderProofs` |
| `SessionLaunch` | creating, awaiting, cancelling a session and its dialog | `SessionLaunch.cfg`, `SessionLaunchQueue.cfg` | `SessionLaunchProofs` |
| `AudioJitter` | jitter buffer, concealment, clock | `AudioJitter.cfg` | `AudioJitterProofs` |
| `ControllerInput` | gamepad, acknowledged ids, exit combination | `MCControllerInput` with `ControllerInput.cfg` | `StreamSessionProofs` |
| `StoredValue` | abstract: a value that is saved, whatever fails | | |
| `FileStore` | replacing a file, call by call, with crashes | as part of `Account` | `AccountProofs` |
| `Account` | sign-in, sign-out, startup gate, library and search tabs, saved session | `Account.cfg`, `AccountSearch.cfg` | `AccountProofs` |

Definitions named `Mutant...` are no part of a specification.  Each stands
before the definition it distorts and shows that a property would notice.
Properties whose comment begins with "Not promised", and two that quote a
comment of the source (`NoPreKeyframeUnit`, `ControlFailureSurfaces`), are
stated but not part of a run, because the code does not have them; the last
section but one says why.

## DecodeQueue

An access unit is its arrival number and whether it is an IDR; a delta unit
needs the unit that arrived just before it.  Program counters say where each
thread is.

* **Network thread** (`npc`): `Deliver` is `on_video_packet` up to the queue
  mutex, `EnqueueSkip`, `EnqueueOverflow` and `EnqueuePush` the three ways
  `enqueue_decode_unit` ends; `PeerCompleted`, `NetworkExit`.
* **Decoder thread** (`dpc`): `DecoderBlock` evaluates the wait predicate and
  `DecoderSleep` goes to sleep, two steps, since `request_stop` stores its
  flag without the mutex and can fall between them; `DecoderTake`,
  `DecoderSubmit` (the codec accepts or refuses, or gives no picture),
  `DecoderFinish`.  The flags that are stored after the decode, without the
  mutex, are one step.
* **UI thread** (`upc`): `PollInitialKeyframe`, `PollStartupRetry` or
  `PollNoRequest`, then `PollStallCheck`, `PollStallClear` (under the queue
  mutex), `PollStallFlag` (after it); `StopStore`, `StopNotify`, `StopJoin`.
* **Time** is the set `due` of timers that have run out; sending a request
  or a decoded picture takes timers out of it.

The buffer pool throws large buffers away, so recycling keeps any number of
the buffers it is given.  `fed`, `taken` and `staleClear` are history.

*Bounds.* 30 frames per second give a limit of two units, the smallest the
policy allows and the one that overflows most easily; three arrivals are an
overflow and a keyframe after it.  The request budgets 5 and 12 become 2 and
3: what matters is that they are spent, that a startup retry follows the first
request, and that the second is the larger.

*Runs.* `decode_queue`: order, drop accounts, guarded gaps; a queued unit
leaves the queue, and waiting for a keyframe after the first picture leads to
a request.  `decode_queue_stop` shows a disagreement, listed below.  Before
the first picture no keyframe is asked for again when the first one fails to
decode: `keyframe_needed_` (`keyNeeded`) is recorded and never read.

`GapGuarded` has two exceptions and they are the point: the stall recovery
empties the queue before it raises `resync`, safe only because it holds the
peer mutex; and `resync` may be cleared for a keyframe that is older than the
loss: delta units are then admitted after others were dropped while that
keyframe was being decoded.  So `NoPreKeyframeUnit`, after the comment "Do not
present corrupt or pre-keyframe pictures" (`FFmpegVideoDecoder.cpp:156`), does
not hold of what reaches the decoder.

*Fairness.* Threads run, frames are drawn, timers elapse (weak).  Who waits
for the queue mutex gets it in the end (strong, for the network thread's
queueing and the UI's clearing), since it is held for a few instructions.
Nothing makes the server send, the user stop or a condition variable wake by
itself.

*Proofs.* `DecodeQueueProofs` proves six invariants (also `BuffersBounded` and
`TeardownAfterJoin`, which no run checks) for every frame rate,
budgets and number of units, from `ConstantsAssumption` (the pool is larger
than the queue limit; the retry budget is no larger than the stall budget).
They are not inductive: `ThreadInv` adds what the mutexes and the order of
the stop guarantee (`running` and `stopReq` are opposites, a unit being
queued excludes a poll, a thread that exited saw `running` fall).  One lemma
per conjunct has one step per action; arithmetic over the next state is in
lemmas about plain numbers.

## StreamSession

The UI thread's frame is a chain of steps (`idle`, `drain`, `frames`,
`grace`, `input`, `end`); the negotiation hangs between two of them, from
the message loop or from the fallback, and blocks it.  A frame reads what has
arrived, then handles every message: `HandleEngineReady` (settings/webrtc),
`HandleBurst` (a stream/* message), `HandleGetStatus`, `HandleClose`.  Each
request of the negotiation (`Fetch`, `CreatePeer`, `CreateOffer`,
`SendOffer`, `SetRemoteDescription`, `FlushCandidates`) may fail; `SendOffer`
may also reach the server and lose its answer.  `NetworkLoop` lets libpeer
pass through its states, `IceFetch`, `IceAdd` and `IceSleep` are the ICE
thread, `StopIcePoll`, `JoinNetwork` and `CloseAndDestroy` the teardown.
Of libpeer (under `src/extern`) there are the states of the connection and a
candidate table with a limit that accepts duplicates.

*Assumption.* The candidates in the server's answer fit into libpeer's table:
`agent_set_remote_description` (`agent.c`:471) does not look whether they do, only
`peer_connection_add_ice_candidate` does.

*Bounds.* Two messages are enough for a repeated or late settings/webrtc, or
for one next to a burst; one remote candidate and a table of one show
duplicates and a full table; two local candidates show their order.

*Run.* `stream_session`: candidates after the answer and all of them, one
justified negotiation, teardown after the joins; the fallback starts, a stop
ends (also during an ICE poll).  `StreamView.cpp:187-189` says that failures
of the control channel "are still caught by is_control_channel_alive()", but
no failure of the socket clears that flag (`ControlFailureSurfaces`).

*Fairness.* Each thread is scheduled and a request returns, if only by its
time limit; the 20 s pass; a message on the wire is read in the end.  The
server, the user and the peer owe nothing, so no property says that video
arrives.

*Proofs.* `StreamSessionProofs` proves the three safety properties for any
number of messages and candidates and any size of libpeer's table.  Since
`webrtc_started_` is never taken back, each stage of the negotiation is passed
once (`Gate`), and what it establishes stays: the posted candidates are
numbered from one and the pending ones go on from there (`Gathered`), nothing
is posted before the answer and nothing pending when the polling begins
(`Answered`).  `Joined` follows the teardown.

## FrameQueue

`Push` is the decoder's; `BeginFrame` reads the target from the audio clock;
`PopReuse`, `PopHold`, `PopPresent` are the three outcomes of
`AVFrameQueue::pop` with the drops before them, and the drawing of what it
hands out, which may fail to upload.  `StopStream` and `StartStream` follow
the life of the singleton queue, whose generations start again.  The model
keeps true time beside timestamps (`now`, `at`); no decision reads it.

*Bounds.* Twenty timestamps, a clock that starts at 17 and runs to 22,
so that it wraps while pictures wait; a drift of at most four units and at
most two (`FrameTime`) from one frame of the UI to the next, with a full queue
of frames less than half the timestamps, as 2^31 ticks (6.6 hours) are in the
code; four pictures against limits of two and three; two streams.

*Runs.* `frame_queue`: pairing, order, counts, drops only for a newer
picture, and decisions that the wraparound does not mislead.
`QueueDrains`: no picture is held for ever, if frames are drawn and the
audio clock advances; the code promises nothing for a clock that stands.

*Proofs.* `FrameQueueProofs` proves `TypeOK`, `GenerationsMatch`,
`PicturesInOrder`, `PicturesAccounted`, `DropsForANewer` and
`WrapNeverMisleads` for every number of timestamps, limits, drift and any
number of pictures and streams.  The strengthening is that the generations
waiting are consecutive and end with the newest (only the front is ever
removed), and that nothing is left between two streams.  The wraparound asks
how far a waiting picture can fall behind the clock (`TimesInv`): every pop
moves the others up a place, except one that holds the oldest, and that one is
then ahead of the clock with all behind it.  A picture is therefore late by
the drift and one frame per place, at most, and `RealDistance` shows that the
wrapped difference is the difference in time while half the timestamps span
that; `ConstantsAssumption` asks it of the constants.

## VideoSurfaces

With NVDEC a picture is a surface that the decoder may fill again as soon as
no `AVFrame` refers to it.  `Decode` takes a free one and puts it into
`m_frames` and the picture queue (`Receive`: the second call of `get_frame`,
which finds nothing, empties the next place of the ring); `Draw` is a frame of
the UI thread, whose three ways are `DrawSame`, `DrawSurface` (with the
mapping cache, `Mapped`) and `DrawSlot` (without NVDEC); `GpuDone` lets the
GPU finish a frame.  The GPU is external: it finishes frames in order, and
the UI thread may be `Framebuffers` frames ahead of it.  `FrameQueue` is
reduced to what matters here: it hands out the picture of before or a later
one.  Around this goes the life of a session: `StartSession` consumes the
marker that an earlier crash left and sets up a decoder, `Mark` writes it,
`Stop`, `FreeRenderer`, `FreeDecoder`, `RemoveMarker` are `stop` in its order,
`Crash` comes anywhere.

*Assumptions.* Cloning a frame to retain it does not fail (only memory can make
it): `retainSubmittedFrame` would leave a picture that is drawn unprotected.  A session whose decoder could not be set up at all streams without one,
as the constructor ignores the result.  The marker is written after NVDEC was
set up, so that a crash during the set-up is not remembered, and whether it
could be written is ignored; `marked` records it.  A marker that was created
but not written may be there all the same, and one that could not be removed
(`RemoveFile`) stays.

*Bounds.* Five surfaces, which are interchangeable; three frames ahead of the
GPU and rings of exactly three, so that one place fewer would show; a mapping
cache of three and a limit of four; seven pictures, enough for mappings to be
erased before the current one; two streams, of which the first may crash.

*Run.* `video_surfaces`: nothing that a frame in flight reads is written or
given back; the screen shows the picture the renderer thinks it shows, and
the cache always has room; after a crash the next stream avoids NVDEC.

`MappingOutlivesFrame` is refuted: the age that makes a mapping erasable is
counted in pictures decoded, not drawn, so after pictures were dropped a
mapping may be erased that a frame in flight samples.  The surface itself is
still retained.

*Proofs.* `VideoSurfacesProofs` proves all three for every number of surfaces,
pictures and streams and all sizes that `ConstantsAssumption` allows: the
rings are at least as long as the UI thread is ahead, and the safe age leaves
room below the target.  The invariant measures everything by distance: the
k-th newest frame in flight samples one of the k last surfaces drawn
(`SamplesKept`), and its slice and slot are at most k places behind the next
(`SlotsBehind`, `SlicesBehind`).  For the cache: mappings have different
surfaces and different generations, so by the pigeonhole principle one of
`Target` mappings is older than the safe age, and at most one is erased at a
time.  `Remembered` follows the marker through the phases.

## ImageLoader

`RequestHit`, `RequestJoin` (which may raise the priority) and `RequestNew`
are the branches of `Request` (a prefetch has no completion); `Take` passes over stale entries,
`Loaded` and `LoadedLate` are the end of a load before and after the shutdown
began, `Call` calls one completion, the oldest.  A completion is the number of
its request; `open` (history) has those that are not yet called.  `Sleep`, `Exit`, `SpuriousWake` and the
notifications are explicit.  The disk cache and the download are one load that
succeeds or fails.

*Bounds.* Two workers and three images of sizes 1, 2 and 4 against a cache of
3, so that one fits nowhere and two do not fit together; three requests.

*Run.* `image_loader`: no request is lost or loaded twice, completions are
called once, the cache keeps its account, the more urgent image goes first,
every completion handed over is called, unless its image was still to be
loaded when the program shut down, and shutting down ends.

*Fairness.* A worker that is awake runs and a download ends (15 s limit).

*Proofs.* `ImageLoaderProofs` proves `NoLostRequest`, `SingleLoader` and
`UrgentFirst` for any images, workers (at least one) and requests.  A pending
image that no worker has started is in the queue of its present priority,
because only the entry that is not stale starts it; so the image taken is as
urgent as any that waits.  Every load has a started request of its own, and an
image that is pending is not in the cache.

`CompletionsOnce` (theorem `CompletionsKept`) needs more than it says (`Held`,
`Fresh`): the numbers of open completions have been given out and belong to one
image each; nothing waits for an image that is not pending, or `RequestNew`
would overwrite it; and a worker holds completions only while it calls them, or
`Loaded` would.  `CacheBounded` (`CacheCounted`) rests on what `TotalSize`, a
recursive function over the list, does when a list is split, joined and
extended.  These lemmas are inductions: two sums that differ do so at a least
position (`Least`, from the well-foundedness of <), where they cannot.

## SessionLaunch

Three things move: the task thread (`pc`), which runs one launch after the
other, the UI thread, which runs `posts` in order and lets the player press
Play, Cancel and B, and the deadlines.  `Resume` and `Enqueue` are
`CreateSession`; `FirstReport`, `EarlyCheck`, `ConnectRealtime` the way to the
loop of `CreateAndAwaitSession`.  The sleep is `Receive` (a slice that reads
the realtime socket; `ReceiveStart` sends the one-shot confirmation),
`ReportPosition`, `WakeUp`.  A poll is `PollConfirmed` when the confirmation
went through, else what last-session answers: `PollQueued` (EN),
`PollSettingUp`, `PollNotOurs`, `PollFails`.  A request and the report before
it are one step, since the report's own callback reads the flag again.
`Dismiss` and `FadeEnds` are borealis (under `src/extern`): a dialog is hidden
first, and its button's callback runs when the fade is over, so Cancel takes
effect late.  The player uses the controller, whose buttons do nothing
meanwhile; that a touch of a fading dialog would pop it again is left out
(`Account` has touches).

*Bounds.* Two launches, so that one waits behind a cancelled one (with
three, the safety properties were checked too); three realtime messages, so that a confirmation is
refused and pushed again after a position.  `posts` keeps one of several
equal callbacks in a row, which have one effect.

*Runs.* `session_launch`: one confirmation, no callback into a destroyed
dialog, one stream at a time, a cancelled launch gives way, a confirmed one
ends, and every wait the server answers for ends.  `session_launch_queue`
shows the disagreement below.

The model has another race that no comment speaks of: while the dialog that
was cancelled fades out, a start callback still starts the stream, and closes
the dialog a second time, which blocks input twice and unblocks it once.

*Fairness.* The task thread, the callbacks, the fades and the clocks.  The
server owes no particular answer and the player nothing.

*Proofs.* `SessionLaunchProofs` proves the three safety properties for any
number of launches and messages.  What a step of the task adds to `posts` is
progress of its own launch, or ends with the callback that ends the launch
(`WorkingPosts`); so an error or start callback is the last of its launch
(`LastPosts`), a dialog that went while its flag was set has no callback left,
and a callback that finds the flag set belongs to the newest dialog
(`AskedDialog`), since older ones are gone (`Dialogs`).

## AudioJitter

`SubmitReset`, `SubmitLate` and `SubmitInsert` are the ways `submit` ends on
the network thread: a new epoch, a packet that comes too late, one put in its
place.  On the audio thread `Loop` honours a requested reset, `TakePacket`,
`TakeRedundant` and `TakeGap` are what `take_next` may hand out, and
`Conceal`, `DecodeFirst`, `Decode` what becomes of it; `Output` is
`submit_pcm`, which drops a frame at the limit or when the device refuses it.
The session joins the network thread before it stops the pipeline, so `Stop`
races with the audio thread only.

*Assumption.* `InReach`: a packet that starts no epoch is less than half of the
sequence numbers away from those it is compared with.  It follows the last one
within 500 ms (or `submit` starts an epoch), and half of 2^16 packets are
minutes; `int16_t(a - b)` means nothing beyond.  How long the stream is does not
matter.

*Bounds.* Five packets with eight sequence numbers, across the wraparound (6 to
2), so that the first and the last are out of reach of each other; a buffer of
three, primed with two, and a jump of more than two.

*Run.* `audio_jitter`: the buffer is ordered and holds nothing stale, which
would make the thread conceal without end; what is refused as late is before
what is expected (played, recovered or concealed, or older than the packet the
buffer was primed with, or pushed out of it when it was full); the clock
that pictures are timed by counts every frame, concealed or not, and lags by
exactly the frames that were dropped at the device.  It never catches up with
those within an epoch.

*Proofs.* `AudioJitterProofs` proves all three properties, for any number of
sequence numbers, any sizes, and streams of any length.  `Distance` is the
arithmetic: within reach, the wrapped difference is the distance in the stream.
The invariant says that packets in the buffer are near each other and near what
is expected (`Near`), so that a sequence number found in the buffer is the
packet wanted and no other; that what is in the buffer has arrived, so that
nothing is inserted twice (`Buffer`); and that, while no reset is asked for, a
base implies a primed buffer and the unit in hand is the packet before `next` or
a gap (`Clock`).  That an insertion keeps the order takes the lemmas on
`InsertAt`, `RemoveAt` and `SelectInSeq`.

## ControllerInput

`DrawFrame` is `StreamView::draw` as far as it concerns the gamepad: `poll` reads
the answers that have arrived, then `PollGamepads` compares the pad with what
was reported last (`Update`, `Leave`) and sends what changed.  `Deliver` sends
until a message fails, which leaves the socket dead; `Send` without a socket
drops silently.  The server is external: it gives an id to every `connected`,
answers with it, and ignores input for ids it has not given.  Buttons,
triggers and the d-pad are held or not; one stick axis stands for four, with
the dead zone that is cut off twice, once by `StreamView` and once by
`controller_update`.  A change of the d-pad sends the mask of all four
directions; the module sends the one that changed, which says less.

*Bounds.* An ordinary button and the exit combination; a stick at rest and at
two positions of its left half that differ by no more than the threshold (the
proof is for positions on both sides); connecting the pad twice and three
changes, enough for a press, an unplugging and a release in between.

*Run.* `controller_input`: when nothing is on its way, and the answer taken
was that to the present connection, the server holds what the user holds;
whoever keeps the exit combination down gets out.

*Fairness.* The UI draws, time passes, the server reads.  The user owes
nothing.

What the properties leave out, because the code does: what was pressed before
the server's answer goes to the local index and is not sent again (`unheard`).
An answer is told by the name alone, so after a quick unplug and replug that
to the earlier connection is taken (`AckIsOwn`).  A pad that is unplugged
while the combination is down leaves its clock running, and the stream ends
in the frame it is back with the combination down (`ExitOnlyHeld`).  With a
dead zone below the change threshold a stick let go of may leave a residue;
the module assumes it is above.

*Proof.* `PadAgrees`, in the second part of `StreamSessionProofs`:
`ServerAgrees` for any finite set of inputs, any positions of the stick and any
number of connections.  The property is about the moment when nothing is on its way; the
invariant (`PadInv`) is about what a control of the device will show when the
messages on their way have been served (`Shows`): what was reported last, or
rest.  Until the answer is taken nobody knows which id the connection has, so
it is stated for every id that is still free (`Own`), and before the connection
is served such an id has no device.  Input goes to the local index until then,
which may happen to be the id or not: if not, the control is at rest
(`Agreement`).  Three lemmas say what becomes of `Shows` when messages are
added (`ShownWithMore`, `ShownWithConnection`) and when one is served
(`ShownOfTail`).

## FileStore and StoredValue

`FileStore` is `ReplaceWithTemporaryFile` with the writing before it, one file
system call per action; `Outcome` lets any call fail, `Install` may be refused
because the destination exists (FAT) and `Crash` comes between any two.  `ClearFile` and
`ClearBackup` are `ClearSavedSession`.  `Checked` distinguishes the callers:
`SaveSession` does not look whether the temporary file was written.

`StoredValue` says what a reader is promised: he finds what was there, what was
saved last, what an earlier save had drafted, or nothing; and a save during
which nothing failed has taken effect.  Two things follow from the code that
one may not expect, and both are in it.  The loader never reads the backup: a
crash between the two renames loses the value, though it lies in `.bak`.  And
a save that cannot open its temporary file installs the draft an earlier crash
left there, if `Checked` is false.

*Proofs.* `AccountProofs`, in its first part: `FileSpec` implements `StoredValue` under the
refinement of `Stored` (the hidden value is the backup while the save is
between the two renames), for every set of contents, both kinds of caller and
any number of failures, with `FileInvariant`: what a save that nothing
disturbed has established before each call.

## Account

The UI thread, the task thread of borealis and the files.  `Start` is the
startup gate; requests (`tasks`) run in order and post results (`posts`), the
UI thread takes them between the user's inputs.  A sign-in saves the session
on the task thread, with the actions of `FileStore`, before its result is
posted; `Logout` and `LogoutEnds` clear the file on the UI thread, also in the
middle of such a save.  They are also the sign-out of the settings, which
leaves the library tab's games alone.  A view that is destroyed orphans what it
waited for when its fade ends.  borealis deletes it a little later, at the end of
that iteration of the main loop (`application.cpp`:201-216), after the results of
the same iteration: a sign-in that comes exactly then still finds the form, and
sets the session to the account its task has saved.  The module leaves that one
iteration out.
Buttons are blocked while a token is out (`Back`), touches are not: they reach
the form while it fades out (`Input`).
`End` is the end of the program anywhere; `Start` then finds the files.

*Assumptions.* An account stands for its session and its library, which is
taken not to be empty.  A callback that goes on reading from a closure freed
with its form reads it unchanged, or the program ends (`End`).

*Bounds.* Two accounts, three starts or sign-ins together, one failing file
system call.

*Runs.* `account`: once no sign-in is under way, the saved session is the one
the user sees, with two exceptions (`parted`): a sign-in that ends after its
form was left has been saved, though nobody is signed in; and the file system
failed.  The composed system still implements `StoredValue`.  A refresh and
the gate are answered.  `account_search` shows the disagreement below.

A sign-in that succeeds while its form fades out pops it a second time, and
the token that blocks the buttons is never given back: from then on the tabs
take touches only.  That is in the model (`PopForm`), and no property forbids
it, since no comment speaks of it.

*Fairness.* Requests and file calls return, the UI thread runs its posts and
its handlers.

*Proofs.* `AccountProofs` proves `ImplementsStoredValue` for `Account`, from the
refinement of `FileStore` and an invariant on the queues: what is saved is the
account of a request, never nobody's.

`SavedMatchesSession` (theorem `SavedAgrees`) is about the quiet states only, so
the invariant says what holds on the way to them (`Session`).  Which requests
and results can be there on which screen, and which are orphaned (`Screens`,
`DeadItems`); how far a save has got (`SaveOK`); and, unless something has been
lost already (`parted`) or will be when a result finds its form gone (`Doomed`),
what the file holds: the account of the newest sign-in that waits in `posts`, or
else of the session in memory (`Newest`).

## Disagreements

| run | what the comment says | what the code does |
|---|---|---|
| `decode_queue_stop` | `StreamView.cpp:247`: hold the keys "to cancel and go back" | the decoder can miss the only notification of the stop and the join waits for ever |
| `session_launch_queue` | `boosteroid_client.hpp:168`: queued sessions "time out with an actionable error instead of hanging forever" | polls that do not find the game in last-session check no deadline |
| `account_search` | `search_tab.hpp:14`: "this only searches the signed-in user's own library" | signing out leaves AppState's library and the search tab's copy, and the tab shows them to the next user |

Stated in the modules, not part of a run, and not true of the code:
`NoPreKeyframeUnit` (DecodeQueue), `ControlFailureSurfaces` (StreamSession),
`MappingOutlivesFrame` (VideoSurfaces), `AckIsOwn` and `ExitOnlyHeld`
(ControllerInput).  TLC finds a counterexample when one of them is added to
the module's configuration; the sections above say what it is.

`CHECK_DEADLOCK FALSE` stands in the configurations of `Account`,
`VideoSurfaces` and `ControllerInput`: their users and streams are bounded and
the system may then rest.

## What is not modelled, or only checked

* Model-checked only: liveness, whatever the module.  Liveness under fairness
  and ENABLED are out of reach of the installed provers.  So are the library's
  induction theorems, whose parameter is an operator; the inductions that were
  needed go by the least counterexample instead.
* Contents: SDP, JSON, H.264 beyond the IDR flag, RTP depacketization
  (libpeer), WebSocket framing and TLS, shaders, layout and texts.
* The OpenGL renderer, which the console build leaves out.
* Data races on `pc_` are listed as a hazard; no property covers undefined
  behaviour of the libraries.
* The audio jitter hold (`take_next` gives up waiting for it after 12 ms),
  volume, sender reports and the count of samples played.
* Mouse and keyboard input: the session has senders for both that nothing
  calls.  Touch and rumble.
* Pure functions and views: settings, localization, grid navigation, the
  journal, stream quality and end policies; see `PROJECT.json` for the status
  of every component.
