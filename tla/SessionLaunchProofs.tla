-------------------------- MODULE SessionLaunchProofs --------------------------
(***************************************************************************)
(* Proofs, for any number of launches and of realtime messages, of the     *)
(* safety properties of SessionLaunch.                                     *)
(*                                                                         *)
(* A dialog outlives the callbacks that touch it for one reason: the last  *)
(* callback of a launch, and no other, shows an error or starts a stream.  *)
(* Only then can its dialog go while LaunchSessionState::running is set.   *)
(***************************************************************************)
EXTENDS SessionLaunch, TLAPS, SequenceTheorems

Kinds == {"progress", "error", "start"}
Post  == [launch : Launches, kind : Kinds]

(* Confirmed at most once, and only then preferred.                        *)
OneShot ==
  /\ attempted \in BOOLEAN /\ preferred \in BOOLEAN
  /\ confirms = IF attempted THEN 1 ELSE 0
  /\ preferred => attempted

(* The variables that keep their type whatever the order of the steps.     *)
Types ==
  /\ launch \in 0..MaxLaunches /\ task \in 0..launch
  /\ dialog \in [Launches -> {"none", "open", "failed", "gone"} \cup Fading]
  /\ running \in [Launches -> BOOLEAN]
  /\ posts \in Seq(Post)
  /\ pc \in {"idle", "resume", "resumed", "enqueue", "enqueued", "early", "connect",
             "sleep", "poll", "return"}
  /\ pc # "idle" => task # 0
  /\ answer \in {"complete", "partial"}
  /\ {socket, fresh, reacted, queuedLate} \subseteq BOOLEAN
  /\ messages \in 0..MaxMessages
  /\ setup \in {"unset", "running", "late"}

(* The dialogs of older launches are gone, and only a dialog that fades    *)
(* out, or was destroyed while it did, blocks input.                       *)
Dialogs ==
  /\ \A l \in Launches : l < launch => dialog[l] = "gone"
  /\ \A l \in Launches : l > launch => dialog[l] = "none"
  /\ \A l \in Launches : dialog[l] \in Fading => blocked = 1
  /\ blocked \in {0, 1}
  /\ \A l \in Launches : dialog[l] \in {"open", "failed"} => blocked = 0
  /\ stream \in {0, launch}

NoPosts(l) == \A i \in 1..Len(posts) : posts[i].launch # l

(* What ends a launch is its last callback.                                *)
LastPosts ==
  /\ \A i \in 1..Len(posts) : posts[i].launch <= task
  /\ \A i \in 1..Len(posts) : posts[i].kind # "progress" =>
       /\ Done(posts[i].launch)
       /\ \A j \in 1..Len(posts) : i < j => posts[j].launch # posts[i].launch
  /\ \A l \in Launches : dialog[l] \in {"failed", "dismissing"} => Done(l) /\ NoPosts(l)
  /\ \A l \in Launches : dialog[l] = "gone" /\ running[l] => Done(l) /\ NoPosts(l)

IInv == OneShot /\ Types /\ Dialogs /\ LastPosts

-----------------------------------------------------------------------------
(* No step confirms a second time.                                         *)
LEMMA OneShotStep == OneShot /\ [Next]_vars => OneShot'
<1> SUFFICES ASSUME OneShot, [Next]_vars PROVE OneShot'
  OBVIOUS
<1> USE DEF OneShot
<1>1. CASE Receive
  <2>1. CASE UNCHANGED <<attempted, confirms, preferred>>
    BY <2>1
  <2>2. CASE ~attempted /\ Confirm
    <3>1. attempted' = TRUE /\ preferred' \in BOOLEAN /\ confirms' = confirms + 1
      BY <2>2 DEF Confirm
    <3>2. confirms' = 1
      BY <2>2, <3>1
    <3> QED
      BY <3>1, <3>2
  <2> QED
    BY <1>1, <2>1, <2>2 DEF Receive, ReceivePosition, ReceiveStart
<1>2. CASE StartTask
  BY <1>2 DEF StartTask
<1>3. CASE ~Receive /\ ~StartTask
  <2>1. UNCHANGED <<attempted, confirms, preferred>>
    BY <1>3 DEF Next, TaskSteps, Create, Resume, Enqueue, FirstReport, EarlyCheck,
      ConnectRealtime, ReportPosition, WakeUp, Poll, PollConfirmed, PollQueued,
      PollSettingUp, PollNotOurs, PollFails, ReturnSession, SocketDies, Play, RunPost,
      EndStream, PressCancel, PressBack, FadeEnds, QueueTimeout, SetupTimeout, Ended,
      socketVars, vars
  <2> QED
    BY <2>1
<1> QED
  BY <1>1, <1>2, <1>3

-----------------------------------------------------------------------------
(* What the task thread does to the callbacks: q is posts with progress    *)
(* callbacks of its launch after it; or with others, the last of which may *)
(* end the launch.                                                         *)
Grows(q) ==
  /\ q \in Seq(Post)
  /\ Len(posts) <= Len(q)
  /\ \A i \in 1..Len(posts) : q[i] = posts[i]
  /\ \A i \in 1..Len(q) : Len(posts) < i => q[i].launch = task

Adds(q) ==
  Grows(q) /\ \A i \in 1..Len(q) : Len(posts) < i => q[i].kind = "progress"

Ends(q) ==
  Grows(q) /\ \A i \in 1..Len(q) :
                Len(posts) < i /\ i < Len(q) => q[i].kind = "progress"

LEMMA AddsNothing ==
  ASSUME Types PROVE Adds(posts)
BY LenProperties DEF Types, Adds, Grows

LEMMA Appending ==
  ASSUME Types, task \in Launches, NEW q, Adds(q), NEW kind \in Kinds
  PROVE  /\ Ends(Posting(q, kind))
         /\ kind = "progress" => Adds(Posting(q, kind))
<1> DEFINE post == [launch |-> task, kind |-> kind]
<1>1. post \in Post /\ post.launch = task /\ post.kind = kind
  BY DEF Post
<1>2. q \in Seq(Post) /\ Len(q) \in Nat /\ Len(posts) \in Nat
  BY LenProperties DEF Adds, Grows, Types
<1>3. CASE Posting(q, kind) = q
  BY <1>3 DEF Adds, Ends
<1>4. CASE Posting(q, kind) = Append(q, post)
  <2> DEFINE r == Append(q, post)
  <2>1. r \in Seq(Post) /\ Len(r) = Len(q) + 1
    BY <1>1, <1>2, AppendProperties
  <2>2. \A i \in 1..Len(q) : r[i] = q[i]
    BY <1>1, <1>2, AppendProperties
  <2>3. r[Len(q) + 1] = post
    BY <1>1, <1>2, AppendProperties
  <2> HIDE DEF r, post
  <2>4. Len(posts) <= Len(q)
    BY DEF Adds, Grows
  <2>5. \A i \in 1..Len(posts) : r[i] = posts[i]
    BY <1>2, <2>2, <2>4 DEF Adds, Grows
  <2>6. \A i \in 1..Len(r) : Len(posts) < i => r[i].launch = task
    <3> TAKE i \in 1..Len(r)
    <3>1. CASE i \in 1..Len(q)
      BY <2>2, <3>1 DEF Adds, Grows
    <3>2. CASE i = Len(q) + 1
      BY <1>1, <2>3, <3>2
    <3> QED
      BY <1>2, <2>1, <3>1, <3>2
  <2>7. \A i \in 1..Len(q) : Len(posts) < i => r[i].kind = "progress"
    BY <2>2 DEF Adds
  <2>8. Grows(r)
    BY <1>2, <2>1, <2>4, <2>5, <2>6 DEF Grows
  <2>9. Ends(r)
    BY <1>2, <2>1, <2>7, <2>8 DEF Ends
  <2>10. ASSUME kind = "progress" PROVE Adds(r)
    <3>1. r[Len(q) + 1].kind = "progress"
      BY <1>1, <2>3, <2>10
    <3> QED
      BY <1>2, <2>1, <2>7, <2>8, <3>1 DEF Adds
  <2> QED
    BY <1>4, <2>9, <2>10 DEF r, post
<1> QED
  BY <1>3, <1>4 DEF Posting

(* The steps of a task under way, the socket and the clocks.               *)
Working ==
  Create \/ ReportPosition \/ WakeUp \/ Poll \/ ReturnSession \/ Receive \/ SocketDies

LEMMA WorkingPosts ==
  ASSUME Types, Working
  PROVE  /\ pc # "idle" /\ task' = task /\ UNCHANGED uiVars
         /\ Adds(posts') \/ (Ends(posts') /\ pc' = "idle")
<1>1. pc # "idle" /\ task' = task /\ UNCHANGED uiVars
  BY DEF Working, Create, Resume, Enqueue, FirstReport, EarlyCheck, ConnectRealtime,
    ReportPosition, WakeUp, Poll, PollConfirmed, PollQueued, PollSettingUp, PollNotOurs,
    PollFails, ReturnSession, Receive, SocketDies
<1>2. task \in Launches
  BY <1>1, ConstantsAssumption DEF Types, Launches
<1>3. Adds(posts) /\ Adds(Progress)
  BY <1>2, AddsNothing, Appending DEF Progress, Kinds
<1>4. /\ Ends(Posting(posts, "error")) /\ Ends(Posting(Progress, "error"))
      /\ Ends(Posting(Progress, "start"))
  BY <1>2, <1>3, Appending DEF Kinds
<1>5. \/ posts' \in {posts, Progress}
      \/ /\ posts' \in {posts, Posting(posts, "error"), Posting(Progress, "error"),
                       Posting(Progress, "start")}
         /\ pc' = "idle"
  <2>1. CASE Create \/ ReportPosition \/ WakeUp \/ Receive \/ SocketDies
    BY <2>1 DEF Create, Resume, Enqueue, FirstReport, EarlyCheck, ConnectRealtime,
      ReportPosition, WakeUp, Receive, SocketDies, Throw, ThrowAfter, Reported, Ready,
      NotReady
  <2>2. CASE Poll
    BY <2>2 DEF Poll, PollConfirmed, PollQueued, PollSettingUp, PollNotOurs, PollFails,
      AwaitSetup, AwaitQueue, CancelledPoll, Interrupted, Throw, ThrowAfter, Reported,
      Ready, NotReady
  <2>3. CASE ReturnSession
    BY <2>3 DEF ReturnSession, Types
  <2> QED
    BY <2>1, <2>2, <2>3 DEF Working
<1> QED
  BY <1>1, <1>3, <1>4, <1>5 DEF Adds, Ends

-----------------------------------------------------------------------------
LEMMA LaunchOfPost ==
  ASSUME Types PROVE \A i \in 1..Len(posts) : posts[i].launch \in Nat
<1> SUFFICES ASSUME NEW i \in 1..Len(posts) PROVE posts[i].launch \in Nat
  OBVIOUS
<1>1. posts[i] \in Post
  BY ElementOfSeq DEF Types
<1>2. posts[i].launch \in Launches
  BY <1>1 DEF Post
<1> QED
  BY <1>2, ConstantsAssumption DEF Launches

(* The first callback is taken off.                                        *)
LEMMA TailOfPosts ==
  ASSUME Types, posts # <<>>, posts' = Tail(posts)
  PROVE  /\ Head(posts) = posts[1] /\ Head(posts) \in Post
         /\ Len(posts) \in Nat \ {0}
         /\ posts' \in Seq(Post) /\ Len(posts') = Len(posts) - 1
         /\ \A i \in 1..Len(posts') : posts'[i] = posts[i + 1]
BY HeadTailProperties, LenProperties, EmptySeq DEF Types

(* Every variable keeps its type.                                          *)
LEMMA TypesStep == Types /\ [Next]_vars => Types'
<1> SUFFICES ASSUME Types, [Next]_vars PROVE Types'
  OBVIOUS
<1>1. CASE Working
  <2>1. posts' \in Seq(Post) /\ task' = task /\ pc # "idle"
    BY <1>1, WorkingPosts DEF Adds, Ends, Grows
  <2>2. /\ UNCHANGED uiVars
        /\ pc' \in {"idle", "resume", "resumed", "enqueue", "enqueued", "early", "connect",
                    "sleep", "poll", "return"}
        /\ answer' \in {"complete", "partial"}
        /\ {socket', fresh', reacted', queuedLate'} \subseteq BOOLEAN
        /\ setup' \in {"unset", "running", "late"}
    <3>1. CASE Create \/ ReportPosition \/ WakeUp \/ Receive \/ SocketDies
      BY <3>1 DEF Types, Create, Resume, Enqueue, FirstReport, EarlyCheck,
        ConnectRealtime, ReportPosition, WakeUp, Receive, ReceivePosition, ReceiveStart,
        SocketDies, Throw, ThrowAfter, Ready, NotReady, socketVars, waitVars
    <3>2. CASE Poll
      BY <3>2 DEF Types, Poll, PollConfirmed, PollQueued, PollSettingUp, PollNotOurs,
        PollFails, AwaitSetup, AwaitQueue, CancelledPoll, Interrupted, Throw, ThrowAfter,
        Ready, NotReady, socketVars, waitVars
    <3>3. CASE ReturnSession
      BY <3>3 DEF Types, ReturnSession, socketVars, waitVars
    <3> QED
      BY <1>1, <3>1, <3>2, <3>3 DEF Working
  <2>3. messages' \in 0..MaxMessages
    BY <1>1, ConstantsAssumption DEF Types, Working, Create, Resume, Enqueue,
      FirstReport, EarlyCheck, ConnectRealtime, ReportPosition, WakeUp, Receive,
      SocketDies, Poll, PollConfirmed, PollQueued, PollSettingUp, PollNotOurs, PollFails,
      ReturnSession, socketVars
  <2> QED
    BY <2>1, <2>2, <2>3 DEF Types, uiVars
<1>2. CASE StartTask
  <2>1. task' \in 0..launch /\ task' # 0
    BY <1>2, ConstantsAssumption DEF StartTask, Types
  <2>2. messages' \in 0..MaxMessages
    BY <1>2, ConstantsAssumption DEF StartTask
  <2> QED
    BY <1>2, <2>1, <2>2 DEF StartTask, Types, uiVars
<1>3. CASE Play
  <2>1. launch' = launch + 1 /\ launch' \in Launches
    BY <1>3, ConstantsAssumption DEF Play, Types, Launches
  <2> QED
    BY <1>3, <2>1, ConstantsAssumption DEF Play, Types, socketVars, waitVars
<1>4. CASE RunPost
  <2>1. posts' \in Seq(Post) /\ Head(posts).launch \in Launches
    BY <1>4, TailOfPosts DEF RunPost, Post
  <2>2. /\ dialog' \in [Launches -> {"none", "open", "failed", "gone"} \cup Fading]
        /\ running' \in [Launches -> BOOLEAN]
    <3> DEFINE l == Head(posts).launch
    <3>1. dialog' \in {dialog, [dialog EXCEPT ![l] = "failed"],
                       [dialog EXCEPT ![l] = "closing"], [dialog EXCEPT ![l] = "gone"]}
      BY <1>4, TailOfPosts DEF RunPost, Post, Kinds, Asks, ShowError, StartStream, Dismiss
    <3>2. running' \in {running, [running EXCEPT ![l] = FALSE]}
      BY <1>4, TailOfPosts DEF RunPost, Post, Kinds, Asks, ShowError, StartStream
    <3> QED
      BY <2>1, <3>1, <3>2 DEF Types, Fading
  <2>3. stream' = stream \/ stream' \in Launches
    BY <1>4, <2>1, TailOfPosts DEF RunPost, Post, Kinds, Asks, ShowError, StartStream
  <2> QED
    BY <1>4, <2>1, <2>2 DEF RunPost, Types, socketVars, waitVars
<1>5. CASE \E l \in Launches : PressCancel(l) \/ PressBack(l) \/ FadeEnds(l)
  BY <1>5 DEF PressCancel, PressBack, FadeEnds, Dismiss, Closed, Fading, Types,
    socketVars, waitVars
<1>6. CASE EndStream \/ QueueTimeout \/ SetupTimeout \/ Ended \/ UNCHANGED vars
  BY <1>6 DEF EndStream, QueueTimeout, SetupTimeout, Ended, Types, vars, uiVars,
    socketVars, waitVars
<1> QED
  BY <1>1, <1>2, <1>3, <1>4, <1>5, <1>6 DEF Next, TaskSteps, Working

(* What an entry of posts says, if the invariant holds.                    *)
LEMMA AskedDialog ==
  ASSUME Types, Dialogs, LastPosts, posts # <<>>, running[Head(posts).launch],
         posts' = Tail(posts)
  PROVE  /\ Head(posts).launch = launch /\ launch \in Launches
         /\ dialog[launch] \notin {"failed", "dismissing", "gone"}
<1> DEFINE l == Head(posts).launch
<1>1. /\ l \in Launches /\ l = posts[1].launch /\ 1 \in 1..Len(posts)
      /\ l \in Nat /\ launch \in Nat /\ task \in Nat /\ task <= launch
  BY TailOfPosts, ConstantsAssumption DEF Post, Types, Launches
<1>2. ~NoPosts(l) /\ l <= launch
  BY <1>1 DEF NoPosts, LastPosts
<1>3. dialog[l] \notin {"failed", "dismissing", "gone"}
  BY <1>1, <1>2 DEF LastPosts
<1>4. l = launch
  BY <1>1, <1>2, <1>3 DEF Dialogs
<1> QED
  BY <1>1, <1>3, <1>4

(* Only the newest dialog changes, and input is blocked while it fades.    *)
LEMMA DialogsStep ==
  ASSUME Types, Dialogs, LastPosts, [Next]_vars PROVE Dialogs'
<1> USE DEF Dialogs
<1>1. CASE Working \/ StartTask
  BY <1>1, WorkingPosts DEF StartTask, uiVars
<1>2. CASE Play
  <2>1. /\ launch' = launch + 1 /\ launch' \in Launches /\ launch \in Nat
        /\ launch > 0 => dialog[launch] = "gone" /\ launch \in Launches
        /\ blocked = 0 /\ blocked' = blocked /\ stream = 0 /\ stream' = stream
        /\ dialog' = [dialog EXCEPT ![launch + 1] = "open"]
    BY <1>2, ConstantsAssumption DEF Play, Types, Launches
  <2>2. \A l \in Launches : l # launch + 1 => dialog'[l] = dialog[l]
    BY <2>1 DEF Types
  <2>3. dialog'[launch + 1] = "open"
    BY <2>1 DEF Types
  <2>4. \A l \in Launches : l < launch' => dialog'[l] = "gone"
    BY <2>1, <2>2, ConstantsAssumption DEF Launches
  <2>5. \A l \in Launches : l > launch' => dialog'[l] = "none"
    BY <2>1, <2>2, ConstantsAssumption DEF Launches
  <2>6. \A l \in Launches : dialog'[l] \notin Fading
    BY <2>1, <2>2, <2>3, ConstantsAssumption DEF Launches, Fading
  <2> QED
    BY <2>1, <2>4, <2>5, <2>6
<1>3. CASE RunPost
  <2>1. CASE running[Head(posts).launch] /\ Head(posts).kind \in {"error", "start"}
    <3>1. /\ Head(posts).launch = launch /\ launch \in Launches /\ launch' = launch
          /\ dialog[launch] \notin {"failed", "dismissing", "gone"}
      BY <1>3, <2>1, AskedDialog DEF RunPost
    <3>2. CASE Head(posts).kind = "error"
      <4>1. /\ dialog' = IF dialog[launch] = "open"
                           THEN [dialog EXCEPT ![launch] = "failed"] ELSE dialog
            /\ UNCHANGED <<blocked, stream>>
        BY <1>3, <2>1, <3>1, <3>2 DEF RunPost, Asks, ShowError
      <4>2. \A l \in Launches : dialog'[l] = dialog[l] \/ (l = launch /\ dialog'[l] = "failed" /\ dialog[l] = "open")
        BY <3>1, <4>1 DEF Types
      <4> QED
        BY <3>1, <4>1, <4>2, ConstantsAssumption DEF Launches, Fading
    <3>3. CASE Head(posts).kind = "start"
      <4>1. StartStream(launch)
        BY <1>3, <2>1, <3>1, <3>3 DEF RunPost, Asks
      <4>2. CASE dialog[launch] = "open"
        <5>1. /\ dialog' = [dialog EXCEPT ![launch] = "closing"]
              /\ blocked' = blocked + 1 /\ stream' = launch
          BY <4>1, <4>2 DEF StartStream, Dismiss
        <5>2. blocked' = 1
          BY <3>1, <4>2, <5>1
        <5>3. \A l \in Launches : l # launch => dialog'[l] = dialog[l]
          BY <5>1 DEF Types
        <5>4. dialog'[launch] = "closing"
          BY <3>1, <5>1 DEF Types
        <5>5. \A l \in Launches : l # launch => dialog'[l] \in {"gone", "none"}
          BY <3>1, <5>3, ConstantsAssumption DEF Launches, Types
        <5> QED
          BY <3>1, <5>1, <5>2, <5>3, <5>4, <5>5, ConstantsAssumption DEF Launches, Fading
      <4>3. CASE dialog[launch] # "open"
        <5>1. /\ dialog' = [dialog EXCEPT ![launch] = "gone"]
              /\ blocked' = blocked /\ stream' = launch
          BY <4>1, <4>3 DEF StartStream
        <5>2. \A l \in Launches : l # launch => dialog'[l] = dialog[l]
          BY <5>1 DEF Types
        <5>3. dialog'[launch] = "gone"
          BY <3>1, <5>1 DEF Types
        <5> QED
          BY <3>1, <5>1, <5>2, <5>3, ConstantsAssumption DEF Launches, Fading
      <4> QED
        BY <4>2, <4>3
    <3> QED
      BY <2>1, <3>2, <3>3
  <2>2. CASE ~(running[Head(posts).launch] /\ Head(posts).kind \in {"error", "start"})
    <3>1. Head(posts).kind \in Kinds
      BY <1>3, TailOfPosts DEF RunPost, Post
    <3>2. UNCHANGED <<launch, dialog, blocked, stream>>
      BY <1>3, <2>2, <3>1 DEF RunPost, Asks, Kinds
    <3> QED
      BY <3>2
  <2> QED
    BY <2>1, <2>2
<1>4. CASE \E l \in Launches : PressCancel(l) \/ PressBack(l)
  <2>1. PICK l \in Launches : PressCancel(l) \/ PressBack(l)
    BY <1>4
  <2>2. PICK fade \in Fading : dialog' = [dialog EXCEPT ![l] = fade]
    BY <2>1 DEF PressCancel, PressBack, Dismiss, Fading
  <2>3. /\ dialog[l] \in {"open", "failed"} /\ blocked = 0 /\ blocked' = blocked + 1
        /\ UNCHANGED <<launch, stream>>
    BY <2>1 DEF PressCancel, PressBack, Dismiss
  <2>4. l = launch /\ blocked' = 1
    BY <2>3, ConstantsAssumption DEF Types, Launches
  <2>5. \A m \in Launches : m # l => dialog'[m] = dialog[m] /\ dialog'[m] \in {"gone", "none"}
    BY <2>2, <2>4, ConstantsAssumption DEF Types, Launches
  <2>6. dialog'[l] \in Fading
    BY <2>2 DEF Types
  <2> QED
    BY <2>3, <2>4, <2>5, <2>6, ConstantsAssumption DEF Launches, Fading
<1>5. CASE \E l \in Launches : FadeEnds(l)
  <2>1. PICK l \in Launches : FadeEnds(l)
    BY <1>5
  <2>2. /\ dialog[l] \in Fading /\ dialog' = [dialog EXCEPT ![l] = "gone"]
        /\ blocked' = blocked - 1 /\ UNCHANGED <<launch, stream>>
    BY <2>1 DEF FadeEnds
  <2>3. l = launch /\ blocked' = 0
    BY <2>2, ConstantsAssumption DEF Types, Launches, Fading
  <2>4. \A m \in Launches : m # l => dialog'[m] = dialog[m] /\ dialog'[m] \in {"gone", "none"}
    BY <2>2, <2>3, ConstantsAssumption DEF Types, Launches
  <2>5. dialog'[l] = "gone"
    BY <2>2 DEF Types
  <2> QED
    BY <2>2, <2>3, <2>4, <2>5, ConstantsAssumption DEF Launches, Fading
<1>6. CASE EndStream \/ QueueTimeout \/ SetupTimeout \/ Ended \/ UNCHANGED vars
  BY <1>6 DEF EndStream, QueueTimeout, SetupTimeout, Ended, vars, uiVars
<1> QED
  BY <1>1, <1>2, <1>3, <1>4, <1>5, <1>6 DEF Next, TaskSteps, Working

(* Callbacks that a launch under way adds are not those of another one,    *)
(* and one that ends it is its last.                                       *)
LEMMA WorkingKeepsLast ==
  ASSUME Types, LastPosts, Working PROVE LastPosts'
<1> USE DEF LastPosts
<1>1. /\ task' = task /\ pc # "idle" /\ UNCHANGED <<launch, dialog, running>>
      /\ task \in Nat /\ Len(posts) \in Nat /\ Len(posts') \in Nat
  BY WorkingPosts, ConstantsAssumption, LenProperties DEF Types, uiVars, Adds, Ends, Grows
<1>2. /\ \A i \in 1..Len(posts) : i \in 1..Len(posts') /\ posts'[i] = posts[i]
      /\ \A i \in 1..Len(posts') : Len(posts) < i => posts'[i].launch = task
  BY WorkingPosts, <1>1 DEF Adds, Ends, Grows
<1>3. \A i \in 1..Len(posts') : Len(posts) < i /\ posts'[i].kind # "progress" =>
        pc' = "idle" /\ i = Len(posts')
  BY WorkingPosts, <1>1 DEF Adds, Ends
<1>4. \A l \in Nat : Done(l) => Done(l)' /\ l # task
  BY <1>1 DEF Done
<1>5. \A l \in Nat : NoPosts(l) /\ l # task => NoPosts(l)'
  BY <1>1, <1>2 DEF NoPosts
<1>6. \A i \in 1..Len(posts) : posts[i].launch \in Nat
  BY LaunchOfPost
<1>7. \A i \in 1..Len(posts') : posts'[i].launch <= task'
  BY <1>1, <1>2
<1>8. ASSUME NEW i \in 1..Len(posts'), posts'[i].kind # "progress"
      PROVE  /\ Done(posts[i].launch)'
             /\ \A j \in 1..Len(posts') : i < j => posts'[j].launch # posts'[i].launch
  <2>1. CASE i \in 1..Len(posts)
    <3>1. /\ posts'[i] = posts[i] /\ Done(posts[i].launch) /\ posts[i].launch \in Nat
          /\ \A j \in 1..Len(posts) : i < j => posts[j].launch # posts[i].launch
      BY <1>2, <1>6, <1>8, <2>1
    <3>2. Done(posts[i].launch)' /\ posts[i].launch # task
      BY <1>1, <3>1 DEF Done
    <3>3. Done(posts[i].launch)'
      BY <1>1, <3>1 DEF Done
    <3> QED
      BY <1>1, <1>2, <3>1, <3>2, <3>3
  <2>2. CASE Len(posts) < i
    <3>1. posts'[i].launch = task /\ pc' = "idle" /\ i = Len(posts')
      BY <1>2, <1>3, <1>8, <2>2
    <3>2. Done(posts[i].launch)'
      BY <1>1, <3>1 DEF Done
    <3> QED
      BY <1>1, <3>1, <3>2
  <2> QED
    BY <1>1, <2>1, <2>2
<1>9. ASSUME NEW l \in Launches, Done(l), NoPosts(l) PROVE Done(l)' /\ NoPosts(l)'
  BY <1>4, <1>5, <1>9, ConstantsAssumption DEF Launches
<1> QED
  BY <1>1, <1>7, <1>8, <1>9

(* Running a callback leaves fewer.                                        *)
LEMMA FewerPosts ==
  ASSUME Types, posts # <<>>, posts' = Tail(posts)
  PROVE  \A l : NoPosts(l) => NoPosts(l)'
BY TailOfPosts DEF NoPosts

LEMMA RunPostKeepsLast ==
  ASSUME Types, Dialogs, LastPosts, RunPost PROVE LastPosts'
<1> USE DEF LastPosts
<1>1. /\ posts # <<>> /\ posts' = Tail(posts) /\ UNCHANGED <<launch, task, pc>>
  BY DEF RunPost
<1>2. /\ Head(posts) = posts[1] /\ Head(posts) \in Post /\ Len(posts) \in Nat \ {0}
      /\ Len(posts') = Len(posts) - 1
      /\ \A i \in 1..Len(posts') : posts'[i] = posts[i + 1]
  BY <1>1, TailOfPosts
<1>3. \A l : Done(l)' <=> Done(l)
  BY <1>1 DEF Done
<1>4. \A i \in 1..Len(posts') : posts'[i].launch <= task'
  BY <1>1, <1>2
<1>5. ASSUME NEW i \in 1..Len(posts'), posts'[i].kind # "progress"
      PROVE  /\ Done(posts[i].launch)'
             /\ \A j \in 1..Len(posts') : i < j => posts'[j].launch # posts'[i].launch
  <2>1. /\ posts'[i] = posts[i + 1] /\ i + 1 \in 1..Len(posts)
        /\ Done(posts[i + 1].launch)
        /\ \A j \in 1..Len(posts) : i + 1 < j => posts[j].launch # posts[i + 1].launch
    <3>1. posts'[i] = posts[i + 1] /\ i + 1 \in 1..Len(posts)
      BY <1>2
    <3> QED
      BY <1>5, <3>1
  <2>2. Done(posts[i].launch)'
    BY <1>1, <2>1 DEF Done
  <2>3. ASSUME NEW j \in 1..Len(posts'), i < j PROVE posts'[j].launch # posts'[i].launch
    <3>1. posts'[j] = posts[j + 1] /\ j + 1 \in 1..Len(posts) /\ i + 1 < j + 1
      BY <1>2, <2>3
    <3> QED
      BY <2>1, <3>1
  <2> QED
    BY <2>2, <2>3
<1>6. ASSUME NEW l \in Launches, Done(l), NoPosts(l) PROVE Done(l)' /\ NoPosts(l)'
  BY <1>1, <1>3, <1>6, FewerPosts
<1>7. CASE UNCHANGED <<dialog, running>>
  BY <1>4, <1>5, <1>6, <1>7
<1>8. CASE ~UNCHANGED <<dialog, running>>
  <2>1. running[Head(posts).launch] /\ Head(posts).kind \in {"error", "start"}
    BY <1>2, <1>8 DEF RunPost, Asks, Post, Kinds
  <2>2. Head(posts).launch = launch /\ launch \in Launches
    BY <1>1, <2>1, AskedDialog
  <2>3. Done(launch) /\ \A j \in 1..Len(posts) : 1 < j => posts[j].launch # launch
    <3>1. 1 \in 1..Len(posts) /\ posts[1].kind # "progress" /\ posts[1].launch = launch
      BY <1>2, <2>1, <2>2
    <3> QED
      BY <3>1
  <2>4. NoPosts(launch)'
    <3>1. \A i \in 1..Len(posts') : posts'[i].launch # launch
      BY <1>2, <2>3
    <3> QED
      BY <1>1, <3>1 DEF NoPosts
  <2>5. \A l \in Launches : l # launch => dialog'[l] = dialog[l] /\ running'[l] = running[l]
    BY <1>2, <2>1, <2>2 DEF RunPost, Asks, ShowError, StartStream, Dismiss, Types
  <2>6. ASSUME NEW l \in Launches, l = launch PROVE Done(l)' /\ NoPosts(l)'
    <3>1. Done(l)'
      BY <1>3, <2>3, <2>6
    <3>2. NoPosts(l)'
      BY <1>1, <2>4, <2>6 DEF NoPosts
    <3> QED
      BY <3>1, <3>2
  <2>7. ASSUME NEW l \in Launches,
               \/ dialog'[l] \in {"failed", "dismissing"}
               \/ dialog'[l] = "gone" /\ running'[l]
        PROVE  Done(l)' /\ NoPosts(l)'
    <3>1. CASE l = launch
      BY <2>6, <3>1
    <3>2. CASE l # launch
      BY <1>6, <2>5, <2>7, <3>2
    <3> QED
      BY <3>1, <3>2
  <2> QED
    BY <1>4, <1>5, <2>7
<1> QED
  BY <1>7, <1>8

LEMMA LastPostsStep ==
  ASSUME Types, Dialogs, LastPosts, [Next]_vars PROVE LastPosts'
<1>1. CASE Working
  BY <1>1, WorkingKeepsLast
<1>2. CASE RunPost
  BY <1>2, RunPostKeepsLast
<1>3. CASE StartTask
  <2>1. /\ pc = "idle" /\ task' = task + 1 /\ task \in Nat
        /\ UNCHANGED <<dialog, running, posts>>
    BY <1>3, ConstantsAssumption DEF StartTask, uiVars, Types
  <2>2. \A l \in Nat : Done(l) => Done(l)'
    BY <2>1 DEF Done
  <2>3. \A l : NoPosts(l)' <=> NoPosts(l)
    BY <2>1 DEF NoPosts
  <2>4. \A i \in 1..Len(posts) : posts[i].launch \in Nat
    BY LaunchOfPost, <2>1
  <2>5. \A l \in Launches : l \in Nat
    BY ConstantsAssumption DEF Launches
  <2>6. \A i \in 1..Len(posts) : Done(posts[i].launch) => Done(posts[i].launch)'
    BY <2>1, <2>4 DEF Done
  <2> QED
    BY <2>1, <2>2, <2>3, <2>4, <2>5, <2>6 DEF LastPosts
<1>4. CASE Play
  <2>1. /\ launch + 1 \in Launches
        /\ dialog' = [dialog EXCEPT ![launch + 1] = "open"]
        /\ running' = [running EXCEPT ![launch + 1] = TRUE]
        /\ UNCHANGED <<posts, task, pc>>
    BY <1>4, ConstantsAssumption DEF Play, Types, Launches
  <2>2. \A l \in Launches : l # launch + 1 => dialog'[l] = dialog[l] /\ running'[l] = running[l]
    BY <2>1 DEF Types
  <2>3. dialog'[launch + 1] = "open"
    BY <2>1 DEF Types
  <2> QED
    BY <2>1, <2>2, <2>3 DEF LastPosts, Done, NoPosts
<1>5. CASE \E l \in Launches : PressCancel(l) \/ PressBack(l) \/ FadeEnds(l)
  <2>1. PICK l \in Launches : PressCancel(l) \/ PressBack(l) \/ FadeEnds(l)
    BY <1>5
  <2>2. UNCHANGED <<posts, task, pc>>
    BY <2>1 DEF PressCancel, PressBack, FadeEnds
  <2>3. \A m \in Launches : m # l => dialog'[m] = dialog[m] /\ running'[m] = running[m]
    BY <2>1 DEF PressCancel, PressBack, FadeEnds, Dismiss, Closed, Types
  <2>4. \/ dialog'[l] = "cancelling"
        \/ dialog[l] = "failed" /\ dialog'[l] = "dismissing"
        \/ dialog'[l] = "gone" /\ (dialog[l] = "dismissing" \/ ~running'[l])
    BY <2>1 DEF PressCancel, PressBack, FadeEnds, Dismiss, Closed, Types
  <2> QED
    BY <2>2, <2>3, <2>4 DEF LastPosts, Done, NoPosts
<1>6. CASE EndStream \/ QueueTimeout \/ SetupTimeout \/ Ended \/ UNCHANGED vars
  BY <1>6 DEF EndStream, QueueTimeout, SetupTimeout, Ended, vars, uiVars, LastPosts, Done,
    NoPosts
<1> QED
  BY <1>1, <1>2, <1>3, <1>4, <1>5, <1>6 DEF Next, TaskSteps, Working

-----------------------------------------------------------------------------
LEMMA InitIInv == Init => IInv
<1> SUFFICES ASSUME Init PROVE IInv
  OBVIOUS
<1>1. posts = <<>> /\ posts \in Seq(Post) /\ Len(posts) = 0
  BY EmptySeq DEF Init
<1>2. /\ dialog \in [Launches -> {"none", "open", "failed", "gone"} \cup Fading]
      /\ running \in [Launches -> BOOLEAN]
  BY DEF Init
<1>3. launch = 0 /\ task = 0 /\ messages = 0 /\ 0 \in 0..MaxLaunches /\ 0 \in 0..MaxMessages
      /\ task \in 0..launch
  BY ConstantsAssumption DEF Init
<1>4. Types
  BY <1>1, <1>2, <1>3 DEF Init, Types
<1>5. OneShot
  BY DEF Init, OneShot
<1>6. \A l \in Launches : l > 0 /\ dialog[l] = "none"
  BY ConstantsAssumption DEF Init, Launches
<1>7. Dialogs
  BY <1>3, <1>6, ConstantsAssumption DEF Init, Dialogs, Fading, Launches
<1>8. LastPosts
  BY <1>1, <1>6 DEF LastPosts
<1> QED
  BY <1>4, <1>5, <1>7, <1>8 DEF IInv

LEMMA NextIInv == IInv /\ [Next]_vars => IInv'
BY OneShotStep, TypesStep, DialogsStep, LastPostsStep DEF IInv

LEMMA Invariance == Spec => []IInv
BY InitIInv, NextIInv, PTL DEF Spec

(* The server is asked once in a launch to start the machine, and what was *)
(* not asked for is not taken as confirmed ("429 lockout risk",            *)
(* StartStreamingSession).                                                 *)
THEOREM ConfirmedOnce == Spec => []OneConfirmation
<1>1. IInv => OneConfirmation
  BY DEF IInv, OneShot, OneConfirmation
<1> QED
  BY <1>1, Invariance, PTL

(* No callback of a launch finds its dialog destroyed: Cancel, errors and  *)
(* the stream each clear the flag or are the last callback there is        *)
(* (LaunchSessionDialog).                                                  *)
THEOREM CallbacksSafe == Spec => []ViewsAlive
<1>1. IInv => ViewsAlive
  <2> SUFFICES ASSUME IInv PROVE ViewsAlive
    OBVIOUS
  <2> USE DEF IInv
  <2>1. TypeOK
    <3>1. {launch, task} \subseteq 0..MaxLaunches /\ task <= launch /\ stream \in 0..launch
      BY ConstantsAssumption DEF Types, Dialogs
    <3>2. posts \in Seq([launch : Launches, kind : {"progress", "error", "start"}])
      BY DEF Types, Post, Kinds
    <3>3. blocked \in 0..2 /\ confirms \in Nat
      BY DEF Dialogs, OneShot
    <3> QED
      BY <3>1, <3>2, <3>3 DEF TypeOK, Types, OneShot
  <2>2. \A l \in 1..launch : l \in Launches
    BY ConstantsAssumption DEF Types, Launches
  <2> QED
    BY <2>1, <2>2 DEF ViewsAlive, LastPosts, NoPosts
<1> QED
  BY <1>1, Invariance, PTL

(* A stream starts for the newest launch, and only when there is none      *)
(* (LaunchSessionDialog's start callback).                                 *)
THEOREM StreamsOneByOne == Spec => OneStream
<1>1. IInv /\ [Next]_vars => [stream' \notin {0, stream} => stream = 0 /\ stream' = launch]_vars
  <2> SUFFICES ASSUME IInv, Next, stream' \notin {0, stream}
               PROVE  stream = 0 /\ stream' = launch
    OBVIOUS
  <2> USE DEF IInv
  <2>1. CASE RunPost
    <3>1. running[Head(posts).launch] /\ stream' = Head(posts).launch
      BY <2>1, TailOfPosts DEF RunPost, Asks, Post, Kinds, ShowError, StartStream
    <3>2. stream' = launch
      BY <2>1, <3>1, AskedDialog DEF RunPost
    <3> QED
      BY <3>2 DEF Dialogs
  <2>2. CASE ~RunPost
    BY <2>2, WorkingPosts DEF Next, TaskSteps, Working, StartTask, Play, EndStream,
      PressCancel, PressBack, FadeEnds, QueueTimeout, SetupTimeout, Ended, vars, uiVars
  <2> QED
    BY <2>1, <2>2
<1> QED
  BY <1>1, Invariance, PTL DEF Spec, OneStream
=============================================================================
