----------------------------- MODULE SessionLaunch -----------------------------
(***************************************************************************)
(* Launching a game: LaunchSessionDialog (ui_helpers.cpp) shows a dialog   *)
(* and gives CreateAndAwaitSession (boosteroid_client.cpp) to the task     *)
(* thread, which runs one task after the other.  The task asks the server  *)
(* for a session, polls until it is ready, listens on the realtime socket  *)
(* for the moment it has to be confirmed, and posts callbacks that the UI  *)
(* thread runs in order.  Cancel is a flag the task looks at when it       *)
(* reports a poll.                                                         *)
(*                                                                         *)
(* The server answers what it likes.  A request that does not get through  *)
(* throws and ends the launch with an error.  A dialog fades out before it *)
(* is destroyed and before its button's callback runs; the controller's    *)
(* buttons are blocked while it does, but callbacks are not.  (Touches are *)
(* left out here.)                                                         *)
(***************************************************************************)
EXTENDS Integers, Sequences

CONSTANTS
  MaxLaunches, \* bound of the model: how often Play is pressed
  MaxMessages  \* bound of the model: realtime messages in a launch

ASSUME ConstantsAssumption == MaxLaunches \in Nat /\ MaxMessages \in Nat

VARIABLES
  launch,      \* the newest launch
  dialog,      \* the dialog of each launch
  running,     \* LaunchSessionState::running of each launch
  posts,       \* callbacks given to brls::sync
  blocked,     \* blockInputsTokens
  stream,      \* the launch whose stream is on the screen, or 0
  task,        \* the launch the task thread works on, or worked on last
  pc,          \* task thread: where it is
  answer,      \* the session it found: with its query string, or without
  socket,      \* realtime_ws is connected
  messages,    \* messages received in this launch
  fresh,       \* realtime_queue_position_changed
  attempted,   \* realtime_confirmation_attempted
  confirms,    \* history: calls of StartStreamingSession in this launch
  preferred,   \* preferred_session_id_ is set
  reacted,     \* reacted_to_confirmation
  setup,       \* the setup deadline: unset, running or late
  queuedLate   \* the 600 s of queued_deadline have passed

uiVars     == <<launch, dialog, running, blocked, stream>>
socketVars == <<socket, messages, fresh, attempted, confirms, preferred>>
waitVars   == <<reacted, setup, queuedLate>>
vars == <<uiVars, posts, task, pc, answer, socketVars, waitVars>>

Launches == 1..MaxLaunches
Fading   == {"cancelling", "dismissing", "closing"}
Done(l)  == task > l \/ (task = l /\ pc = "idle")

-----------------------------------------------------------------------------
(* The task thread                                                          *)

(* brls::sync; a callback like the last one would change nothing.           *)
Posting(earlier, kind) ==
  LET post == [launch |-> task, kind |-> kind]
  IN  IF earlier # <<>> /\ earlier[Len(earlier)] = post
      THEN earlier
      ELSE Append(earlier, post)

(* An exception: the error is shown in the dialog.                          *)
ThrowAfter(earlier) ==
  /\ pc' = "idle"
  /\ posts' = Posting(earlier, "error")
  /\ UNCHANGED answer

Throw == ThrowAfter(posts)

(* Mutant: polls that do not find the game's session are not reported. *)
MutantCancelled == ~running[task] /\ (preferred \/ fresh \/ pc # "poll")

Cancelled == ~running[task]

(* on_poll: false for a launch that was cancelled, else progress.           *)
Progress == Posting(posts, "progress")
Reported == ~Cancelled /\ posts' = Progress

(* DetailsIfReady found a gateway; the query string may be missing.         *)
Ready ==
  /\ pc' = "return"
  /\ answer' \in {"complete", "partial"}

NotReady(next) == pc' = next /\ UNCHANGED answer

StartTask ==
  /\ pc = "idle"
  /\ task < launch
  /\ task' = task + 1
  /\ pc' = "resume"
  /\ socket' = FALSE /\ messages' = 0 /\ fresh' = FALSE
  /\ attempted' = FALSE /\ confirms' = 0 /\ preferred' = FALSE
  /\ reacted' = FALSE /\ setup' = "unset" /\ queuedLate' = FALSE
  /\ UNCHANGED <<uiVars, posts, answer>>

(* CreateSession: a session of this game that is live is resumed.           *)
Resume ==
  /\ pc = "resume"
  /\ \/ pc' = "resumed" /\ answer' \in {"complete", "partial"} /\ UNCHANGED posts
     \/ NotReady("enqueue") /\ UNCHANGED posts
     \/ Throw
  /\ UNCHANGED <<uiVars, task, socketVars, waitVars>>

(* What the account holds is released, a new session enqueued.              *)
Enqueue ==
  /\ pc = "enqueue"
  /\ \/ NotReady("enqueued") /\ UNCHANGED posts
     \/ Throw
  /\ UNCHANGED <<uiVars, task, socketVars, waitVars>>

FirstReport ==
  /\ pc \in {"resumed", "enqueued"}
  /\ \/ Cancelled /\ Throw
     \/ Reported /\ NotReady(IF pc = "resumed" THEN "return" ELSE "early")
  /\ UNCHANGED <<uiVars, task, socketVars, waitVars>>

(* The machine may be ready with no queue at all.                           *)
EarlyCheck ==
  /\ pc = "early"
  /\ \/ Ready /\ UNCHANGED posts
     \/ NotReady("connect") /\ UNCHANGED posts
     \/ Throw
  /\ UNCHANGED <<uiVars, task, socketVars, waitVars>>

(* Without the socket, or without a user id for it, REST polling goes on.   *)
ConnectRealtime ==
  /\ pc = "connect"
  /\ pc' = "sleep"
  /\ socket' \in BOOLEAN
  /\ UNCHANGED <<uiVars, posts, task, answer, messages, fresh, attempted,
                 confirms, preferred, waitVars>>

ReceivePosition ==
  /\ fresh' = TRUE
  /\ UNCHANGED <<attempted, confirms, preferred>>

(* Mutant: a confirmation the server refused may be tried again. *)
MutantConfirm ==
  /\ preferred' \in BOOLEAN
  /\ attempted' = preferred'
  /\ confirms' = confirms + 1

(* StartStreamingSession; the server may refuse.                            *)
Confirm ==
  /\ preferred' \in BOOLEAN
  /\ attempted' = TRUE
  /\ confirms' = confirms + 1

(* queues/start: one shot, whatever becomes of it.                          *)
ReceiveStart ==
  /\ IF attempted THEN UNCHANGED <<attempted, confirms, preferred>> ELSE Confirm
  /\ UNCHANGED fresh

(* realtime_ws->poll() in a slice of the sleep.                             *)
Receive ==
  /\ pc = "sleep"
  /\ socket
  /\ messages < MaxMessages
  /\ messages' = messages + 1
  /\ ReceivePosition \/ ReceiveStart
  /\ UNCHANGED <<uiVars, posts, task, pc, answer, socket, waitVars>>

SocketDies ==
  /\ pc = "sleep"
  /\ socket
  /\ socket' = FALSE
  /\ UNCHANGED <<uiVars, posts, task, pc, answer, messages, fresh, attempted,
                 confirms, preferred, waitVars>>

(* A new position is shown at once.                                         *)
ReportPosition ==
  /\ pc = "sleep"
  /\ fresh
  /\ ~preferred \/ reacted
  /\ fresh' = FALSE
  /\ \/ Cancelled /\ Throw
     \/ Reported /\ NotReady("sleep")
  /\ UNCHANGED <<uiVars, task, socket, messages, attempted, confirms, preferred,
                 waitVars>>

(* The interval is over, or cut short by a confirmation.                    *)
WakeUp ==
  /\ pc = "sleep"
  /\ ~fresh \/ (preferred /\ ~reacted)
  /\ pc' = "poll"
  /\ UNCHANGED <<uiVars, posts, task, answer, socketVars, waitVars>>

(* The deadline runs from the first poll of the setup.                      *)
AwaitSetup ==
  IF setup = "late" THEN ThrowAfter(Progress) /\ UNCHANGED setup
  ELSE NotReady("sleep") /\ Reported /\ setup' = "running"

(* Mutant: a queued session has no deadline of its own. *)
MutantAwaitQueue ==
  /\ NotReady("sleep") /\ Reported
  /\ setup' = "unset"

(* A session that is queued (again) has no setup deadline, but its own.     *)
AwaitQueue ==
  /\ IF queuedLate THEN ThrowAfter(Progress) ELSE NotReady("sleep") /\ Reported
  /\ setup' = "unset"

CancelledPoll == Cancelled /\ Throw /\ UNCHANGED setup

(* session/details did not get through.                                     *)
Interrupted == ThrowAfter(Progress) /\ UNCHANGED setup

(* The confirmed session is polled, last-session no longer.                 *)
PollConfirmed ==
  /\ pc = "poll"
  /\ preferred
  /\ reacted' = TRUE
  /\ \/ CancelledPoll
     \/ ~Cancelled /\ (AwaitSetup \/ Interrupted)
     \/ Reported /\ Ready /\ UNCHANGED setup
  /\ UNCHANGED <<uiVars, task, socketVars, queuedLate>>

(* last-session names this game: queued, or being set up.                   *)
PollQueued ==
  /\ pc = "poll"
  /\ ~preferred
  /\ CancelledPoll \/ (~Cancelled /\ AwaitQueue)
  /\ UNCHANGED <<uiVars, task, socketVars, reacted, queuedLate>>

PollSettingUp ==
  /\ pc = "poll"
  /\ ~preferred
  /\ \/ CancelledPoll
     \/ ~Cancelled /\ (AwaitSetup \/ Interrupted)
     \/ Reported /\ Ready /\ UNCHANGED setup
  /\ UNCHANGED <<uiVars, task, socketVars, reacted, queuedLate>>

(* It names another game, or none, or was not answered.                     *)
PollNotOurs ==
  /\ pc = "poll"
  /\ ~preferred
  /\ \/ CancelledPoll
     \/ Reported /\ NotReady("sleep") /\ UNCHANGED setup
  /\ UNCHANGED <<uiVars, task, socketVars, reacted, queuedLate>>

(* last-session did not get through.                                        *)
PollFails ==
  /\ pc = "poll"
  /\ ~preferred
  /\ Throw
  /\ UNCHANGED <<uiVars, task, socketVars, waitVars>>

(* The rest of the task: a session without its query string is of no use.   *)
ReturnSession ==
  /\ pc = "return"
  /\ pc' = "idle"
  /\ posts' = CASE Cancelled -> posts
                [] ~Cancelled /\ answer = "complete" -> Posting(Progress, "start")
                [] ~Cancelled /\ answer = "partial" -> Posting(posts, "error")
  /\ UNCHANGED <<uiVars, task, answer, socketVars, waitVars>>

-----------------------------------------------------------------------------
(* The UI thread                                                            *)

Play ==
  /\ launch < MaxLaunches
  /\ launch > 0 => dialog[launch] = "gone"
  /\ blocked = 0
  /\ stream = 0
  /\ launch' = launch + 1
  /\ dialog' = [dialog EXCEPT ![launch + 1] = "open"]
  /\ running' = [running EXCEPT ![launch + 1] = TRUE]
  /\ UNCHANGED <<blocked, stream, posts, task, pc, answer, socketVars,
                 waitVars>>

(* View::dismiss: the dialog fades out, input is blocked meanwhile.         *)
Dismiss(l, fade) ==
  /\ dialog' = [dialog EXCEPT ![l] = fade]
  /\ blocked' = blocked + 1

PressCancel(l) ==
  /\ dialog[l] \in {"open", "failed"}
  /\ blocked = 0
  /\ Dismiss(l, "cancelling")
  /\ UNCHANGED <<launch, running, stream, posts, task, pc, answer, socketVars,
                 waitVars>>

PressBack(l) ==
  /\ dialog[l] = "failed"
  /\ blocked = 0
  /\ Dismiss(l, "dismissing")
  /\ UNCHANGED <<launch, running, stream, posts, task, pc, answer,
                 socketVars, waitVars>>

(* Mutant: the callback of the button is forgotten. *)
MutantClosed(l) == UNCHANGED running

(* The callbacks of Cancel and of close.                                    *)
Closed(l) ==
  IF dialog[l] = "dismissing" THEN UNCHANGED running
  ELSE running' = [running EXCEPT ![l] = FALSE]

FadeEnds(l) ==
  /\ dialog[l] \in Fading
  /\ dialog' = [dialog EXCEPT ![l] = "gone"]
  /\ blocked' = blocked - 1
  /\ Closed(l)
  /\ UNCHANGED <<launch, stream, posts, task, pc, answer, socketVars,
                 waitVars>>

ShowError(l) ==
  /\ dialog' = IF dialog[l] = "open" THEN [dialog EXCEPT ![l] = "failed"] ELSE dialog
  /\ UNCHANGED <<running, blocked, stream>>

(* The stream is pushed over a dialog that closes.  One that fades out      *)
(* already is hidden: it is destroyed at once, its own fade never ends.     *)
StartStream(l) ==
  /\ stream' = l
  /\ IF dialog[l] = "open"
     THEN Dismiss(l, "closing") /\ UNCHANGED running
     ELSE /\ dialog' = [dialog EXCEPT ![l] = "gone"]
          /\ running' = [running EXCEPT ![l] = FALSE]
          /\ UNCHANGED blocked

(* Mutant: the callback does not look at the flag. *)
MutantAsks(l) == TRUE

Asks(l) == running[l]

RunPost ==
  /\ posts # <<>>
  /\ posts' = Tail(posts)
  /\ LET l == Head(posts).launch
     IN  CASE ~Asks(l) -> UNCHANGED <<dialog, running, blocked, stream>>
           [] Asks(l) /\ Head(posts).kind = "progress" ->
                UNCHANGED <<dialog, running, blocked, stream>>
           [] Asks(l) /\ Head(posts).kind = "error" -> ShowError(l)
           [] Asks(l) /\ Head(posts).kind = "start" -> StartStream(l)
  /\ UNCHANGED <<launch, task, pc, answer, socketVars, waitVars>>

EndStream ==
  /\ stream # 0
  /\ stream' = 0
  /\ UNCHANGED <<launch, dialog, running, blocked, posts, task, pc,
                 answer, socketVars, waitVars>>

-----------------------------------------------------------------------------
(* Time                                                                     *)

QueueTimeout ==
  /\ pc \in {"sleep", "poll"}
  /\ ~queuedLate
  /\ queuedLate' = TRUE
  /\ UNCHANGED <<uiVars, posts, task, pc, answer, socketVars, reacted, setup>>

SetupTimeout ==
  /\ setup = "running"
  /\ setup' = "late"
  /\ UNCHANGED <<uiVars, posts, task, pc, answer, socketVars, reacted, queuedLate>>

(* No launch is left, or none is possible any more.                         *)
Ended ==
  /\ launch = MaxLaunches \/ blocked > 0
  /\ \A l \in 1..launch : Done(l) /\ dialog[l] = "gone"
  /\ posts = <<>> /\ stream = 0
  /\ UNCHANGED vars

Init ==
  /\ launch = 0
  /\ dialog = [l \in Launches |-> "none"]
  /\ running = [l \in Launches |-> FALSE]
  /\ posts = <<>> /\ blocked = 0 /\ stream = 0
  /\ task = 0 /\ pc = "idle" /\ answer = "complete"
  /\ socket = FALSE /\ messages = 0 /\ fresh = FALSE
  /\ attempted = FALSE /\ confirms = 0 /\ preferred = FALSE
  /\ reacted = FALSE /\ setup = "unset" /\ queuedLate = FALSE

Create == Resume \/ Enqueue \/ FirstReport \/ EarlyCheck \/ ConnectRealtime

Poll == PollConfirmed \/ PollQueued \/ PollSettingUp \/ PollNotOurs \/ PollFails

TaskSteps == StartTask \/ Create \/ ReportPosition \/ WakeUp \/ Poll \/ ReturnSession

Next ==
  \/ TaskSteps \/ Receive \/ SocketDies
  \/ Play \/ RunPost \/ EndStream
  \/ \E l \in Launches : PressCancel(l) \/ PressBack(l) \/ FadeEnds(l)
  \/ QueueTimeout \/ SetupTimeout
  \/ Ended

Spec == Init /\ [][Next]_vars

(* The task thread and the UI run, dialogs fade out and time passes.        *)
(* Neither the server nor the player owes anything.                         *)
FairSpec ==
  /\ Spec
  /\ WF_vars(TaskSteps)
  /\ WF_vars(RunPost)
  /\ \A l \in Launches : WF_vars(FadeEnds(l))
  /\ WF_vars(QueueTimeout) /\ WF_vars(SetupTimeout)
-----------------------------------------------------------------------------
(* Properties                                                               *)

(* Every variable keeps its type.                                           *)
TypeOK ==
  /\ {launch, task} \subseteq 0..MaxLaunches /\ task <= launch
  /\ stream \in 0..launch
  /\ dialog \in [Launches -> {"none", "open", "failed", "gone"} \cup Fading]
  /\ running \in [Launches -> BOOLEAN]
  /\ posts \in Seq([launch : Launches, kind : {"progress", "error", "start"}])
  /\ blocked \in 0..2
  /\ pc \in {"idle", "resume", "resumed", "enqueue", "enqueued", "early", "connect",
             "sleep", "poll", "return"}
  /\ answer \in {"complete", "partial"}
  /\ {socket, fresh, attempted, preferred, reacted, queuedLate} \subseteq BOOLEAN
  /\ messages \in 0..MaxMessages /\ confirms \in Nat
  /\ setup \in {"unset", "running", "late"}

(* "One-shot: StartStreamingSession must never be retried (429 lockout      *)
(* risk)", however often the server pushes queues/start and answers no.     *)
OneConfirmation == confirms <= 1 /\ (preferred => confirms = 1)

(* A callback that touches the dialog's views runs while they exist: when   *)
(* a dialog is destroyed no callback of its launch is left that would, and  *)
(* none will come.                                                          *)
ViewsAlive ==
  /\ TypeOK
  /\ \A l \in 1..launch :
       dialog[l] = "gone" /\ running[l] =>
         Done(l) /\ \A i \in 1..Len(posts) : posts[i].launch # l

(* One stream at a time, of the newest launch.                              *)
OneStream == [][stream' \notin {0, stream} => stream = 0 /\ stream' = launch]_vars

(* A launch that was cancelled is given up, so that the next one, which     *)
(* waits for the same thread, gets its turn.                                *)
RelaunchStarts == \A l \in Launches : launch = l ~> task = l

(* Once the session is confirmed the wait ends, with a machine or an error. *)
ConfirmedEnds == preferred /\ pc = "sleep" ~> pc = "idle"

(* As long as last-session names the game's session, queued or being set    *)
(* up, in whatever alternation, one of the deadlines ends the wait.         *)
AnsweredEnds == <>[][~PollNotOurs]_vars => []<>(pc = "idle")

(* Neither wait of a launch is for ever.                                    *)
EveryWaitEnds == ConfirmedEnds /\ AnsweredEnds

(* boosteroid_client.hpp:169: "queued sessions now time out with an         *)
(* actionable error instead of hanging forever".                            *)
QueuedWaitEnds == pc = "sleep" ~> pc = "idle"
=============================================================================
