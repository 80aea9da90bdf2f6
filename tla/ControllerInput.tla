--------------------------- MODULE ControllerInput ---------------------------
(***************************************************************************)
(* The gamepad on its way to the server (StreamView::PollGamepads, input   *)
(* of WebRtcSession, BoosteroidControlChannel).  Every frame the UI thread *)
(* handles what the control socket has brought and then compares the pad   *)
(* with what it reported last; only changes are sent.  The server answers  *)
(* a "connected" with the id under which it takes input from then on; the  *)
(* client does not wait for it and uses the local index until then.  The   *)
(* answer is told by the name alone, and that is the same for every time   *)
(* the pad is connected.                                                   *)
(*                                                                         *)
(* Buttons, triggers and the d-pad are alike here: inputs that are held or *)
(* not.  (A change of the d-pad sends all four directions in one message;  *)
(* here it sends the one that changed.)  One stick axis stands for four.   *)
(***************************************************************************)
EXTENDS Integers, Sequences, FiniteSets, SequencesExt

CONSTANTS
  Inputs,     \* buttons, triggers, directions
  Combo,      \* those of the exit combination
  Sticks,     \* positions of the stick axis
  MaxAxis,    \* kMaxAxis (32767)
  Deadzone,   \* controller_deadzone, of MaxAxis
  Threshold,  \* kAxisChangeThreshold (1200)
  Hold,       \* how long the combination is to be held (900 ms)
  MaxPlugs,   \* bound of the model: how often the pad is connected
  MaxChanges  \* bound of the model: changes of what is held

ASSUME PadConstants ==
  /\ IsFiniteSet(Inputs) /\ Combo \subseteq Inputs /\ "axis" \notin Inputs
  /\ Sticks \subseteq -MaxAxis..MaxAxis /\ 0 \in Sticks
  /\ {MaxAxis, Deadzone, Threshold, Hold, MaxPlugs, MaxChanges} \subseteq Nat
  /\ Threshold < Deadzone /\ Deadzone < MaxAxis

Provisional == 0          \* the local index
Ids == 0..MaxPlugs        \* ids of the server
NoDevice == [live |-> FALSE, held |-> {}, axis |-> 0]

VARIABLES
  plugged,   \* the pad is there
  down,      \* what the user holds
  stick,     \* position of the stick
  plugs,     \* how often the pad was connected
  changes,   \* how often what is held changed
  channel,   \* the control socket: none, open or dead
  attached,  \* gamepads_[0].connected
  acked,     \* controllers_[0].acked
  id,        \* controllers_[0].server_id
  last,      \* last_buttons and last_hat
  lastAxis,  \* last_axes
  combo,     \* exit_combo_active_
  held,      \* time since exit_combo_started_, up to Hold
  ended,     \* ExitStream was called
  out,       \* messages to the server
  acks,      \* ids the server answered with, on their way
  devices,   \* the server: controllers by id
  given,     \* history: ids given so far, in order
  unheard    \* history: inputs reported before the answer, "axis" for the stick

padVars    == <<plugged, down, stick, plugs, changes>>
clientVars == <<attached, acked, id, last, lastAxis, combo, held, ended>>
serverVars == <<devices, given>>
inputVars == <<padVars, channel, clientVars, out, acks, serverVars, unheard>>

-----------------------------------------------------------------------------
(* The user.                                                               *)
Plug ==
  /\ ~ended
  /\ \/ plugged /\ plugged' = FALSE /\ UNCHANGED plugs
     \/ ~plugged /\ plugs < MaxPlugs /\ plugged' = TRUE /\ plugs' = plugs + 1
  /\ UNCHANGED <<down, stick, changes, channel, clientVars, out, acks, serverVars, unheard>>

Change ==
  /\ ~ended /\ plugged /\ changes < MaxChanges
  /\ changes' = changes + 1
  /\ \/ \E input \in Inputs :
          down' = (IF input \in down THEN down \ {input} ELSE down \cup {input})
        /\ UNCHANGED stick
     \/ \E position \in Sticks \ {stick} : stick' = position /\ UNCHANGED down
  /\ UNCHANGED <<plugged, plugs, channel, clientVars, out, acks, serverVars, unheard>>

-----------------------------------------------------------------------------
(* StreamView cuts the dead zone off and stretches the rest over the whole *)
(* range; controller_update then cuts off the dead zone again.             *)
Distance(a, b) == IF a < b THEN b - a ELSE a - b

Magnitude(position) == Distance(position, 0)

Stretch(magnitude) ==
  IF magnitude <= Deadzone
  THEN 0
  ELSE ((magnitude - Deadzone) * MaxAxis) \div (MaxAxis - Deadzone)

Stretched(position) ==
  IF position < 0 THEN -Stretch(Magnitude(position)) ELSE Stretch(Magnitude(position))

Scaled(position) ==
  IF Magnitude(Stretched(position)) < Deadzone THEN 0 ELSE Stretched(position)

Connected(conn)        == [type |-> "connected", conn |-> conn]
Disconnected(to)       == [type |-> "disconnected", id |-> to]
Input(to, input, isOn) == [type |-> "input", id |-> to, input |-> input, on |-> isOn]
Axis(to, value)        == [type |-> "axis", id |-> to, value |-> value]

(* Mutant: an input that is let go of is not a change. *)
MutantChanged(before) == down \ before

(* What differs from what was reported.                                    *)
Changed(before) == (down \ before) \cup (before \ down)

(* controller_update, to the given id, in the order of the indices.        *)
Reports(to, before, axis) ==
  [i \in 1..Cardinality(Changed(before)) |->
     LET input == SetToSeq(Changed(before))[i] IN Input(to, input, input \in down)]
  \o (IF Distance(Scaled(stick), axis) > Threshold
      THEN <<Axis(to, Scaled(stick))>>
      ELSE <<>>)

(* send_frame: once a message cannot be sent the socket is dead.           *)
Deliver(messages) ==
  \/ out' = out \o messages /\ UNCHANGED channel
  \/ /\ messages # <<>>
     /\ \E n \in 0..(Len(messages) - 1) : out' = out \o SubSeq(messages, 1, n)
     /\ channel' = "dead"

(* SendRaw: without a socket a message is dropped without a word.          *)
Send(messages) ==
  IF channel = "open" THEN Deliver(messages) ELSE UNCHANGED <<out, channel>>

(* WebSocketClient::poll: n of the answers on their way have arrived.      *)
Read(n) ==
  /\ channel = "open" \/ n = 0
  /\ acks' = SubSeq(acks, n + 1, Len(acks))

(* The first answer read is taken when one is awaited, the others are not. *)
Acknowledged(n) == n > 0 /\ attached /\ ~acked

(* Mutant: the time starts anew with every frame. *)
MutantComboDown ==
  combo' = TRUE /\ held' = 0 /\ ended' = (combo /\ held >= Hold)

(* The exit combination, with all of it down.                              *)
ComboDown ==
  /\ combo' = TRUE
  /\ held' = IF combo THEN held ELSE 0
  /\ ended' = (combo /\ held >= Hold)

ExitCombo ==
  IF Combo \subseteq down
  THEN ComboDown
  ELSE combo' = FALSE /\ held' = 0 /\ UNCHANGED ended

(* A frame with the pad connected: as it was before, or anew.              *)
Update(n) ==
  LET now    == IF attached THEN last ELSE {}
      axis   == IF attached THEN lastAxis ELSE 0
      to     == IF ~attached THEN Provisional ELSE IF Acknowledged(n) THEN acks[1] ELSE id
      moved  == Distance(Scaled(stick), axis) > Threshold
      known  == attached /\ (acked \/ Acknowledged(n))
      news   == Changed(now) \cup (IF moved THEN {"axis"} ELSE {})
  IN  /\ plugged
      /\ attached' = TRUE
      /\ acked' = known
      /\ id' = to
      /\ last' = down
      /\ lastAxis' = IF moved THEN Scaled(stick) ELSE axis
      /\ Send((IF attached THEN <<>> ELSE <<Connected(plugs)>>) \o Reports(to, now, axis))
      /\ unheard' = IF ~attached THEN news
                    ELSE (unheard \ news) \cup (IF known THEN {} ELSE news)
      /\ ExitCombo

(* A frame without it; the exit combination is not looked at.              *)
Leave(n) ==
  /\ ~plugged
  /\ attached' = FALSE
  /\ acked' = FALSE /\ id' = Provisional /\ last' = {} /\ lastAxis' = 0
  /\ Send(IF attached
          THEN <<Disconnected(IF Acknowledged(n) THEN acks[1] ELSE id)>>
          ELSE <<>>)
  /\ unheard' = {}
  /\ UNCHANGED <<combo, held, ended>>

(* StreamView::draw: WebRtcSession::poll, then PollGamepads.               *)
DrawFrame ==
  /\ ~ended /\ channel # "none"
  /\ \E n \in 0..Len(acks) :
       /\ Read(n)
       /\ Update(n) \/ Leave(n)
  /\ UNCHANGED <<padVars, serverVars>>

(* Opening the socket, before the first frame.                             *)
Open ==
  /\ channel = "none"
  /\ channel' \in {"open", "dead"}
  /\ UNCHANGED <<padVars, clientVars, out, acks, serverVars, unheard>>

Tick ==
  /\ ~ended /\ combo /\ held < Hold
  /\ held' = held + 1
  /\ UNCHANGED <<padVars, channel, attached, acked, id, last, lastAxis, combo, ended,
                 out, acks, serverVars, unheard>>

-----------------------------------------------------------------------------
(* The server: input for an id it has not given, or has dropped, is lost.  *)
Give ==
  \E fresh \in Ids \ ToSet(given) :
    /\ devices' = [devices EXCEPT ![fresh] = [NoDevice EXCEPT !.live = TRUE]]
    /\ given' = Append(given, fresh)
    /\ acks' = Append(acks, fresh)

After(message, device) ==
  IF message.type = "disconnected" THEN NoDevice
  ELSE IF ~device.live THEN device
  ELSE IF message.type = "axis" THEN [device EXCEPT !.axis = message.value]
  ELSE IF message.on THEN [device EXCEPT !.held = @ \cup {message.input}]
  ELSE [device EXCEPT !.held = @ \ {message.input}]

Apply(message) ==
  /\ devices' = [devices EXCEPT ![message.id] = After(message, @)]
  /\ UNCHANGED <<given, acks>>

Serve ==
  /\ out # <<>>
  /\ out' = Tail(out)
  /\ IF Head(out).type = "connected" THEN Give ELSE Apply(Head(out))
  /\ UNCHANGED <<padVars, channel, clientVars, unheard>>

-----------------------------------------------------------------------------
PadInit ==
  /\ plugged = FALSE /\ down = {} /\ stick = 0 /\ plugs = 0 /\ changes = 0
  /\ channel = "none"
  /\ attached = FALSE /\ acked = FALSE /\ id = Provisional
  /\ last = {} /\ lastAxis = 0
  /\ combo = FALSE /\ held = 0 /\ ended = FALSE
  /\ out = <<>> /\ acks = <<>>
  /\ devices = [i \in Ids |-> NoDevice] /\ given = <<>>
  /\ unheard = {}

PadNext == Plug \/ Change \/ Open \/ DrawFrame \/ Tick \/ Serve

(* The UI thread draws frame after frame, time passes and the server       *)
(* reads; the user does as he likes.                                       *)
PadFairness ==
  /\ WF_inputVars(Open) /\ WF_inputVars(DrawFrame)
  /\ WF_inputVars(Tick) /\ WF_inputVars(Serve)

PadSpec == PadInit /\ [][PadNext]_inputVars /\ PadFairness

-----------------------------------------------------------------------------
(* All messages are read and the pad is as it was reported.                *)
Quiet ==
  /\ channel = "open" /\ out = <<>> /\ acks = <<>>
  /\ plugged /\ attached /\ acked /\ last = down

(* Not promised: the answer taken is the one to this connection.  That to  *)
(* an earlier one has the same name and may come first.                    *)
AckIsOwn == Quiet => id = Last(given)

(* When all is quiet the server holds down what the user does, except for  *)
(* what was pressed before the server's answer (it was sent to the local   *)
(* index and is not sent again); nothing is stuck, the axis is as near as  *)
(* the threshold says, and a stick let go of is at rest                    *)
(* (controller_update, controller_connect, controller_disconnect).  States *)
(* in which the answer to an earlier connection was taken are left out:    *)
(* there AckIsOwn fails, and what the user holds goes to another id.       *)
ServerAgrees ==
  Quiet /\ id = Last(given) =>
    LET device == devices[id]
    IN  /\ device.live
        /\ device.held \subseteq down
        /\ down \ unheard \subseteq device.held
        /\ Distance(lastAxis, Scaled(stick)) <= Threshold =>
             /\ "axis" \notin unheard => Distance(device.axis, Scaled(stick)) <= Threshold
             /\ Scaled(stick) = 0 => device.axis = 0

(* Whoever keeps the exit combination down gets out of the stream          *)
(* (PollGamepads, ExitStream).                                             *)
ComboEndsStream == <>[](plugged /\ Combo \subseteq down) => <>ended

(* Not promised: without a pad the clock of the combination runs on.       *)
ExitOnlyHeld == [][ended' /\ ~ended => attached]_inputVars
=============================================================================
