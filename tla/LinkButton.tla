----------------------------- MODULE LinkButton -----------------------------
(***************************************************************************)
(* Linked buttons (linkNode/linkButton.c): when a button of a link changes,*)
(* the gateway switches the other buttons of the link.  A report of a      *)
(* device reaches uart_rx_task (Zigbee) or ble_mesh_generic_client_cb      *)
(* (BLE), which puts it into queueIdButton; sendIdButton looks its link up *)
(* and deals the other members out to queueCmdZigbee and queueCmdBLE; one  *)
(* task per radio sends the commands.  A switched Zigbee device reports    *)
(* its change, so the traffic feeds itself.                                *)
(*                                                                         *)
(* The devices, the radios and the mesh stack are external.  The stack     *)
(* keeps one outstanding command per destination and refuses another one;  *)
(* a status that answers nothing outstanding is a PUBLISH event, as is the *)
(* press of a BLE button.  A command for the stack is taken up as soon as  *)
(* it is posted.                                                           *)
(*                                                                         *)
(* A command that times out is repeated by the Bluetooth task (priority    *)
(* 19), which sendCommandBLE (24) overtakes between any two steps of       *)
(* ble_mesh_command_set: both fill the same static message.                *)
(***************************************************************************)
EXTENDS Naturals, Sequences

CONSTANTS
  Endpoint,     \* buttons: node id and endpoint (one digit), of either protocol
  Ble,          \* the endpoints whose protocol is BLE
  Targets,      \* the map: the other members of a button's link, in order
  IdCap,        \* length of queueIdButton: 100
  CmdCap,       \* length of queueCmdZigbee and queueCmdBLE: 50
  OneAtATime,   \* TRUE: a button is pressed when the last press is settled
  MaxPresses,   \* bound on the presses
  MaxIssued,    \* bound on the MQTT commands
  MaxLate,      \* bound on the timeouts of a command that is under way
  MaxOther      \* bound on the reports about anything but the button

Member(s) == {s[x] : x \in DOMAIN s}
Link(e) == {e} \cup Member(Targets[e])

ASSUME LinkAssumption ==
  /\ Ble \subseteq Endpoint
  /\ Targets \in [Endpoint -> Seq(Endpoint)]
  /\ \A e \in Endpoint : e \notin Member(Targets[e])
  /\ \A e \in Endpoint : \A t \in Member(Targets[e]) : Link(t) = Link(e)

ASSUME BoundAssumption ==
  /\ {IdCap, CmdCap} \subseteq Nat \ {0}
  /\ {MaxPresses, MaxIssued, MaxLate, MaxOther} \subseteq Nat
  /\ OneAtATime \in BOOLEAN

State == {"on", "off"}
Item == [id : Endpoint, state : State]
Call == [pc : {"value", "message", "parameters", "send"}, id : Endpoint,
         state : State]

VARIABLES
  state,           \* devices: what a button is switched to
  reports,         \* on the way from a device to the gateway
  commands,        \* on the way from the gateway to a device
  pending,         \* mesh stack: outstanding command per BLE destination
  stateButtonBLE,  \* value last commanded to any BLE device
  repeat,          \* Bluetooth task: ble_mesh_command_set for a repetition,
                   \* with what its message will hold
  value,           \* uart_rx_task: command_set.value, never cleared
  mqtt,            \* mqtt_handle: a command not yet in queueIdButton
  queueIdButton, queueCmdZigbee, queueCmdBLE,
  tokens,          \* sendIdButton: members not yet dealt out
  item,            \* sendIdButton: item.stateButton
  presses, issued, late, other,  \* counters of the bounded events
  wanted,          \* history: value last pressed or commanded in a link
  lost             \* history: a full queue or the mesh stack dropped one, or
                   \* a repetition was overtaken by another command

gateway == <<stateButtonBLE, repeat, value, mqtt, queueIdButton,
             queueCmdZigbee, queueCmdBLE, tokens, item>>
radio == <<reports, commands, pending>>
counters == <<presses, issued, late, other>>
history == <<wanted, lost>>
vars == <<state, radio, gateway, counters, history>>

\* All buttons of a link are alike when the gateway starts.
Init ==
  /\ state \in [Endpoint -> State]
  /\ \A e \in Endpoint : \A t \in Link(e) : state[t] = state[e]
  /\ reports = [e \in Endpoint |-> <<>>]
  /\ commands = [e \in Endpoint |-> <<>>]
  /\ pending = [e \in Endpoint |-> "none"]
  /\ stateButtonBLE = "off" /\ repeat = <<>> /\ value = "off" /\ mqtt = <<>>
  /\ queueIdButton = <<>> /\ queueCmdZigbee = <<>> /\ queueCmdBLE = <<>>
  /\ tokens = <<>> /\ item = "off"
  /\ presses = 0 /\ issued = 0 /\ late = 0 /\ other = 0
  /\ wanted = state /\ lost = FALSE

\* Nothing of an earlier press is left anywhere.
Settled ==
  /\ \A e \in Endpoint :
       reports[e] = <<>> /\ commands[e] = <<>> /\ pending[e] = "none"
  /\ repeat = <<>> /\ mqtt = <<>> /\ tokens = <<>>
  /\ queueIdButton = <<>> /\ queueCmdZigbee = <<>> /\ queueCmdBLE = <<>>

-----------------------------------------------------------------------------
(* Devices and radio *)

Report(k, v) == [kind |-> k, value |-> v]
Push(f, e, x) == [f EXCEPT ![e] = Append(@, x)]
Pop(f, e) == [f EXCEPT ![e] = Tail(@)]

Want(e, v) ==
  wanted' = [t \in Endpoint |-> IF t \in Link(e) THEN v ELSE wanted[t]]

Press(e) ==
  /\ presses < MaxPresses /\ presses' = presses + 1
  /\ OneAtATime => Settled
  /\ \E v \in State \ {state[e]} :
       /\ state' = [state EXCEPT ![e] = v]
       /\ reports' = Push(reports, e, Report("button", v))
       /\ Want(e, v)
  /\ UNCHANGED <<commands, pending, gateway, issued, late, other, lost>>

\* A Zigbee device reports another attribute, or a line has no attribute: the
\* value is "on" for anything but "00", and the last one if there is none.
OtherReport(e) ==
  /\ e \notin Ble /\ other < MaxOther /\ other' = other + 1
  /\ \E v \in {"on", "none"} :
       reports' = Push(reports, e, Report("other", v))
  /\ UNCHANGED <<state, commands, pending, gateway, presses, issued, late,
                 history>>

\* A device is switched.  A Zigbee one reports a change, a BLE one answers.
Execute(e) ==
  /\ commands[e] # <<>>
  /\ commands' = Pop(commands, e)
  /\ state' = [state EXCEPT ![e] = Head(commands[e])]
  /\ reports' =
       IF e \in Ble
       THEN Push(reports, e, Report("status", Head(commands[e])))
       ELSE IF Head(commands[e]) # state[e]
            THEN Push(reports, e, Report("button", Head(commands[e])))
            ELSE reports
  /\ UNCHANGED <<pending, gateway, counters, history>>

\* A repetition takes place in the Bluetooth task, which has the answers.
TaskFree == repeat = <<>>

LoseCommand(e) ==
  /\ e \in Ble /\ commands[e] # <<>>
  /\ commands' = Pop(commands, e)
  /\ UNCHANGED <<state, reports, pending, gateway, counters, history>>

\* An answer gets to the Bluetooth task or is lost: which of them is seen when
\* the task has time for it.
LoseStatus(e) ==
  /\ TaskFree /\ reports[e] # <<>> /\ Head(reports[e]).kind = "status"
  /\ reports' = Pop(reports, e)
  /\ UNCHANGED <<state, commands, pending, gateway, counters, history>>

-----------------------------------------------------------------------------
(* Sending to a BLE device *)

\* Mutant: the value of a command is not remembered.
ValueForgotten(v) == UNCHANGED stateButtonBLE

KeepValue(v) == stateButtonBLE' = v

\* esp_ble_mesh_generic_client_set_state.  A refused command is only logged.
Send(e, v) ==
  IF pending[e] = "none"
  THEN /\ pending' = [pending EXCEPT ![e] = v]
       /\ commands' = Push(commands, e, v)
  ELSE UNCHANGED <<pending, commands>>

Refused(e, v) == pending[e] \notin {"none", v}

UnderWay(e) ==
  commands[e] # <<>> \/ \E x \in Member(reports[e]) : x.kind = "status"

\* The command is repeated with the value last commanded to any device.
Timeout(e) ==
  /\ TaskFree /\ pending[e] # "none"
  /\ IF UnderWay(e) THEN late < MaxLate /\ late' = late + 1
                    ELSE UNCHANGED late
  /\ pending' = [pending EXCEPT ![e] = "none"]
  /\ repeat' = <<[pc |-> "value", id |-> e, state |-> stateButtonBLE]>>
  /\ UNCHANGED <<state, reports, commands, stateButtonBLE, value, mqtt,
                 queueIdButton, queueCmdZigbee, queueCmdBLE, tokens, item,
                 presses, issued, other, history>>

Repeats(l) == ~ TaskFree /\ repeat[1].pc = l
Goto(l) == repeat' = [repeat EXCEPT ![1].pc = l]

\* The value is put back that was read when the command timed out.
RepeatValue ==
  /\ Repeats("value") /\ Goto("message")
  /\ KeepValue(repeat[1].state)
  /\ UNCHANGED <<state, radio, value, mqtt, queueIdButton, queueCmdZigbee,
                 queueCmdBLE, tokens, item, counters, history>>

\* The destination is filled in, then the value.
RepeatFill ==
  /\ \/ Repeats("message") /\ Goto("parameters")
     \/ Repeats("parameters") /\ Goto("send")
  /\ UNCHANGED <<state, radio, stateButtonBLE, value, mqtt, queueIdButton,
                 queueCmdZigbee, queueCmdBLE, tokens, item, counters, history>>

RepeatSend ==
  /\ Repeats("send") /\ repeat' = <<>>
  /\ Send(repeat[1].id, repeat[1].state)
  /\ lost' = (lost \/ Refused(repeat[1].id, repeat[1].state))
  /\ UNCHANGED <<state, reports, stateButtonBLE, value, mqtt, queueIdButton,
                 queueCmdZigbee, queueCmdBLE, tokens, item, counters, wanted>>

Repetition == RepeatValue \/ RepeatFill \/ RepeatSend

-----------------------------------------------------------------------------
(* Into queueIdButton *)

\* Mutant: the queue has no end.
OfferAlways(q, cap, x) == Append(q, x)

\* xQueueSend waits for room for a while, then gives up.
Offer(q, cap, x) ==
  IF Len(q) < cap THEN Append(q, x) ELSE q

Dropped(q, cap) == Len(q) >= cap

OfferId(e, v) ==
  /\ queueIdButton' = Offer(queueIdButton, IdCap, [id |-> e, state |-> v])
  /\ lost' = (lost \/ Dropped(queueIdButton, IdCap))

\* uart_rx_task, a line of a Zigbee device.
ZigbeeReport(e) ==
  /\ e \notin Ble /\ reports[e] # <<>>
  /\ reports' = Pop(reports, e)
  /\ value' = IF Head(reports[e]).value = "none" THEN value
                                                 ELSE Head(reports[e]).value
  /\ OfferId(e, value')
  /\ UNCHANGED <<state, commands, pending, stateButtonBLE, repeat, mqtt,
                 queueCmdZigbee, queueCmdBLE, tokens, item, counters, wanted>>

\* GET_STATE/SET_STATE event: the status answers the outstanding command.
BleStatus(e) ==
  /\ TaskFree /\ reports[e] # <<>> /\ Head(reports[e]).kind = "status"
  /\ pending[e] # "none"
  /\ reports' = Pop(reports, e)
  /\ pending' = [pending EXCEPT ![e] = "none"]
  /\ UNCHANGED <<state, commands, gateway, counters, history>>

\* PUBLISH event: the button was pressed, or a status is late.
BlePublish(e) ==
  /\ TaskFree /\ e \in Ble /\ reports[e] # <<>>
  /\ Head(reports[e]).kind = "status" => pending[e] = "none"
  /\ reports' = Pop(reports, e)
  /\ OfferId(e, Head(reports[e]).value)
  /\ UNCHANGED <<state, commands, pending, stateButtonBLE, repeat, value, mqtt,
                 queueCmdZigbee, queueCmdBLE, tokens, item, counters, wanted>>

\* mqtt_handle, "on-off": the device is commanded, then its link.  The call
\* of ble_mesh_command_set is one step: when all is settled nothing overtakes
\* it (overtaken calls of mqtt_handle are in BleOnOff).
MqttOnOff(e) ==
  /\ issued < MaxIssued /\ issued' = issued + 1
  /\ Settled
  /\ \E v \in State :
       /\ mqtt' = <<[id |-> e, state |-> v]>>
       /\ Want(e, v)
       /\ IF e \in Ble
          THEN /\ KeepValue(v) /\ Send(e, v)
               /\ lost' = (lost \/ Refused(e, v))
          ELSE /\ commands' = Push(commands, e, v)
               /\ UNCHANGED <<pending, stateButtonBLE, lost>>
  /\ UNCHANGED <<state, reports, repeat, value, queueIdButton, queueCmdZigbee,
                 queueCmdBLE, tokens, item, presses, late, other>>

\* Mutant: the link is left out.
MqttLinkSkipped ==
  /\ mqtt # <<>> /\ mqtt' = <<>>
  /\ UNCHANGED <<state, radio, stateButtonBLE, repeat, value, queueIdButton,
                 queueCmdZigbee, queueCmdBLE, tokens, item, counters, history>>

MqttLink ==
  /\ mqtt # <<>> /\ mqtt' = <<>>
  /\ OfferId(Head(mqtt).id, Head(mqtt).state)
  /\ UNCHANGED <<state, radio, stateButtonBLE, repeat, value, queueCmdZigbee,
                 queueCmdBLE, tokens, item, counters, wanted>>

-----------------------------------------------------------------------------
(* sendIdButton, sendCommandZigbee, sendCommandBLE *)

\* Mutant: the newest report comes first.
LookUpNewest ==
  /\ tokens = <<>> /\ queueIdButton # <<>>
  /\ queueIdButton' = SubSeq(queueIdButton, 1, Len(queueIdButton) - 1)
  /\ item' = queueIdButton[Len(queueIdButton)].state
  /\ tokens' = Targets[queueIdButton[Len(queueIdButton)].id]
  /\ UNCHANGED <<state, radio, stateButtonBLE, repeat, value, mqtt,
                 queueCmdZigbee, queueCmdBLE, counters, history>>

\* The members are copied out of the map before they are dealt out.
LookUp ==
  /\ tokens = <<>> /\ queueIdButton # <<>>
  /\ queueIdButton' = Tail(queueIdButton)
  /\ item' = Head(queueIdButton).state
  /\ tokens' = Targets[Head(queueIdButton).id]
  /\ UNCHANGED <<state, radio, stateButtonBLE, repeat, value, mqtt,
                 queueCmdZigbee, queueCmdBLE, counters, history>>

\* Mutant: the next token is not taken.
TakeNone == UNCHANGED tokens

TakeToken == tokens' = Tail(tokens)

Deal ==
  /\ tokens # <<>> /\ TakeToken
  /\ LET x == [id |-> Head(tokens), state |-> item] IN
     IF x.id \in Ble
     THEN /\ queueCmdBLE' = Offer(queueCmdBLE, CmdCap, x)
          /\ lost' = (lost \/ Dropped(queueCmdBLE, CmdCap))
          /\ UNCHANGED queueCmdZigbee
     ELSE /\ queueCmdZigbee' = Offer(queueCmdZigbee, CmdCap, x)
          /\ lost' = (lost \/ Dropped(queueCmdZigbee, CmdCap))
          /\ UNCHANGED queueCmdBLE
  /\ UNCHANGED <<state, radio, stateButtonBLE, repeat, value, mqtt,
                 queueIdButton, item, counters, wanted>>

SendCommandZigbee ==
  /\ queueCmdZigbee # <<>>
  /\ queueCmdZigbee' = Tail(queueCmdZigbee)
  /\ LET x == Head(queueCmdZigbee) IN
     commands' = Push(commands, x.id, x.state)
  /\ UNCHANGED <<state, reports, pending, stateButtonBLE, repeat, value, mqtt,
                 queueIdButton, queueCmdBLE, tokens, item, counters, history>>

\* A whole call of ble_mesh_command_set comes between two steps of a
\* repetition: what this one has filled in is replaced.
Overtaken(r, x) ==
  [r EXCEPT !.id = IF r.pc \in {"parameters", "send"} THEN x.id ELSE @,
            !.state = IF r.pc = "send" THEN x.state ELSE @]

\* A command to one button that is repeated to another, or with an old value.
Spoilt(r, x) ==
  IF r.id = x.id THEN r.state # x.state ELSE r.pc \in {"parameters", "send"}

SendCommandBLE ==
  /\ queueCmdBLE # <<>>
  /\ queueCmdBLE' = Tail(queueCmdBLE)
  /\ LET x == Head(queueCmdBLE) IN
     /\ KeepValue(x.state)
     /\ repeat' = [i \in DOMAIN repeat |-> Overtaken(repeat[i], x)]
     /\ Send(x.id, x.state)
     /\ lost' = (lost \/ Refused(x.id, x.state)
                      \/ \E r \in Member(repeat) : Spoilt(r, x))
  /\ UNCHANGED <<state, reports, value, mqtt, queueIdButton, queueCmdZigbee,
                 tokens, item, counters, wanted>>

Tasks ==
  MqttLink \/ LookUp \/ Deal \/ SendCommandZigbee \/ SendCommandBLE

Next ==
  \/ \E e \in Endpoint :
       \/ Press(e) \/ OtherReport(e) \/ MqttOnOff(e)
       \/ Execute(e) \/ LoseCommand(e) \/ LoseStatus(e) \/ Timeout(e)
       \/ ZigbeeReport(e) \/ BleStatus(e) \/ BlePublish(e)
  \/ Tasks \/ Repetition

Spec == Init /\ [][Next]_vars

\* Every task runs on; the mesh loses messages, but not every copy of one
\* that is sent again and again.
Fairness ==
  /\ WF_vars(MqttLink) /\ WF_vars(LookUp \/ Deal)
  /\ WF_vars(SendCommandZigbee) /\ WF_vars(SendCommandBLE)
  /\ WF_vars(Repetition)
  /\ \A e \in Endpoint :
       /\ WF_vars(Timeout(e))
       /\ SF_vars(Execute(e))
       /\ SF_vars(ZigbeeReport(e) \/ BleStatus(e) \/ BlePublish(e))

FairSpec == Spec /\ Fairness

-----------------------------------------------------------------------------
(* Properties *)

TypeOK ==
  /\ state \in [Endpoint -> State] /\ wanted \in [Endpoint -> State]
  /\ reports \in [Endpoint -> Seq([kind : {"button", "status", "other"},
                                   value : State \cup {"none"}])]
  /\ commands \in [Endpoint -> Seq(State)]
  /\ pending \in [Endpoint -> State \cup {"none"}]
  /\ stateButtonBLE \in State /\ value \in State /\ item \in State
  /\ repeat \in Seq(Call) /\ Len(repeat) <= 1
  /\ mqtt \in Seq(Item) /\ Len(mqtt) <= 1
  /\ queueIdButton \in Seq(Item) /\ Len(queueIdButton) <= IdCap
  /\ queueCmdZigbee \in Seq(Item) /\ Len(queueCmdZigbee) <= CmdCap
  /\ queueCmdBLE \in Seq(Item) /\ Len(queueCmdBLE) <= CmdCap
  /\ tokens \in Seq(Endpoint)
  /\ presses \in 0 .. MaxPresses /\ issued \in 0 .. MaxIssued
  /\ late \in 0 .. MaxLate
  /\ other \in 0 .. MaxOther
  /\ lost \in BOOLEAN

\* When a press is settled, every button of its link has the value that was
\* pressed or commanded, whatever the mesh lost or repeated on the way;
\* unless a queue was full, the stack refused a command, or the repetition of
\* a command to one button was overtaken by a command to another, in whose
\* place it was then sent.
LinkedFollow ==
  OneAtATime /\ other = 0 /\ Settled /\ ~ lost => state = wanted

\* The gateway switches a button only to the value that was last pressed or
\* commanded in its link, never back, although the repetition of a command
\* takes its value from a variable that all BLE devices share.  Endpoints have
\* one digit.
SwitchedAsWanted ==
  [][OneAtATime /\ other = 0 /\ presses' = presses /\ issued' = issued =>
       \A e \in Endpoint : state'[e] # state[e] => state'[e] = wanted[e]]_vars

\* However the presses of devices overlap, the buttons of a link agree when
\* the traffic has died out, if one of all the buttons is BLE (with two, the
\* repetition of a lost command may carry what another link was sent); unless
\* the late answer to a command was taken for the answer to its repetition, or
\* a repetition was overtaken by a newer command.
OneBle == \A x, y \in Ble : x = y

LinkedAgree ==
  OneBle /\ issued + late + other = 0 /\ Settled /\ ~ lost
    => \A e \in Endpoint : \A t \in Link(e) : state[t] = state[e]

\* The traffic of a press dies out: what the commands make the devices report
\* does not keep the commands going.
PressSettles == []<>Settled
=============================================================================
