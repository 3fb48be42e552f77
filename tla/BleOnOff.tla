------------------------------ MODULE BleOnOff ------------------------------
(***************************************************************************)
(* The on-off client of the gateway (BLE/ble_mesh.c): starting the mesh,   *)
(* commanding a button (ble_mesh_command_set), asking for its state        *)
(* (ble_mesh_command_get) and what the answers and timeouts do.            *)
(*                                                                         *)
(* ble_mesh_command_set keeps its parameters in static variables and is    *)
(* called by three tasks of one core: a task is overtaken between any two  *)
(* of its steps by one of higher priority, never by one of lower.          *)
(*                                                                         *)
(* The mesh stack and the devices are external.  A request is put into the *)
(* queue of the Bluetooth task, which also runs the callbacks: while it is *)
(* in one of them it neither sends nor delivers anything.                  *)
(***************************************************************************)
EXTENDS Naturals, Sequences

CONSTANTS
  Elements,     \* devices: unicast address -> number of buttons
  Clients,      \* the gateway's own models that are bound to the key
  Linked,       \* buttons that are linked to others
  StateCap,     \* length of queueGetStateOnoffBLE: 50
  IdCap,        \* length of queueIdButton: 100
  MaxEvents     \* bound on what happens to the gateway from outside: devices
                \* that join, buttons reported, timeouts, commands

Node == DOMAIN Elements
Buttons(n) == {n + k - 1 : k \in 1 .. Elements[n]}

\* uint16_t
MaxAddress == 65535
Address == 0 .. MaxAddress

ASSUME DeviceAssumption ==
  /\ Node \subseteq Nat \ {0}
  /\ \A n \in Node : Elements[n] \in Nat \ {0} /\ Buttons(n) \subseteq Address
  /\ \A n, m \in Node : n # m => Buttons(n) \cap Buttons(m) = {}
  /\ Linked \subseteq UNION {Buttons(n) : n \in Node}
  /\ "onoff" \in Clients

ASSUME BoundAssumption ==
  {StateCap, IdCap, MaxEvents} \subseteq Nat

Caller == {"mqtt_handle", "bluetooth", "sendCommandBLE"}
\* Mutant: the commands of links are sent by a task like any other.
PriorityOfLinksLow == [mqtt_handle |-> 3, bluetooth |-> 19,
                       sendCommandBLE |-> 3]

Priority == [mqtt_handle |-> 3, bluetooth |-> 19, sendCommandBLE |-> 24]

ElementAddr(n, endpoint) == (n + endpoint + MaxAddress) % (MaxAddress + 1)
Owned(a) == \E n \in Node : a \in Buttons(n)

Idle == [pc |-> "idle", dest |-> 0, onoff |-> 0, overtaken |-> FALSE]

VARIABLES
  stack,           \* what of the mesh is started
  bound,           \* own models that are bound to the key
  stateButtonBLE,  \* value last commanded
  common,          \* ble_mesh_command_set: destination of the message
  set_state,       \* ble_mesh_command_set: value of the message
  call,            \* calls of ble_mesh_command_set under way
  btc,             \* queue of the Bluetooth task
  pending,         \* mesh stack: requests not yet answered
  joining,         \* ble_mesh_config_client_cb: asking for the states
  queueGetStateOnoffBLE,  \* answers, by the button that was asked
  queueIdButton,   \* values to be passed on to linked buttons
  events,          \* how much has happened from outside
  shown,           \* history: states published on joining
  astray           \* history: callers whose message was another one

queues == <<queueGetStateOnoffBLE, queueIdButton>>
statics == <<stateButtonBLE, common, set_state, call>>
history == <<shown, astray>>
mesh == <<stack, bound, statics, btc, pending, joining, queues,
          history>>
ble == <<mesh, events>>

Happens == events < MaxEvents /\ events' = events + 1

Request == [op : {"set", "get", "reset"}, dest : Address, onoff : {0, 1}]

-----------------------------------------------------------------------------
(* Starting and stopping *)

\* RAM after a reset.
BleReset ==
  /\ stack' = "down" /\ bound' = {}
  /\ stateButtonBLE' = 0 /\ common' = 0 /\ set_state' = 0
  /\ call' = [c \in Caller |-> Idle]
  /\ btc' = <<>> /\ pending' = {} /\ joining' = <<>>
  /\ queueGetStateOnoffBLE' = <<>> /\ queueIdButton' = <<>>

\* bluetooth_init and ble_mesh_init give up at the first call that fails: what
\* each may leave behind.
bluetooth_init == {"down", "enabled"}
ble_mesh_init == {"down", "meshed", "keyed"}

\* ble_init, whose result app_main does not look at.
BleInit ==
  /\ stack = "down"
  /\ \E b \in bluetooth_init :
       IF b = "down" THEN UNCHANGED stack ELSE stack' \in ble_mesh_init

BtcFree == call["bluetooth"] = Idle /\ joining = <<>>

\* ADD_LOCAL_APP_KEY event: the key is bound to each own model; a binding
\* that fails is only logged.
AppKeyAdded ==
  /\ stack = "keyed" /\ BtcFree
  /\ stack' = "ready"
  /\ bound' \in SUBSET Clients
  /\ UNCHANGED <<statics, btc, pending, joining, queues, events,
                 history>>

\* ble_deinit; it waits for the Bluetooth task to get to it.
BleDeinit ==
  /\ BtcFree /\ btc = <<>>
  /\ stack' = "down" /\ bound' = {} /\ pending' = {}

-----------------------------------------------------------------------------
(* ble_mesh_command_set *)

Ready(c) == call[c].pc # "idle"
Runs(c) == \A d \in Caller : Priority[d] > Priority[c] => ~ Ready(d)
Goto(c, l) == call' = [call EXCEPT ![c].pc = l]

Call(c, a, v) ==
  /\ ~ Ready(c)
  /\ call' = [call EXCEPT ![c] = [pc |-> "value", dest |-> a, onoff |-> v,
                                  overtaken |-> FALSE]]

KeepValue(c) ==
  /\ call[c].pc = "value" /\ Runs(c)
  /\ stateButtonBLE' = call[c].onoff
  /\ Goto(c, "message")
  /\ UNCHANGED <<common, set_state>>

\* The message of a call that is not yet sent is written over.
Overtake(c, l) ==
  call' = [d \in Caller |->
             IF d = c THEN [call[c] EXCEPT !.pc = l]
             ELSE [call[d] EXCEPT !.overtaken =
                     @ \/ call[d].pc \in {"parameters", "send"}]]

\* ble_mesh_set_msg_common_element
FillMessage(c) ==
  /\ call[c].pc = "message" /\ Runs(c)
  /\ common' = call[c].dest
  /\ Overtake(c, "parameters")
  /\ UNCHANGED <<stateButtonBLE, set_state>>

FillParameters(c) ==
  /\ call[c].pc = "parameters" /\ Runs(c)
  /\ set_state' = call[c].onoff
  /\ Overtake(c, "send")
  /\ UNCHANGED <<stateButtonBLE, common>>

Post(op, a, v) == btc' = Append(btc, [op |-> op, dest |-> a, onoff |-> v])

\* Both are copied into the request; a mesh that is down refuses it.
SendMessage(c) ==
  /\ call[c].pc = "send" /\ Runs(c)
  /\ IF stack = "down" THEN UNCHANGED btc ELSE Post("set", common, set_state)
  /\ astray' = IF common # call[c].dest \/ set_state # call[c].onoff
               THEN astray \cup {[by |-> c, overtaken |-> call[c].overtaken]}
               ELSE astray
  /\ call' = [call EXCEPT ![c] = Idle]
  /\ UNCHANGED <<stateButtonBLE, common, set_state>>

ble_mesh_command_set(c) ==
  /\ \/ (KeepValue(c) \/ FillMessage(c) \/ FillParameters(c))
        /\ UNCHANGED <<btc, astray>>
     \/ SendMessage(c)
  /\ UNCHANGED <<stack, bound, pending, joining, queues, events,
                 shown>>

\* Another task reports a button into queueIdButton.
ReportElsewhere ==
  /\ Happens
  /\ Len(queueIdButton) < IdCap
  /\ \E v \in {0, 1} : queueIdButton' = Append(queueIdButton, v)
  /\ UNCHANGED <<stack, bound, statics, btc, pending, joining,
                 queueGetStateOnoffBLE, history>>

\* sendIdButton and sendCommandBLE: a button linked to the reported one.
LinkCommand ==
  /\ queueIdButton # <<>> /\ queueIdButton' = Tail(queueIdButton)
  /\ \E a \in Linked : Call("sendCommandBLE", a, Head(queueIdButton))
  /\ UNCHANGED <<stack, bound, stateButtonBLE, common, set_state, btc, pending,
                 joining, queueGetStateOnoffBLE, events, history>>

-----------------------------------------------------------------------------
(* The Bluetooth task: requests and events *)

TaskFree == BtcFree /\ Runs("bluetooth")

Outstanding(a) == \E p \in pending : p.dest = a

\* The stack sends a request, or answers it with an error (no key, or one is
\* outstanding), which the callback ignores.  A reset is not followed up.
TakeRequest ==
  /\ btc # <<>> /\ TaskFree
  /\ btc' = Tail(btc)
  /\ LET r == Head(btc) IN
     pending' = IF r.op # "reset" /\ "onoff" \in bound /\ ~ Outstanding(r.dest)
                THEN pending \cup {r} ELSE pending
  /\ UNCHANGED <<stack, bound, statics, joining, queues, events,
                 history>>

\* SET_STATE event: the status is published.
SetAnswered ==
  /\ TaskFree
  /\ \E p \in pending :
       /\ p.op = "set" /\ Owned(p.dest)
       /\ pending' = pending \ {p}
  /\ UNCHANGED <<stack, bound, statics, btc, joining, queues, events,
                 history>>

\* GET_STATE event: xQueueSend gives up if the queue stays full.
GetAnswered ==
  /\ TaskFree
  /\ \E p \in pending :
       /\ p.op = "get" /\ Owned(p.dest)
       /\ pending' = pending \ {p}
       /\ queueGetStateOnoffBLE' =
            IF Len(queueGetStateOnoffBLE) < StateCap
            THEN Append(queueGetStateOnoffBLE, p.dest)
            ELSE queueGetStateOnoffBLE
  /\ UNCHANGED <<stack, bound, statics, btc, joining, queueIdButton,
                 events, history>>

\* TIMEOUT event: a command to a known device is repeated with the value last
\* commanded to any; a question is not.
TimedOut ==
  /\ Happens
  /\ TaskFree
  /\ \E p \in pending :
       /\ pending' = pending \ {p}
       /\ IF p.op = "set" /\ Owned(p.dest)
          THEN Call("bluetooth", p.dest, stateButtonBLE)
          ELSE UNCHANGED call
  /\ UNCHANGED <<stack, bound, stateButtonBLE, common, set_state, btc, joining, queues, history>>

-----------------------------------------------------------------------------
(* The Bluetooth task: a device has joined *)

\* Button k of device n is asked for its state next.
ToAsk(n, k) == <<[node |-> n, endpoint |-> k, asked |-> FALSE]>>

\* The last bind of the device was answered: its states are asked for.  A
\* device that was reset, by the server or by hand, joins again.
StartAsking(n) ==
  /\ stack = "ready" /\ TaskFree
  /\ Happens
  /\ joining' = ToAsk(n, 1)
  /\ UNCHANGED <<stack, bound, statics, btc, pending, queues, history>>

Asking == joining # <<>>
AskedButton == ElementAddr(joining[1].node, joining[1].endpoint)

\* ble_mesh_command_get
AskState ==
  /\ Asking /\ ~ joining[1].asked /\ Runs("bluetooth")
  /\ Post("get", AskedButton, 0)
  /\ joining' = [joining EXCEPT ![1].asked = TRUE]
  /\ UNCHANGED <<stack, bound, statics, pending, queues, events,
                 history>>

\* Mutant: the loop runs once more.
NextButtonLate ==
  joining' = IF joining[1].endpoint > Elements[joining[1].node] THEN <<>>
             ELSE ToAsk(joining[1].node, joining[1].endpoint + 1)

NextButton ==
  joining' = IF joining[1].endpoint = Elements[joining[1].node] THEN <<>>
             ELSE ToAsk(joining[1].node, joining[1].endpoint + 1)

\* An answer in the queue is published; without one in ten ticks nothing is.
ShowState ==
  /\ Asking /\ joining[1].asked /\ Runs("bluetooth")
  /\ IF queueGetStateOnoffBLE # <<>>
     THEN /\ shown' = shown \cup {[own |-> Buttons(joining[1].node),
                                   from |-> Head(queueGetStateOnoffBLE)]}
          /\ queueGetStateOnoffBLE' = Tail(queueGetStateOnoffBLE)
     ELSE UNCHANGED <<shown, queueGetStateOnoffBLE>>
  /\ NextButton
  /\ UNCHANGED <<stack, bound, statics, btc, pending, queueIdButton,
                 events, astray>>

BleEvents ==
  \/ AppKeyAdded \/ TakeRequest \/ SetAnswered \/ GetAnswered \/ TimedOut
  \/ (\E n \in Node : StartAsking(n)) \/ AskState \/ ShowState

BleNext ==
  \/ \E c \in Caller : ble_mesh_command_set(c)
  \/ ReportElsewhere \/ LinkCommand \/ BleEvents

BleStart ==
  /\ stack = "down" /\ bound = {}
  /\ stateButtonBLE = 0 /\ common = 0 /\ set_state = 0
  /\ call = [c \in Caller |-> Idle]
  /\ btc = <<>> /\ pending = {} /\ joining = <<>>
  /\ queueGetStateOnoffBLE = <<>> /\ queueIdButton = <<>>
  /\ events = 0 /\ shown = {} /\ astray = {}

BleTypeOK ==
  /\ stack \in {"down", "meshed", "keyed", "ready"}
  /\ bound \subseteq Clients
  /\ stateButtonBLE \in {0, 1} /\ common \in Address /\ set_state \in {0, 1}
  /\ call \in [Caller -> [pc : {"idle", "value", "message", "parameters",
                                "send"},
                          dest : Address, onoff : {0, 1},
                          overtaken : BOOLEAN]]
  /\ btc \in Seq(Request) /\ pending \subseteq Request
  /\ \A p, q \in pending : p.dest = q.dest => p = q
  /\ joining = <<>> \/ joining \in [{1} -> [node : Node, asked : BOOLEAN,
                                            endpoint : Nat]]
  /\ Asking => AskedButton \in Buttons(joining[1].node)
  /\ Len(queueGetStateOnoffBLE) <= StateCap /\ Len(queueIdButton) <= IdCap

-----------------------------------------------------------------------------
(* Properties *)

\* Although the parameters of a command are shared by three tasks, every
\* command of a link is sent as it was given, and every other one is too
\* unless a task of higher priority wrote between its first write and its
\* sending.
SentAsGiven ==
  \A w \in astray : w.overtaken /\ w.by # "sendCommandBLE"

\* What is published as the state of a device that has joined is a state of
\* one of its buttons (the comment at ble_mesh.c 598: "Publish state of BLE
\* device after is joined").
JoinedState ==
  \A s \in shown : s.from \in s.own
=============================================================================
