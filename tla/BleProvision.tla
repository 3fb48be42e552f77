---------------------------- MODULE BleProvision ----------------------------
(***************************************************************************)
(* The provisioner of the gateway (BLE/ble_mesh.c): a device is let into   *)
(* the mesh, its composition data is read, the application key is added,   *)
(* every model of every element is bound to the key one request at a time, *)
(* and the device is announced on the bledevicejoined topic.  A wall       *)
(* switch is then subscribed, element by element, to the group 0xC000.     *)
(*                                                                         *)
(* All callbacks run in the one task of the Bluetooth stack, so a callback *)
(* is one action.  The chain has no state per node: global_node and the    *)
(* static variables of ble_mesh_config_client_cb serve every node there    *)
(* is.  The mesh stack is external: it keeps one outstanding request per   *)
(* destination, reports a status that answers it as a GET_STATE/SET_STATE  *)
(* event, any other status as a PUBLISH event (which the code ignores),    *)
(* and reports TIMEOUT when nothing came in time.                          *)
(***************************************************************************)
EXTENDS Naturals, Sequences, FiniteSets

CONSTANTS
  Node,         \* the devices that can be provisioned
  NoNode,       \* global_node before any device was seen
  MaxElem,      \* rows of global_node.models: 8 in ble_mesh.h
  MaxModel,     \* columns of global_node.models: 24 in ble_mesh.h
  Elems,        \* composition data: number of elements of a device
  Rows,         \* composition data: number of models of an element
  ModelAt,      \* composition data: the models themselves
  MaxLinks,     \* provisioning links at the same time: 2 in sdkconfig
  Environments  \* what the gateway may have to live with, see EnvironmentType

ElemIdx == 0 .. MaxElem - 1
ColIdx  == 0 .. MaxModel - 1

\* 0xffff ends a row of models; as a company id it says "not a vendor model".
EndId == 65535
Model == [id : Nat, cid : Nat]

\* A device fits the two tables (the code does not check that it does), has
\* at least one model in each element, and no model of it has the id 0xffff.
ASSUME CompositionAssumption ==
  /\ MaxElem \in Nat \ {0} /\ MaxModel \in Nat \ {0, 1}
  /\ Elems \in [Node -> 1 .. MaxElem]
  /\ Rows \in [Node -> [ElemIdx -> 1 .. MaxModel - 1]]
  /\ ModelAt \in [Node -> [ElemIdx -> [ColIdx -> Model]]]
  /\ \A n \in Node, e \in ElemIdx, c \in ColIdx : ModelAt[n][e][c].id # EndId

ASSUME ModeAssumption ==
  /\ NoNode \notin Node /\ MaxLinks \in Nat

\* The devices whose UUID says 02 01 (wall switches), those that may refuse a
\* key, a bind or a subscription, whether devices are added one after the
\* other, whether the stack may fail to send a request, and bounds on the
\* restarts of the gateway and on the timeouts of a request whose answer is
\* under way.
EnvironmentType ==
  [wallSwitch : SUBSET Node, refusing : SUBSET Node, oneAtATime : BOOLEAN,
   sendMayFail : BOOLEAN, maxRestarts : Nat, maxLate : Nat]

ASSUME EnvironmentAssumption == Environments \subseteq EnvironmentType

VARIABLES
  provision_status,  \* the flag set by "bleopen"
  link,              \* stack: devices with an open provisioning link
  prov,              \* stack: provisioned nodes, kept in flash
  unicast_addr, MAC, \* global_node: device last provisioned, last heard
  element_num,       \* global_node: number of rows of the table in use
  models,            \* global_node: models and cid, the table of the models
  i, j, k,           \* static: next column, row, element to subscribe
  temp,              \* static: id of the model last asked for
  wait,              \* static: wait_model_id and wait_cid
  pending,           \* stack: outstanding config request per node
  requests,          \* config requests on the air
  answers,           \* status messages on the air
  keyed,             \* devices: those that hold the application key
  bound,             \* devices: models bound to the application key
  refused,           \* devices: models of which every bind so far was refused
  subscribed,        \* devices: elements in the group 0xC000
  joined,            \* what was published on bledevicejoined
  late, restarts,    \* counters of the two bounded events
  env                \* the environment of this behaviour; never changes

global_node == <<unicast_addr, MAC, element_num, models>>
gateway == <<provision_status, global_node, i, j, k, temp, wait>>
device  == <<keyed, bound, refused, subscribed>>
vars == <<gateway, link, prov, pending, requests, answers, device, joined,
          late, restarts, env>>

WallSwitch == env.wallSwitch
Refusing == env.refusing
OneAtATime == env.oneAtATime
SendMayFail == env.sendMayFail

Op == {"comp", "key", "bind", "sub"}
Message == [op : Op, node : Node, elem : ElemIdx, model : Model]
Announcement == [node : Node \cup {NoNode}, mac : Node \cup {NoNode},
                 endpointCount : 0 .. MaxElem]

Zero == [id |-> 0, cid |-> 0]
Terminator == [id |-> EndId, cid |-> 0]
OnOffSrv == [id |-> 4096, cid |-> EndId]

\* The zeroed statics of a freshly started gateway.
ZeroedTable == [e \in ElemIdx |-> [c \in ColIdx |-> Zero]]

Init ==
  /\ provision_status = 0
  /\ link = {} /\ prov = {}
  /\ unicast_addr = NoNode /\ MAC = NoNode
  /\ element_num = 0 /\ models = ZeroedTable
  /\ i = 0 /\ j = 0 /\ k = 0 /\ temp = 0 /\ wait = Zero
  /\ pending = [n \in Node |-> "none"]
  /\ requests = {} /\ answers = {}
  /\ keyed = {} /\ bound = [n \in Node |-> {}] /\ refused = [n \in Node |-> {}]
  /\ subscribed = [n \in Node |-> {}]
  /\ joined = <<>> /\ late = 0 /\ restarts = 0
  /\ env \in Environments

-----------------------------------------------------------------------------
(* Letting a device in *)

\* MQTT "bleopen" and "close".
BleOpen ==
  /\ provision_status' = 1
  /\ UNCHANGED <<global_node, i, j, k, temp, wait, link, prov, pending,
                 requests, answers, device, joined, late, restarts, env>>

BleClose ==
  /\ provision_status' = 0
  /\ UNCHANGED <<global_node, i, j, k, temp, wait, link, prov, pending,
                 requests, answers, device, joined, late, restarts, env>>

\* No device is being let in or configured.
Idle(except) ==
  /\ link \subseteq {except}
  /\ \A n \in Node : pending[n] = "none"

\* An advertisement of an unprovisioned device.  The address goes to
\* global_node whether or not the stack has room for another link.
RecvUnprovAdv(n) ==
  /\ n \notin prov
  /\ OneAtATime => Idle(n)
  /\ provision_status = 1
  /\ MAC' = n
  /\ link' = IF Cardinality(link \cup {n}) <= MaxLinks
             THEN link \cup {n} ELSE link
  /\ UNCHANGED <<provision_status, unicast_addr, element_num, models,
                 i, j, k, temp, wait, prov, pending, requests,
                 answers, device, joined, late, restarts, env>>

\* The stack closes a link that did not complete.
LinkClose(n) ==
  /\ n \in link
  /\ link' = link \ {n}
  /\ UNCHANGED <<gateway, prov, pending, requests, answers, device, joined,
                 late, restarts, env>>

-----------------------------------------------------------------------------
(* Requests and events of the configuration client *)

Request(o, n, e, m) == [op |-> o, node |-> n, elem |-> e, model |-> m]

\* The outcome of sending, in a callback that leaves nothing outstanding for
\* this destination.
SendOutcome == IF SendMayFail THEN BOOLEAN ELSE {TRUE}

Send(ok, r) ==
  /\ pending' = [pending EXCEPT ![r.node] = IF ok THEN r.op ELSE "none"]
  /\ requests' = IF ok THEN requests \cup {r} ELSE requests

SendNothing(n) ==
  /\ pending' = [pending EXCEPT ![n] = "none"]
  /\ UNCHANGED requests

\* A status that answers the outstanding request leaves the air.
Answered(a) ==
  /\ a \in answers
  /\ pending[a.node] = a.op
  /\ answers' = answers \ {a}

\* PUBLISH event: the status answers nothing that is outstanding.
IgnorePublish(a) ==
  /\ a \in answers
  /\ pending[a.node] # a.op
  /\ answers' = answers \ {a}
  /\ UNCHANGED <<gateway, link, prov, pending, requests, device, joined,
                 late, restarts, env>>

\* Mutant: the address of the device is not stored.
ProvCompleteNoAddress(n) ==
  /\ n \in link
  /\ link' = link \ {n}
  /\ prov' = prov \cup {n}
  /\ provision_status' = 0
  /\ \E ok \in SendOutcome : Send(ok, Request("comp", n, 0, Zero))
  /\ UNCHANGED <<unicast_addr, MAC, element_num, models, i, j, k, temp, wait,
                 answers, device, joined, late, restarts, env>>

\* prov_complete: the window closes, and the chain starts.
ProvComplete(n) ==
  /\ n \in link
  /\ link' = link \ {n}
  /\ prov' = prov \cup {n}
  /\ provision_status' = 0
  /\ unicast_addr' = n
  /\ \E ok \in SendOutcome : Send(ok, Request("comp", n, 0, Zero))
  /\ UNCHANGED <<MAC, element_num, models, i, j, k, temp, wait, answers,
                 device, joined, late, restarts, env>>

\* Mutant: the table is cleared first.
ParsedCellCleared(n, e, c) ==
  CASE e < Elems[n] /\ c < Rows[n][e] -> ModelAt[n][e][c]
    [] e < Elems[n] /\ c = Rows[n][e] -> Terminator
    [] OTHER -> Zero

\* ble_mesh_parse_node_comp_data: the rows of the device overwrite the table
\* up to and including their terminator; the rest keeps what it held.
ParsedCell(n, e, c) ==
  CASE e < Elems[n] /\ c < Rows[n][e] -> ModelAt[n][e][c]
    [] e < Elems[n] /\ c = Rows[n][e] -> Terminator
    [] OTHER -> models[e][c]

ParsedTable(n) == [e \in ElemIdx |-> [c \in ColIdx |-> ParsedCell(n, e, c)]]

OnCompositionStatus(a) ==
  /\ a.op = "comp" /\ Answered(a)
  /\ element_num' = Elems[a.node]
  /\ models' = ParsedTable(a.node)
  /\ \E ok \in SendOutcome : Send(ok, Request("key", a.node, 0, Zero))
  /\ UNCHANGED <<provision_status, unicast_addr, MAC, i, j, k, temp, wait,
                 link, prov, device, joined,
                 late, restarts, env>>

\* The device answered the application key, whatever the status it gave: the
\* field is never read, here or below.  The cursor goes to the first model.
OnAppKeyStatus(a) ==
  /\ a.op = "key" /\ Answered(a)
  /\ j' = 0
  /\ temp' = models[0][0].id
  /\ \E ok \in SendOutcome :
       /\ Send(ok, Request("bind", a.node, 0, models[0][0]))
       /\ wait' = IF ok THEN models[0][0] ELSE wait
       /\ i' = IF ok THEN 1 ELSE 0
  /\ UNCHANGED <<provision_status, global_node, k, link, prov, device, joined,
                 late, restarts, env>>

\* Mutant: any status of a bind is taken for the one waited for.
BindMatchesAny(a) == a.op = "bind"

\* The status names the model the chain waits for.
BindMatches(a) ==
  a.model.id = temp /\ a.model.cid = wait.cid /\ a.elem = j

OnBindMismatch(a) ==
  /\ a.op = "bind" /\ Answered(a)
  /\ ~ BindMatches(a)
  /\ SendNothing(a.node)
  /\ UNCHANGED <<gateway, link, prov, device, joined, late, restarts, env>>

\* Ask for the model in row r, column c.
BindAt(n, r, c) ==
  LET m == models[r][c] IN
  /\ j' = r
  /\ temp' = m.id
  /\ \E ok \in SendOutcome :
       /\ Send(ok, Request("bind", n, r, m))
       /\ wait' = IF ok THEN m ELSE wait
       /\ i' = IF ok THEN c + 1 ELSE c

OnBindNextModel(a) ==
  /\ a.op = "bind" /\ Answered(a) /\ BindMatches(a)
  /\ models[j][i].id # EndId
  /\ BindAt(a.node, j, i)
  /\ UNCHANGED <<provision_status, global_node, k, link, prov, device, joined,
                 late, restarts, env>>

LastRow == j + 1 >= element_num

Announce ==
  Append(joined, [node |-> unicast_addr, mac |-> MAC,
                  endpointCount |-> element_num])

\* Mutant: the device is announced at the end of every element.
AnnounceEachElement(a) ==
  /\ a.op = "bind" /\ Answered(a) /\ BindMatches(a)
  /\ models[j][i].id = EndId
  /\ ~ LastRow
  /\ BindAt(a.node, j + 1, 0)
  /\ joined' = Announce
  /\ UNCHANGED <<provision_status, global_node, k, link, prov, device, late,
                 restarts, env>>

OnBindNextElement(a) ==
  /\ a.op = "bind" /\ Answered(a) /\ BindMatches(a)
  /\ models[j][i].id = EndId
  /\ ~ LastRow
  /\ BindAt(a.node, j + 1, 0)
  /\ UNCHANGED <<provision_status, global_node, k, link, prov, device, joined,
                 late, restarts, env>>

\* The chain is over: the device is announced from global_node, and a wall
\* switch starts to be subscribed at its first element.
AfterJoin(n) ==
  IF unicast_addr \in WallSwitch
  THEN \E ok \in SendOutcome : Send(ok, Request("sub", n, 0, OnOffSrv))
  ELSE SendNothing(n)

OnBindLast(a) ==
  /\ a.op = "bind" /\ Answered(a) /\ BindMatches(a)
  /\ models[j][i].id = EndId
  /\ LastRow
  /\ i' = 0 /\ j' = 0 /\ temp' = EndId
  /\ joined' = Announce
  /\ AfterJoin(a.node)
  /\ UNCHANGED <<provision_status, global_node, k, wait, link, prov, device,
                 late, restarts, env>>

\* Mutant: one element too many.
LastElementLate == k + 1 > element_num

LastElement == k + 1 >= element_num

\* After the last element the group is switched on over 0xC000; the lamps
\* that follow it, and that message, are left out.
OnSubStatus(a) ==
  /\ a.op = "sub" /\ Answered(a)
  /\ IF a.elem = k
     THEN IF LastElement
          THEN k' = 0 /\ SendNothing(a.node)
          ELSE /\ k' = k + 1
               /\ \E ok \in SendOutcome :
                    Send(ok, Request("sub", a.node, k + 1, OnOffSrv))
     ELSE UNCHANGED k /\ SendNothing(a.node)
  /\ UNCHANGED <<provision_status, global_node, i, j, temp, wait, link, prov,
                 device, joined, late, restarts, env>>

\* Mutant: a bind is sent again to the first element.
ResentFirstElement(n) ==
  IF pending[n] = "bind" THEN Request("bind", n, 0, wait)
                         ELSE Request(pending[n], n, 0, Zero)

\* What a TIMEOUT event sends again; a subscription is not sent again.
Resent(n) ==
  IF pending[n] = "bind" THEN Request("bind", n, j, wait)
                         ELSE Request(pending[n], n, 0, Zero)

UnderWay(n) ==
  \E m \in requests \cup answers : m.node = n /\ m.op = pending[n]

Timeout(n) ==
  /\ pending[n] # "none"
  /\ IF UnderWay(n) THEN late < env.maxLate /\ late' = late + 1 ELSE UNCHANGED late
  /\ IF pending[n] = "sub"
     THEN SendNothing(n)
     ELSE \E ok \in SendOutcome : Send(ok, Resent(n))
  /\ UNCHANGED <<gateway, link, prov, answers, device, joined, restarts, env>>

-----------------------------------------------------------------------------
(* The devices, the radio and the power supply *)

Slot(r) == <<r.elem, r.model>>

\* A device does what the request says ...
DeviceAccepts(r) ==
  /\ r.op = "bind" => r.node \in keyed
  /\ keyed' = IF r.op = "key" THEN keyed \cup {r.node} ELSE keyed
  /\ IF r.op = "bind"
     THEN /\ bound' = [bound EXCEPT ![r.node] = @ \cup {Slot(r)}]
          /\ refused' = [refused EXCEPT ![r.node] = @ \ {Slot(r)}]
     ELSE UNCHANGED <<bound, refused>>
  /\ subscribed' = IF r.op = "sub"
                   THEN [subscribed EXCEPT ![r.node] = @ \cup {r.elem}]
                   ELSE subscribed

\* ... or has a reason not to: a bind without the key, or one of its own (no
\* room for another key or binding, a model that takes none).
DeviceRefuses(r) ==
  /\ r.op # "comp"
  /\ r.node \in Refusing \/ (r.op = "bind" /\ r.node \notin keyed)
  /\ refused' = IF r.op = "bind"
                THEN [refused EXCEPT ![r.node] = @ \cup ({Slot(r)} \ bound[r.node])]
                ELSE refused
  /\ UNCHANGED <<keyed, bound, subscribed>>

\* Either way it answers, naming what it was asked; what the code never reads
\* of an answer is its status.
DeviceHandles(r) ==
  /\ r \in requests
  /\ requests' = requests \ {r}
  /\ answers' = answers \cup {r}
  /\ DeviceAccepts(r) \/ DeviceRefuses(r)
  /\ UNCHANGED <<gateway, link, prov, pending, joined, late, restarts, env>>

Lose(m) ==
  /\ m \in requests \cup answers
  /\ requests' = requests \ {m} /\ answers' = answers \ {m}
  /\ UNCHANGED <<gateway, link, prov, pending, device, joined, late, restarts, env>>

\* The gateway restarts: its RAM is zeroed, the node table is in flash.
Restart ==
  /\ restarts < env.maxRestarts
  /\ restarts' = restarts + 1
  /\ provision_status' = 0
  /\ unicast_addr' = NoNode /\ MAC' = NoNode
  /\ element_num' = 0 /\ models' = ZeroedTable
  /\ i' = 0 /\ j' = 0 /\ k' = 0 /\ temp' = 0 /\ wait' = Zero
  /\ link' = {}
  /\ pending' = [n \in Node |-> "none"]
  /\ UNCHANGED <<prov, requests, answers, device, joined, late, env>>

OnConfigAnswer(a) ==
  \/ IgnorePublish(a)
  \/ OnCompositionStatus(a)
  \/ OnAppKeyStatus(a)
  \/ OnBindMismatch(a)
  \/ OnBindNextModel(a)
  \/ OnBindNextElement(a)
  \/ OnBindLast(a)
  \/ OnSubStatus(a)

Next ==
  \/ BleOpen
  \/ BleClose
  \/ \E n \in Node : RecvUnprovAdv(n) \/ LinkClose(n) \/ ProvComplete(n)
  \/ \E a \in answers : OnConfigAnswer(a)
  \/ \E n \in Node : Timeout(n)
  \/ \E r \in requests : DeviceHandles(r)
  \/ \E m \in requests \cup answers : Lose(m)
  \/ Restart

Spec == Init /\ [][Next]_vars

\* The radio loses messages, but not every copy of a request or an answer
\* that is sent again and again; the stack reports its timeouts.
Fairness ==
  \A n \in Node :
    /\ WF_vars(Timeout(n))
    /\ SF_vars(\E r \in requests : r.node = n /\ DeviceHandles(r))
    /\ SF_vars(\E a \in answers : a.node = n /\ OnConfigAnswer(a))

FairSpec == Spec /\ Fairness

-----------------------------------------------------------------------------
(* Properties *)

TypeOK ==
  /\ provision_status \in {0, 1}
  /\ link \subseteq Node /\ prov \subseteq Node
  /\ unicast_addr \in Node \cup {NoNode} /\ MAC \in Node \cup {NoNode}
  /\ element_num \in 0 .. MaxElem
  /\ models \in [ElemIdx -> [ColIdx -> Model]]
  /\ i \in 0 .. MaxModel /\ j \in ElemIdx /\ k \in ElemIdx
  /\ temp \in Nat /\ wait \in Model
  /\ pending \in [Node -> Op \cup {"none"}]
  /\ requests \subseteq Message /\ answers \subseteq Message
  /\ keyed \subseteq Node
  /\ bound \in [Node -> SUBSET (ElemIdx \X Model)]
  /\ refused \in [Node -> SUBSET (ElemIdx \X Model)]
  /\ subscribed \in [Node -> SUBSET ElemIdx]
  /\ joined \in Seq(Announcement)
  /\ late \in 0 .. env.maxLate /\ restarts \in 0 .. env.maxRestarts
  /\ env \in Environments

\* While a bind is outstanding, for whichever node, the row under the cursor
\* still has a terminator at or after the cursor, so the scan of
\* ble_mesh_config_client_cb for 0xffff never runs off global_node.models,
\* even when the composition of another node was parsed into the table in
\* the middle of the scan.
CursorInBounds ==
  (\E n \in Node : pending[n] = "bind") =>
     \E c \in ColIdx : c >= i /\ models[j][c].id = EndId

\* Of a device that was announced as joined, every model is bound to the
\* application key on the device itself, or the device refused each bind of
\* it: whatever was lost, sent again or answered late on the way, the chain
\* of requests skips no model.  (A refusal does not stop the chain, so being
\* announced is no proof that the device can be switched.)
Asked(n) == bound[n] \cup refused[n]

Slots(n) ==
  {s \in ElemIdx \X ColIdx : s[1] < Elems[n] /\ s[2] < Rows[n][s[1]]}

AnnouncedConfigured ==
  OneAtATime =>
    \A x \in DOMAIN joined : \A s \in Slots(joined[x].node) :
      <<s[1], ModelAt[joined[x].node][s[1]][s[2]]>> \in Asked(joined[x].node)

\* An announcement carries the address, the MAC and the endpoint count of one
\* device: the fields of global_node, filled in by three callbacks, belong
\* together.
AnnouncementAccurate ==
  OneAtATime =>
    \A x \in DOMAIN joined :
      /\ joined[x].node \in prov
      /\ joined[x].mac = joined[x].node
      /\ joined[x].endpointCount = Elems[joined[x].node]

\* A device is announced at most once.
AnnouncedOnce ==
  OneAtATime =>
    \A x, y \in DOMAIN joined : joined[x].node = joined[y].node => x = y

\* Devices are added one after the other, and neither a restart, a request the
\* stack does not send, nor an answer later than its timeout breaks a chain.
Calm ==
  /\ OneAtATime /\ ~ SendMayFail
  /\ env.maxRestarts = 0 /\ env.maxLate = 0

\* Where nothing breaks its chain, every device that was provisioned is
\* eventually announced.
ProvisionedIsAnnounced ==
  \A n \in Node :
    Calm /\ n \in prov ~> \E x \in DOMAIN joined : joined[x].node = n
=============================================================================
