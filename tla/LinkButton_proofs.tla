-------------------------- MODULE LinkButton_proofs --------------------------
(***************************************************************************)
(* What holds of the linked buttons, for any buttons, links and lengths of *)
(* the queues.  Three arguments.  With one press or command at a time,     *)
(* everything that is on its way carries the one value that was wanted     *)
(* (Carried), so nothing switches a button back; and a button that does    *)
(* not yet have it has something coming (Follows), so when nothing is on   *)
(* its way all have it.  When presses overlap, the report that left        *)
(* queueIdButton last decides what its link comes to (Agreeing).           *)
(***************************************************************************)
EXTENDS LinkButton, TLAPS

ReportType == [kind : {"button", "status", "other"},
               value : State \cup {"none"}]

DeviceTypes ==
  /\ state \in [Endpoint -> State] /\ wanted \in [Endpoint -> State]
  /\ reports \in [Endpoint -> Seq(ReportType)]
  /\ commands \in [Endpoint -> Seq(State)]
  /\ pending \in [Endpoint -> State \cup {"none"}]

TaskTypes ==
  /\ stateButtonBLE \in State /\ value \in State /\ item \in State
  /\ repeat = <<>> \/ \E r \in Call : repeat = <<r>>
  /\ mqtt \in Seq(Item) /\ Len(mqtt) <= 1
  /\ queueIdButton \in Seq(Item) /\ Len(queueIdButton) <= IdCap
  /\ queueCmdZigbee \in Seq(Item) /\ Len(queueCmdZigbee) <= CmdCap
  /\ queueCmdBLE \in Seq(Item) /\ Len(queueCmdBLE) <= CmdCap
  /\ tokens \in Seq(Endpoint)

CountTypes ==
  /\ presses \in 0 .. MaxPresses /\ issued \in 0 .. MaxIssued
  /\ late \in 0 .. MaxLate
  /\ other \in 0 .. MaxOther
  /\ lost \in BOOLEAN

\* Only a Zigbee device sends a line without a value, only a BLE device a
\* status; and the commands are dealt out by protocol.
ProtocolInv ==
  /\ \A e \in Endpoint : \A r \in Member(reports[e]) :
       /\ r.value = "none" => e \notin Ble
       /\ r.kind = "status" => e \in Ble
  /\ \A x \in Member(queueCmdZigbee) : x.id \notin Ble

Types == DeviceTypes /\ TaskTypes /\ CountTypes /\ ProtocolInv

-----------------------------------------------------------------------------
(* Sequences, and the operators of the model on them *)

LEMMA MemberOfEmpty == Member(<<>>) = {}
BY DEF Member

LEMMA MemberOfOne == ASSUME NEW x PROVE Member(<<x>>) = {x}
BY DEF Member

LEMMA MemberType ==
  ASSUME NEW S, NEW s \in Seq(S)
  PROVE  Member(s) \subseteq S
BY DEF Member

LEMMA MemberAppend ==
  ASSUME NEW S, NEW s \in Seq(S), NEW x \in S
  PROVE  /\ Append(s, x) \in Seq(S) /\ Append(s, x) # <<>>
         /\ Len(Append(s, x)) = Len(s) + 1
         /\ Member(Append(s, x)) = Member(s) \cup {x}
<1>1. /\ Append(s, x) \in Seq(S) /\ Append(s, x) # <<>>
      /\ Len(Append(s, x)) = Len(s) + 1
  <2>1. Append(s, x) \in Seq(S) /\ Len(Append(s, x)) = Len(s) + 1
    OBVIOUS
  <2>2. Len(s) \in Nat /\ Len(<<>>) = 0
    OBVIOUS
  <2> QED BY <2>1, <2>2
<1>2. Member(Append(s, x)) \subseteq Member(s) \cup {x}
  BY <1>1 DEF Member
<1>3. ASSUME NEW i \in DOMAIN s PROVE s[i] \in Member(Append(s, x))
  <2>1. i \in DOMAIN Append(s, x) /\ Append(s, x)[i] = s[i]
    OBVIOUS
  <2> QED BY <2>1 DEF Member
<1>4. x \in Member(Append(s, x))
  <2>1. Len(s) + 1 \in DOMAIN Append(s, x) /\ Append(s, x)[Len(s) + 1] = x
    OBVIOUS
  <2> QED BY <2>1 DEF Member
<1> QED BY <1>1, <1>2, <1>3, <1>4 DEF Member

LEMMA MemberTail ==
  ASSUME NEW S, NEW s \in Seq(S), s # <<>>
  PROVE  /\ Tail(s) \in Seq(S) /\ Head(s) \in S
         /\ Len(Tail(s)) = Len(s) - 1
         /\ Member(s) = Member(Tail(s)) \cup {Head(s)}
<1>1. Tail(s) \in Seq(S) /\ Head(s) \in S /\ Len(Tail(s)) = Len(s) - 1
  OBVIOUS
<1>2. ASSUME NEW i \in DOMAIN s PROVE s[i] \in Member(Tail(s)) \cup {Head(s)}
  <2>1. CASE i = 1
    BY <2>1
  <2>2. CASE i # 1
    <3>1. i - 1 \in DOMAIN Tail(s) /\ Tail(s)[i - 1] = s[i]
      BY <2>2
    <3> QED BY <3>1 DEF Member
  <2> QED BY <2>1, <2>2
<1>3. ASSUME NEW i \in DOMAIN Tail(s) PROVE Tail(s)[i] \in Member(s)
  <2>1. i + 1 \in DOMAIN s /\ Tail(s)[i] = s[i + 1]
    OBVIOUS
  <2> QED BY <2>1 DEF Member
<1>4. Head(s) \in Member(s)
  <2>1. 1 \in DOMAIN s /\ s[1] = Head(s)
    OBVIOUS
  <2> QED BY <2>1 DEF Member
<1> QED BY <1>1, <1>2, <1>3, <1>4 DEF Member

LEMMA Popped ==
  ASSUME NEW S, NEW f \in [Endpoint -> Seq(S)], NEW e \in Endpoint,
         f[e] # <<>>
  PROVE  /\ Pop(f, e) \in [Endpoint -> Seq(S)] /\ Head(f[e]) \in S
         /\ Member(f[e]) = Member(Pop(f, e)[e]) \cup {Head(f[e])}
         /\ \A t \in Endpoint \ {e} : Pop(f, e)[t] = f[t]
<1>1. f[e] \in Seq(S) /\ Tail(f[e]) \in Seq(S)
  BY MemberTail
<1>2. Pop(f, e)[e] = Tail(f[e])
  BY DEF Pop
<1>3. \A t \in Endpoint \ {e} : Pop(f, e)[t] = f[t]
  BY DEF Pop
<1>4. Pop(f, e) \in [Endpoint -> Seq(S)]
  BY <1>1 DEF Pop
<1> QED BY <1>1, <1>2, <1>3, <1>4, MemberTail

LEMMA Offered ==
  ASSUME NEW S, NEW q \in Seq(S), NEW x \in S, NEW cap \in Nat, Len(q) <= cap
  PROVE  /\ Offer(q, cap, x) \in Seq(S) /\ Len(Offer(q, cap, x)) <= cap
         /\ Member(q) \subseteq Member(Offer(q, cap, x))
         /\ Member(Offer(q, cap, x)) \subseteq Member(q) \cup {x}
         /\ ~ Dropped(q, cap) => x \in Member(Offer(q, cap, x))
<1>1. Len(q) \in Nat
  OBVIOUS
<1>2. CASE Len(q) < cap
  <2>1. Offer(q, cap, x) = Append(q, x)
    BY <1>2 DEF Offer
  <2> QED BY <1>1, <1>2, <2>1, MemberAppend
<1>3. CASE ~ (Len(q) < cap)
  <2>1. Offer(q, cap, x) = q /\ Dropped(q, cap)
    BY <1>1, <1>3 DEF Offer, Dropped
  <2> QED BY <2>1
<1> QED BY <1>2, <1>3
-----------------------------------------------------------------------------
(* Types *)

LEMMA TargetsType ==
  ASSUME NEW e \in Endpoint
  PROVE  /\ Targets[e] \in Seq(Endpoint) /\ Member(Targets[e]) \subseteq Endpoint
         /\ Link(e) \subseteq Endpoint /\ e \in Link(e)
<1>1. Targets[e] \in Seq(Endpoint)
  BY LinkAssumption
<1> QED BY <1>1, MemberType DEF Link

LEMMA TypesInit == Init => Types
<1> SUFFICES ASSUME Init PROVE Types
  OBVIOUS
<1> USE DEF Init
<1>1. DeviceTypes
  <2>1. reports \in [Endpoint -> Seq(ReportType)]
    OBVIOUS
  <2>2. commands \in [Endpoint -> Seq(State)]
    OBVIOUS
  <2>3. pending \in [Endpoint -> State \cup {"none"}]
    OBVIOUS
  <2> QED BY <2>1, <2>2, <2>3 DEF DeviceTypes
<1>2. TaskTypes
  <2>1. /\ mqtt \in Seq(Item) /\ queueIdButton \in Seq(Item)
        /\ queueCmdZigbee \in Seq(Item) /\ queueCmdBLE \in Seq(Item)
        /\ tokens \in Seq(Endpoint)
    OBVIOUS
  <2>2. \A s : s = <<>> => Len(s) = 0
    OBVIOUS
  <2> QED BY <2>1, <2>2, BoundAssumption DEF TaskTypes, State
<1>3. CountTypes
  <2>1. lost \in BOOLEAN
    OBVIOUS
  <2> QED BY <2>1, BoundAssumption DEF CountTypes
<1>4. ProtocolInv
  BY MemberOfEmpty DEF ProtocolInv
<1> QED BY <1>1, <1>2, <1>3, <1>4 DEF Types

\* What stays when reports and queues of a step are known.
LEMMA WantType ==
  ASSUME DeviceTypes, NEW e \in Endpoint, NEW v \in State, Want(e, v)
  PROVE  wanted' \in [Endpoint -> State]
BY DEF Want, DeviceTypes

LEMMA ReportInType ==
  ASSUME NEW k \in {"button", "status", "other"}, NEW v \in State \cup {"none"}
  PROVE  /\ Report(k, v) \in ReportType
         /\ Report(k, v).kind = k /\ Report(k, v).value = v
BY DEF Report, ReportType

LEMMA ItemType ==
  ASSUME NEW e \in Endpoint, NEW v \in State
  PROVE  /\ [id |-> e, state |-> v] \in Item
         /\ [id |-> e, state |-> v].id = e
         /\ [id |-> e, state |-> v].state = v
BY DEF Item

LEMMA ReportsType == Types => reports \in [Endpoint -> Seq(ReportType)]
BY DEF Types, DeviceTypes

LEMMA ReportSent ==
  ASSUME Types, NEW e \in Endpoint, NEW r \in ReportType,
         reports' = Push(reports, e, r)
  PROVE  /\ reports' \in [Endpoint -> Seq(ReportType)]
         /\ reports'[e] # <<>>
         /\ Member(reports'[e]) = Member(reports[e]) \cup {r}
         /\ \A t \in Endpoint \ {e} : reports'[t] = reports[t]
<1>1. reports \in [Endpoint -> Seq(ReportType)]
  BY ReportsType
<1>2. reports[e] \in Seq(ReportType)
  BY <1>1
<1>3. reports' = [reports EXCEPT ![e] = Append(reports[e], r)]
  BY DEF Push
<1>4. /\ Append(reports[e], r) \in Seq(ReportType)
      /\ Append(reports[e], r) # <<>>
      /\ Member(Append(reports[e], r)) = Member(reports[e]) \cup {r}
  BY <1>2, MemberAppend
<1> QED BY <1>1, <1>3, <1>4

LEMMA CommandSent ==
  ASSUME Types, NEW e \in Endpoint, NEW v \in State,
         commands' = Push(commands, e, v)
  PROVE  /\ commands' \in [Endpoint -> Seq(State)]
         /\ commands'[e] # <<>>
         /\ Member(commands'[e]) = Member(commands[e]) \cup {v}
         /\ \A t \in Endpoint \ {e} : commands'[t] = commands[t]
<1>1. commands \in [Endpoint -> Seq(State)]
  BY DEF Types, DeviceTypes
<1>2. commands[e] \in Seq(State)
  BY <1>1
<1>3. commands' = [commands EXCEPT ![e] = Append(commands[e], v)]
  BY DEF Push
<1>4. /\ Append(commands[e], v) \in Seq(State)
      /\ Append(commands[e], v) # <<>>
      /\ Member(Append(commands[e], v)) = Member(commands[e]) \cup {v}
  BY <1>2, MemberAppend
<1> QED BY <1>1, <1>3, <1>4

LEMMA PressTypes ==
  ASSUME Types, NEW e \in Endpoint, Press(e)
  PROVE  Types'
<1>1. PICK v \in State \ {state[e]} :
        /\ state' = [state EXCEPT ![e] = v]
        /\ reports' = Push(reports, e, Report("button", v))
        /\ Want(e, v)
  BY DEF Press
<1>2. /\ Report("button", v) \in ReportType
      /\ Report("button", v).kind = "button" /\ Report("button", v).value = v
  BY ReportInType
<1>3. /\ reports' \in [Endpoint -> Seq(ReportType)]
      /\ Member(reports'[e]) = Member(reports[e]) \cup {Report("button", v)}
      /\ \A t \in Endpoint \ {e} : reports'[t] = reports[t]
  BY <1>1, <1>2, ReportSent
<1>4. DeviceTypes'
  <2>1. wanted' \in [Endpoint -> State]
    BY <1>1, WantType DEF Types
  <2>2. state' \in [Endpoint -> State]
    BY <1>1 DEF Types, DeviceTypes
  <2> QED BY <1>3, <2>1, <2>2 DEF Types, DeviceTypes, Press
<1>5. TaskTypes'
  BY DEF Types, TaskTypes, Press, gateway
<1>6. CountTypes'
  BY BoundAssumption DEF Types, CountTypes, Press
<1>7. ProtocolInv'
  <2>1. queueCmdZigbee' = queueCmdZigbee /\ v # "none"
    BY DEF Press, gateway, State
  <2> QED BY <1>2, <1>3, <2>1 DEF Types, ProtocolInv
<1> QED BY <1>4, <1>5, <1>6, <1>7 DEF Types

LEMMA OtherReportTypes ==
  ASSUME Types, NEW e \in Endpoint, OtherReport(e)
  PROVE  Types'
<1>1. PICK v \in {"on", "none"} :
        reports' = Push(reports, e, Report("other", v))
  BY DEF OtherReport
<1>2. /\ Report("other", v) \in ReportType
      /\ Report("other", v).kind = "other" /\ Report("other", v).value = v
  BY ReportInType DEF State
<1>3. /\ reports' \in [Endpoint -> Seq(ReportType)]
      /\ Member(reports'[e]) = Member(reports[e]) \cup {Report("other", v)}
      /\ \A t \in Endpoint \ {e} : reports'[t] = reports[t]
  BY <1>1, <1>2, ReportSent
<1>4. DeviceTypes'
  BY <1>3 DEF Types, DeviceTypes, OtherReport, history
<1>5. TaskTypes'
  BY DEF Types, TaskTypes, OtherReport, gateway
<1>6. CountTypes'
  BY BoundAssumption DEF Types, CountTypes, OtherReport, history
<1>7. ProtocolInv'
  <2>1. queueCmdZigbee' = queueCmdZigbee /\ e \notin Ble
    BY DEF OtherReport, gateway
  <2> QED BY <1>2, <1>3, <2>1 DEF Types, ProtocolInv
<1> QED BY <1>4, <1>5, <1>6, <1>7 DEF Types

LEMMA ExecuteTypes ==
  ASSUME Types, NEW e \in Endpoint, Execute(e)
  PROVE  Types'
<1>1. /\ commands' \in [Endpoint -> Seq(State)] /\ Head(commands[e]) \in State
  BY Popped DEF Types, DeviceTypes, Execute
<1> DEFINE v == Head(commands[e])
<1> HIDE DEF v
<1>2. reports' \in [Endpoint -> Seq(ReportType)]
      /\ \A t \in Endpoint : \A r \in Member(reports'[t]) :
           \/ r \in Member(reports[t])
           \/ r.value \in State /\ (r.kind = "status" => t \in Ble)
  <2>1. ASSUME NEW k \in {"button", "status"},
               reports' = Push(reports, e, Report(k, v)),
               k = "status" => e \in Ble
        PROVE  <1>2!1 /\ <1>2!2
    <3>1. /\ Report(k, v) \in ReportType
          /\ Report(k, v).kind = k /\ Report(k, v).value = v /\ v \in State
      BY <1>1, ReportInType DEF v
    <3>2. /\ reports' \in [Endpoint -> Seq(ReportType)]
          /\ Member(reports'[e]) = Member(reports[e]) \cup {Report(k, v)}
          /\ \A t \in Endpoint \ {e} : reports'[t] = reports[t]
      BY <2>1, <3>1, ReportSent
    <3> QED BY <2>1, <3>1, <3>2
  <2>2. CASE e \in Ble
    BY <2>1, <2>2 DEF Execute, v
  <2>3. CASE e \notin Ble /\ v # state[e]
    BY <2>1, <2>3 DEF Execute, v
  <2>4. CASE e \notin Ble /\ v = state[e]
    BY <2>4 DEF Execute, v, Types, DeviceTypes
  <2> QED BY <2>2, <2>3, <2>4
<1>3. DeviceTypes'
  BY <1>1, <1>2 DEF Types, DeviceTypes, Execute, history
<1>4. TaskTypes'
  BY DEF Types, TaskTypes, Execute, gateway
<1>5. CountTypes'
  BY DEF Types, CountTypes, Execute, history, counters
<1>6. ProtocolInv'
  <2>1. queueCmdZigbee' = queueCmdZigbee /\ "none" \notin State
    BY DEF Execute, gateway, State
  <2> QED BY <1>2, <2>1 DEF Types, ProtocolInv
<1> QED BY <1>3, <1>4, <1>5, <1>6 DEF Types

LEMMA LoseCommandTypes ==
  ASSUME Types, NEW e \in Endpoint, LoseCommand(e)
  PROVE  Types'
<1>1. commands' \in [Endpoint -> Seq(State)]
  BY Popped DEF Types, DeviceTypes, LoseCommand
<1>2. DeviceTypes'
  BY <1>1 DEF Types, DeviceTypes, LoseCommand, history
<1>3. TaskTypes'
  BY DEF Types, TaskTypes, LoseCommand, gateway
<1>4. CountTypes'
  BY DEF Types, CountTypes, LoseCommand, history, counters
<1>5. ProtocolInv'
  BY DEF Types, ProtocolInv, LoseCommand, gateway
<1> QED BY <1>2, <1>3, <1>4, <1>5 DEF Types

\* A report is taken: the ones that stay are as they were.
LEMMA ReportTaken ==
  ASSUME Types, NEW e \in Endpoint, reports[e] # <<>>,
         reports' = Pop(reports, e)
  PROVE  /\ reports' \in [Endpoint -> Seq(ReportType)]
         /\ Head(reports[e]) \in ReportType
         /\ Member(reports[e]) = Member(reports'[e]) \cup {Head(reports[e])}
         /\ \A t \in Endpoint \ {e} : reports'[t] = reports[t]
         /\ \A t \in Endpoint : Member(reports'[t]) \subseteq Member(reports[t])
<1>1. /\ reports' \in [Endpoint -> Seq(ReportType)]
      /\ Head(reports[e]) \in ReportType
      /\ Member(reports[e]) = Member(reports'[e]) \cup {Head(reports[e])}
      /\ \A t \in Endpoint \ {e} : reports'[t] = reports[t]
  BY ZenonT(30), ReportsType, Popped
<1>2. ASSUME NEW t \in Endpoint
      PROVE  Member(reports'[t]) \subseteq Member(reports[t])
  BY <1>1
<1> QED BY <1>1, <1>2

LEMMA LoseStatusTypes ==
  ASSUME Types, NEW e \in Endpoint, LoseStatus(e)
  PROVE  Types'
<1>1. /\ reports' \in [Endpoint -> Seq(ReportType)]
      /\ \A t \in Endpoint : Member(reports'[t]) \subseteq Member(reports[t])
  BY ReportTaken DEF LoseStatus
<1>2. DeviceTypes'
  BY <1>1 DEF Types, DeviceTypes, LoseStatus, history
<1>3. TaskTypes'
  BY DEF Types, TaskTypes, LoseStatus, gateway
<1>4. CountTypes'
  BY DEF Types, CountTypes, LoseStatus, history, counters
<1>5. ProtocolInv'
  BY <1>1 DEF Types, ProtocolInv, LoseStatus, gateway
<1> QED BY <1>2, <1>3, <1>4, <1>5 DEF Types

LEMMA BleStatusTypes ==
  ASSUME Types, NEW e \in Endpoint, BleStatus(e)
  PROVE  Types'
<1>1. /\ reports' \in [Endpoint -> Seq(ReportType)]
      /\ \A t \in Endpoint : Member(reports'[t]) \subseteq Member(reports[t])
  BY ReportTaken DEF BleStatus
<1>2. DeviceTypes'
  BY <1>1 DEF Types, DeviceTypes, BleStatus, history
<1>3. TaskTypes'
  BY DEF Types, TaskTypes, BleStatus, gateway
<1>4. CountTypes'
  BY DEF Types, CountTypes, BleStatus, history, counters
<1>5. ProtocolInv'
  BY <1>1 DEF Types, ProtocolInv, BleStatus, gateway
<1> QED BY <1>2, <1>3, <1>4, <1>5 DEF Types

\* The call under way, and what a step of it or another call makes of it.
LEMMA RepeatOne ==
  ASSUME Types, ~ TaskFree
  PROVE  /\ repeat = <<repeat[1]>> /\ Member(repeat) = {repeat[1]}
         /\ repeat[1] \in Call /\ repeat[1].id \in Endpoint
         /\ repeat[1].state \in State
<1>1. PICK r \in Call : repeat = <<r>>
  BY DEF Types, TaskTypes, TaskFree
<1>2. repeat[1] = r
  BY <1>1
<1>3. r.id \in Endpoint /\ r.state \in State
  BY DEF Call
<1> QED BY <1>1, <1>2, <1>3, MemberOfOne

LEMMA NoRepeat == ASSUME TaskFree PROVE Member(repeat) = {}
BY MemberOfEmpty DEF TaskFree

LEMMA RepeatMoved ==
  ASSUME Types, NEW l \in {"message", "parameters", "send"}, ~ TaskFree, Goto(l)
  PROVE  \E r \in Call : /\ repeat' = <<r>>
                         /\ r.id = repeat[1].id /\ r.state = repeat[1].state
<1>1. PICK q \in Call : repeat = <<q>>
  BY DEF Types, TaskTypes, TaskFree
<1> DEFINE r == [q EXCEPT !.pc = l]
<1>2. r \in Call /\ r.id = q.id /\ r.state = q.state
  BY DEF Call
<1>3. repeat' = <<r>> /\ repeat[1] = q
  BY <1>1 DEF Goto
<1> HIDE DEF r
<1> QED BY <1>2, <1>3

LEMMA RepeatOvertaken ==
  ASSUME Types, NEW x \in Item,
         repeat' = [i \in DOMAIN repeat |-> Overtaken(repeat[i], x)]
  PROVE  /\ TaskFree => repeat' = <<>>
         /\ ~ TaskFree => /\ repeat' = <<Overtaken(repeat[1], x)>>
                          /\ Overtaken(repeat[1], x) \in Call
<1>1. CASE TaskFree
  BY <1>1 DEF TaskFree
<1>2. CASE ~ TaskFree
  <2>1. PICK q \in Call : repeat = <<q>>
    BY <1>2 DEF Types, TaskTypes, TaskFree
  <2>2. repeat[1] = q
    BY <2>1
  <2>3. Overtaken(q, x) \in Call
    BY DEF Overtaken, Call, Item
  <2>4. repeat' = <<Overtaken(q, x)>>
    BY <2>1
  <2> QED BY <1>2, <2>2, <2>3, <2>4
<1> QED BY <1>1, <1>2

\* What another call leaves of a repetition that it does not spoil.
LEMMA NotSpoilt ==
  ASSUME NEW q \in Call, NEW x \in Item, ~ Spoilt(q, x)
  PROVE  /\ Overtaken(q, x).id = q.id
         /\ q.id = x.id => Overtaken(q, x).state = q.state /\ q.state = x.state
         /\ q.id # x.id => Overtaken(q, x).state = q.state
BY DEF Spoilt, Overtaken, Call, Item

LEMMA TimeoutTypes ==
  ASSUME Types, NEW e \in Endpoint, Timeout(e)
  PROVE  Types'
<1>1. pending' \in [Endpoint -> State \cup {"none"}]
  BY DEF Types, DeviceTypes, Timeout
<1>2. DeviceTypes'
  BY <1>1 DEF Types, DeviceTypes, Timeout, history
<1>3. TaskTypes'
  <2> DEFINE q == [pc |-> "value", id |-> e, state |-> stateButtonBLE]
  <2>1. q \in Call
    BY DEF Call, Types, TaskTypes
  <2>2. repeat' = <<q>>
    BY DEF Timeout
  <2> HIDE DEF q
  <2> QED BY <2>1, <2>2 DEF Types, TaskTypes, Timeout
<1>4. CountTypes'
  <2>1. late' \in 0 .. MaxLate
    BY BoundAssumption DEF Types, CountTypes, Timeout
  <2> QED BY <2>1 DEF Types, CountTypes, Timeout, history
<1>5. ProtocolInv'
  BY DEF Types, ProtocolInv, Timeout
<1> QED BY <1>2, <1>3, <1>4, <1>5 DEF Types

LEMMA RepeatValueTypes ==
  ASSUME Types, RepeatValue
  PROVE  Types'
<1>1. /\ \E r \in Call : repeat' = <<r>>
      /\ stateButtonBLE' \in State
  BY RepeatMoved, RepeatOne DEF RepeatValue, Repeats, KeepValue
<1>2. DeviceTypes'
  BY DEF Types, DeviceTypes, RepeatValue, radio, history
<1>3. TaskTypes'
  BY <1>1 DEF Types, TaskTypes, RepeatValue
<1>4. CountTypes'
  BY DEF Types, CountTypes, RepeatValue, counters, history
<1>5. ProtocolInv'
  BY DEF Types, ProtocolInv, RepeatValue, radio
<1> QED BY <1>2, <1>3, <1>4, <1>5 DEF Types

LEMMA RepeatFillTypes ==
  ASSUME Types, RepeatFill
  PROVE  Types'
<1>1. \E r \in Call : repeat' = <<r>>
  BY RepeatMoved DEF RepeatFill, Repeats
<1>2. DeviceTypes'
  BY DEF Types, DeviceTypes, RepeatFill, radio, history
<1>3. TaskTypes'
  BY <1>1 DEF Types, TaskTypes, RepeatFill
<1>4. CountTypes'
  BY DEF Types, CountTypes, RepeatFill, counters, history
<1>5. ProtocolInv'
  BY DEF Types, ProtocolInv, RepeatFill, radio
<1> QED BY <1>2, <1>3, <1>4, <1>5 DEF Types

LEMMA IdOffered ==
  ASSUME Types, NEW e \in Endpoint, NEW v \in State, OfferId(e, v)
  PROVE  /\ queueIdButton' \in Seq(Item) /\ Len(queueIdButton') <= IdCap
         /\ Member(queueIdButton) \subseteq Member(queueIdButton')
         /\ Member(queueIdButton')
              \subseteq Member(queueIdButton) \cup {[id |-> e, state |-> v]}
         /\ ~ lost' => [id |-> e, state |-> v] \in Member(queueIdButton')
         /\ lost' \in BOOLEAN /\ (lost => lost')
<1> DEFINE x == [id |-> e, state |-> v]
<1>1. x \in Item
  BY ItemType
<1> HIDE DEF x
<1>2. queueIdButton \in Seq(Item) /\ Len(queueIdButton) <= IdCap /\ IdCap \in Nat
  BY BoundAssumption DEF Types, TaskTypes
<1>3. /\ queueIdButton' = Offer(queueIdButton, IdCap, x)
      /\ lost' = (lost \/ Dropped(queueIdButton, IdCap))
  BY DEF OfferId, x
<1>4. lost' \in BOOLEAN /\ (lost => lost')
  BY <1>3
<1>5. ~ lost' => ~ Dropped(queueIdButton, IdCap)
  BY <1>3
<1>6. /\ Offer(queueIdButton, IdCap, x) \in Seq(Item)
      /\ Len(Offer(queueIdButton, IdCap, x)) <= IdCap
      /\ Member(queueIdButton) \subseteq Member(Offer(queueIdButton, IdCap, x))
      /\ Member(Offer(queueIdButton, IdCap, x))
           \subseteq Member(queueIdButton) \cup {x}
      /\ ~ Dropped(queueIdButton, IdCap)
           => x \in Member(Offer(queueIdButton, IdCap, x))
  BY <1>1, <1>2, Offered
<1> QED BY <1>3, <1>4, <1>5, <1>6 DEF x

LEMMA Commanded ==
  ASSUME Types, NEW e \in Endpoint, NEW v \in State, Send(e, v)
  PROVE  /\ commands' \in [Endpoint -> Seq(State)]
         /\ pending' \in [Endpoint -> State \cup {"none"}]
         /\ pending'[e] # "none"
         /\ ~ Refused(e, v) => pending'[e] = v
         /\ Member(commands'[e]) \subseteq Member(commands[e]) \cup {v}
         /\ \A t \in Endpoint \ {e} :
              pending'[t] = pending[t] /\ commands'[t] = commands[t]
<1>1. /\ commands \in [Endpoint -> Seq(State)]
      /\ pending \in [Endpoint -> State \cup {"none"}] /\ "none" \notin State
  BY DEF Types, DeviceTypes, State
<1>2. CASE pending[e] = "none"
  <2>1. commands' = Push(commands, e, v)
    BY <1>2 DEF Send
  <2>2. pending' = [pending EXCEPT ![e] = v]
    BY <1>2 DEF Send
  <2>3. /\ commands' \in [Endpoint -> Seq(State)]
        /\ Member(commands'[e]) = Member(commands[e]) \cup {v}
        /\ \A t \in Endpoint \ {e} : commands'[t] = commands[t]
    BY <2>1, CommandSent
  <2>4. /\ pending' \in [Endpoint -> State \cup {"none"}] /\ pending'[e] = v
        /\ \A t \in Endpoint \ {e} : pending'[t] = pending[t]
    BY <1>1, <2>2
  <2> QED BY <1>1, <2>3, <2>4
<1>3. CASE pending[e] # "none"
  <2>1. commands' = commands /\ pending' = pending
    BY <1>3 DEF Send
  <2> QED BY <1>1, <1>3, <2>1 DEF Refused
<1> QED BY <1>2, <1>3

LEMMA RepeatSendTypes ==
  ASSUME Types, RepeatSend
  PROVE  Types'
<1>1. /\ commands' \in [Endpoint -> Seq(State)]
      /\ pending' \in [Endpoint -> State \cup {"none"}]
  BY RepeatOne, Commanded DEF RepeatSend, Repeats
<1>2. DeviceTypes'
  BY <1>1 DEF Types, DeviceTypes, RepeatSend
<1>3. TaskTypes'
  BY DEF Types, TaskTypes, RepeatSend
<1>4. CountTypes'
  BY DEF Types, CountTypes, RepeatSend, counters
<1>5. ProtocolInv'
  BY DEF Types, ProtocolInv, RepeatSend
<1> QED BY <1>2, <1>3, <1>4, <1>5 DEF Types

LEMMA ZigbeeReportTypes ==
  ASSUME Types, NEW e \in Endpoint, ZigbeeReport(e)
  PROVE  Types' /\ value' \in State /\ OfferId(e, value')
<1>1. /\ reports' \in [Endpoint -> Seq(ReportType)]
      /\ Head(reports[e]) \in ReportType
      /\ \A t \in Endpoint : Member(reports'[t]) \subseteq Member(reports[t])
  BY ReportTaken DEF ZigbeeReport
<1>2. value' \in State
  <2>1. Head(reports[e]).value \in State \cup {"none"}
    BY <1>1 DEF ReportType
  <2> QED BY <2>1 DEF Types, TaskTypes, ZigbeeReport
<1>3. OfferId(e, value')
  BY DEF ZigbeeReport
<1>4. /\ queueIdButton' \in Seq(Item) /\ Len(queueIdButton') <= IdCap
      /\ lost' \in BOOLEAN
  BY <1>2, <1>3, IdOffered
<1>5. DeviceTypes'
  BY <1>1 DEF Types, DeviceTypes, ZigbeeReport
<1>6. TaskTypes'
  BY <1>2, <1>4 DEF Types, TaskTypes, ZigbeeReport
<1>7. CountTypes'
  BY <1>4 DEF Types, CountTypes, ZigbeeReport, counters
<1>8. ProtocolInv'
  BY <1>1 DEF Types, ProtocolInv, ZigbeeReport
<1> QED BY <1>2, <1>3, <1>5, <1>6, <1>7, <1>8 DEF Types

LEMMA BlePublishTypes ==
  ASSUME Types, NEW e \in Endpoint, BlePublish(e)
  PROVE  Types' /\ Head(reports[e]).value \in State
<1>1. /\ reports' \in [Endpoint -> Seq(ReportType)]
      /\ Head(reports[e]) \in ReportType
      /\ Member(reports[e]) = Member(reports'[e]) \cup {Head(reports[e])}
      /\ \A t \in Endpoint : Member(reports'[t]) \subseteq Member(reports[t])
  BY ReportTaken DEF BlePublish
<1>2. Head(reports[e]).value \in State
  <2>1. Head(reports[e]).value \in State \cup {"none"}
    BY <1>1 DEF ReportType
  <2>2. Head(reports[e]).value # "none"
    BY <1>1 DEF Types, ProtocolInv, BlePublish
  <2> QED BY <2>1, <2>2
<1>4. /\ queueIdButton' \in Seq(Item) /\ Len(queueIdButton') <= IdCap
      /\ lost' \in BOOLEAN
  BY <1>2, IdOffered DEF BlePublish
<1>5. DeviceTypes'
  BY <1>1 DEF Types, DeviceTypes, BlePublish
<1>6. TaskTypes'
  BY <1>4 DEF Types, TaskTypes, BlePublish
<1>7. CountTypes'
  BY <1>4 DEF Types, CountTypes, BlePublish, counters
<1>8. ProtocolInv'
  BY <1>1 DEF Types, ProtocolInv, BlePublish
<1> QED BY <1>2, <1>5, <1>6, <1>7, <1>8 DEF Types

LEMMA MqttOnOffTypes ==
  ASSUME Types, NEW e \in Endpoint, MqttOnOff(e)
  PROVE  Types'
<1>1. PICK v \in State :
        /\ mqtt' = <<[id |-> e, state |-> v]>>
        /\ Want(e, v)
        /\ IF e \in Ble
           THEN /\ KeepValue(v) /\ Send(e, v)
                /\ lost' = (lost \/ Refused(e, v))
           ELSE /\ commands' = Push(commands, e, v)
                /\ UNCHANGED <<pending, stateButtonBLE, lost>>
  BY DEF MqttOnOff
<1>2. wanted' \in [Endpoint -> State]
  BY <1>1, WantType DEF Types
<1>3. /\ commands' \in [Endpoint -> Seq(State)]
      /\ pending' \in [Endpoint -> State \cup {"none"}]
      /\ stateButtonBLE' \in State /\ lost' \in BOOLEAN
  <2>1. CASE e \in Ble
    BY <1>1, <2>1, Commanded DEF KeepValue
  <2>2. CASE e \notin Ble
    <3>1. commands' \in [Endpoint -> Seq(State)]
      BY <1>1, <2>2, CommandSent
    <3> QED BY <1>1, <2>2, <3>1 DEF Types, DeviceTypes, TaskTypes, CountTypes
  <2> QED BY <2>1, <2>2
<1>4. mqtt' \in Seq(Item) /\ Len(mqtt') <= 1
  <2>1. [id |-> e, state |-> v] \in Item
    BY ItemType
  <2> QED BY <1>1, <2>1
<1>5. DeviceTypes'
  BY <1>2, <1>3 DEF Types, DeviceTypes, MqttOnOff
<1>6. TaskTypes'
  BY <1>3, <1>4 DEF Types, TaskTypes, MqttOnOff
<1>7. CountTypes'
  <2>1. issued' \in 0 .. MaxIssued
    BY BoundAssumption DEF Types, CountTypes, MqttOnOff
  <2> QED BY <1>3, <2>1 DEF Types, CountTypes, MqttOnOff
<1>8. ProtocolInv'
  BY DEF Types, ProtocolInv, MqttOnOff
<1> QED BY <1>5, <1>6, <1>7, <1>8 DEF Types

LEMMA MqttLinkTypes ==
  ASSUME Types, MqttLink
  PROVE  /\ Types'
         /\ Head(mqtt).id \in Endpoint /\ Head(mqtt).state \in State
         /\ OfferId(Head(mqtt).id, Head(mqtt).state)
         /\ Member(mqtt) = {Head(mqtt)}
<1>1. Head(mqtt) \in Item /\ Member(mqtt) = {Head(mqtt)} /\ mqtt' \in Seq(Item)
      /\ Len(mqtt') <= 1
  <2>1. mqtt \in Seq(Item) /\ Len(mqtt) <= 1 /\ mqtt # <<>> /\ mqtt' = <<>>
    BY DEF Types, TaskTypes, MqttLink
  <2>2. mqtt = <<Head(mqtt)>>
    BY <2>1
  <2> QED BY <2>1, <2>2, MemberOfOne
<1>2. Head(mqtt).id \in Endpoint /\ Head(mqtt).state \in State
  BY <1>1 DEF Item
<1>3. OfferId(Head(mqtt).id, Head(mqtt).state)
  BY DEF MqttLink
<1>4. /\ queueIdButton' \in Seq(Item) /\ Len(queueIdButton') <= IdCap
      /\ lost' \in BOOLEAN
  BY <1>2, <1>3, IdOffered
<1>5. DeviceTypes'
  BY DEF Types, DeviceTypes, MqttLink, radio
<1>6. TaskTypes'
  BY <1>1, <1>4 DEF Types, TaskTypes, MqttLink
<1>7. CountTypes'
  BY <1>4 DEF Types, CountTypes, MqttLink, counters
<1>8. ProtocolInv'
  BY DEF Types, ProtocolInv, MqttLink, radio
<1> QED BY <1>1, <1>2, <1>3, <1>5, <1>6, <1>7, <1>8 DEF Types

LEMMA LookUpTypes ==
  ASSUME Types, LookUp
  PROVE  /\ Types'
         /\ Head(queueIdButton) \in Item
         /\ Member(queueIdButton) = Member(queueIdButton') \cup {Head(queueIdButton)}
<1>1. /\ queueIdButton' \in Seq(Item) /\ Head(queueIdButton) \in Item
      /\ Len(queueIdButton') <= IdCap
      /\ Member(queueIdButton) = Member(queueIdButton') \cup {Head(queueIdButton)}
  <2>1. /\ queueIdButton \in Seq(Item) /\ queueIdButton # <<>>
        /\ queueIdButton' = Tail(queueIdButton)
        /\ Len(queueIdButton) <= IdCap /\ IdCap \in Nat
    BY BoundAssumption DEF Types, TaskTypes, LookUp
  <2>2. Len(queueIdButton) \in Nat
    BY <2>1
  <2> QED BY <2>1, <2>2, MemberTail
<1>2. Head(queueIdButton).id \in Endpoint /\ Head(queueIdButton).state \in State
  BY <1>1 DEF Item
<1>3. tokens' \in Seq(Endpoint)
  BY <1>2, LinkAssumption DEF LookUp
<1>4. item' \in State
  BY <1>2 DEF LookUp
<1>5. DeviceTypes'
  BY DEF Types, DeviceTypes, LookUp, radio, history
<1>6. TaskTypes'
  BY <1>1, <1>3, <1>4 DEF Types, TaskTypes, LookUp
<1>7. CountTypes'
  BY DEF Types, CountTypes, LookUp, counters, history
<1>8. ProtocolInv'
  BY DEF Types, ProtocolInv, LookUp, radio
<1> QED BY <1>1, <1>5, <1>6, <1>7, <1>8 DEF Types
LEMMA DealTypes ==
  ASSUME Types, Deal
  PROVE  /\ Types' /\ Head(tokens) \in Endpoint
         /\ tokens' = Tail(tokens)
         /\ Member(tokens) = Member(tokens') \cup {Head(tokens)}
         /\ lost => lost'
         /\ Member(queueCmdZigbee) \subseteq Member(queueCmdZigbee')
         /\ Member(queueCmdBLE) \subseteq Member(queueCmdBLE')
         /\ Member(queueCmdZigbee')
              \subseteq Member(queueCmdZigbee) \cup {[id |-> Head(tokens), state |-> item]}
         /\ Member(queueCmdBLE')
              \subseteq Member(queueCmdBLE) \cup {[id |-> Head(tokens), state |-> item]}
         /\ ~ lost' => [id |-> Head(tokens), state |-> item]
                         \in Member(queueCmdZigbee') \cup Member(queueCmdBLE')
<1>1. /\ tokens' \in Seq(Endpoint) /\ Head(tokens) \in Endpoint
      /\ tokens' = Tail(tokens)
      /\ Member(tokens) = Member(tokens') \cup {Head(tokens)}
  BY MemberTail DEF Types, TaskTypes, Deal, TakeToken
<1> DEFINE x == [id |-> Head(tokens), state |-> item]
<1>2. x \in Item /\ x.id = Head(tokens)
  BY <1>1, ItemType DEF Types, TaskTypes
<1>3. CASE Head(tokens) \in Ble
  <2>1. /\ queueCmdBLE' = Offer(queueCmdBLE, CmdCap, x)
        /\ lost' = (lost \/ Dropped(queueCmdBLE, CmdCap))
        /\ queueCmdZigbee' = queueCmdZigbee
    BY <1>2, <1>3 DEF Deal
  <2> HIDE DEF x
  <2>2. /\ queueCmdBLE \in Seq(Item) /\ Len(queueCmdBLE) <= CmdCap
        /\ CmdCap \in Nat
    BY BoundAssumption DEF Types, TaskTypes
  <2>3. /\ queueCmdBLE' \in Seq(Item) /\ Len(queueCmdBLE') <= CmdCap
        /\ Member(queueCmdBLE) \subseteq Member(queueCmdBLE')
        /\ Member(queueCmdBLE') \subseteq Member(queueCmdBLE) \cup {x}
        /\ ~ Dropped(queueCmdBLE, CmdCap) => x \in Member(queueCmdBLE')
    BY <1>2, <2>1, <2>2, Offered
  <2>4. lost' \in BOOLEAN /\ (lost => lost')
        /\ (~ lost' => ~ Dropped(queueCmdBLE, CmdCap))
    BY <2>1
  <2>5. DeviceTypes'
    BY DEF Types, DeviceTypes, Deal, radio
  <2>6. TaskTypes'
    BY <1>1, <2>1, <2>3 DEF Types, TaskTypes, Deal
  <2>7. CountTypes'
    BY <2>4 DEF Types, CountTypes, Deal, counters
  <2>8. ProtocolInv'
    BY <2>1 DEF Types, ProtocolInv, Deal, radio
  <2>9. Types'
    BY <2>5, <2>6, <2>7, <2>8 DEF Types
  <2> QED BY <1>1, <2>1, <2>3, <2>4, <2>9 DEF x
<1>4. CASE Head(tokens) \notin Ble
  <2>1. /\ queueCmdZigbee' = Offer(queueCmdZigbee, CmdCap, x)
        /\ lost' = (lost \/ Dropped(queueCmdZigbee, CmdCap))
        /\ queueCmdBLE' = queueCmdBLE
    BY <1>2, <1>4 DEF Deal
  <2> HIDE DEF x
  <2>2. /\ queueCmdZigbee \in Seq(Item) /\ Len(queueCmdZigbee) <= CmdCap
        /\ CmdCap \in Nat
    BY BoundAssumption DEF Types, TaskTypes
  <2>3. /\ queueCmdZigbee' \in Seq(Item) /\ Len(queueCmdZigbee') <= CmdCap
        /\ Member(queueCmdZigbee) \subseteq Member(queueCmdZigbee')
        /\ Member(queueCmdZigbee') \subseteq Member(queueCmdZigbee) \cup {x}
        /\ ~ Dropped(queueCmdZigbee, CmdCap) => x \in Member(queueCmdZigbee')
    BY <1>2, <2>1, <2>2, Offered
  <2>4. lost' \in BOOLEAN /\ (lost => lost')
        /\ (~ lost' => ~ Dropped(queueCmdZigbee, CmdCap))
    BY <2>1
  <2>5. DeviceTypes'
    BY DEF Types, DeviceTypes, Deal, radio
  <2>6. TaskTypes'
    BY <1>1, <2>1, <2>3 DEF Types, TaskTypes, Deal
  <2>7. CountTypes'
    BY <2>4 DEF Types, CountTypes, Deal, counters
  <2>8. ProtocolInv'
    BY <1>2, <1>4, <2>3 DEF Types, ProtocolInv, Deal, radio
  <2>9. Types'
    BY <2>5, <2>6, <2>7, <2>8 DEF Types
  <2> QED BY <1>1, <2>1, <2>3, <2>4, <2>9 DEF x
<1> QED BY <1>3, <1>4

LEMMA SendCommandZigbeeTypes ==
  ASSUME Types, SendCommandZigbee, NEW x, x = Head(queueCmdZigbee)
  PROVE  /\ Types' /\ x.id \in Endpoint /\ x.id \notin Ble /\ x.state \in State
         /\ Member(queueCmdZigbee) = Member(queueCmdZigbee') \cup {x}
         /\ commands'[x.id] # <<>>
         /\ Member(commands'[x.id]) = Member(commands[x.id]) \cup {x.state}
         /\ \A t \in Endpoint \ {x.id} : commands'[t] = commands[t]
<1>1. /\ queueCmdZigbee' \in Seq(Item) /\ x \in Item
      /\ Len(queueCmdZigbee') <= CmdCap
      /\ Member(queueCmdZigbee) = Member(queueCmdZigbee') \cup {x}
  <2>1. /\ queueCmdZigbee \in Seq(Item) /\ queueCmdZigbee # <<>>
        /\ queueCmdZigbee' = Tail(queueCmdZigbee)
        /\ Len(queueCmdZigbee) <= CmdCap /\ CmdCap \in Nat
    BY BoundAssumption DEF Types, TaskTypes, SendCommandZigbee
  <2>2. Len(queueCmdZigbee) \in Nat
    BY <2>1
  <2> QED BY <2>1, <2>2, MemberTail
<1>2. x.id \in Endpoint /\ x.state \in State
  BY <1>1 DEF Item
<1>3. x.id \notin Ble
  BY <1>1 DEF Types, ProtocolInv
<1>4. /\ commands' \in [Endpoint -> Seq(State)]
      /\ commands'[x.id] # <<>>
      /\ Member(commands'[x.id]) = Member(commands[x.id]) \cup {x.state}
      /\ \A t \in Endpoint \ {x.id} : commands'[t] = commands[t]
  BY <1>2, CommandSent DEF SendCommandZigbee
<1>5. DeviceTypes'
  BY <1>4 DEF Types, DeviceTypes, SendCommandZigbee, history
<1>6. TaskTypes'
  BY <1>1 DEF Types, TaskTypes, SendCommandZigbee
<1>7. CountTypes'
  BY DEF Types, CountTypes, SendCommandZigbee, counters, history
<1>8. ProtocolInv'
  BY <1>1 DEF Types, ProtocolInv, SendCommandZigbee
<1> QED BY <1>1, <1>2, <1>3, <1>4, <1>5, <1>6, <1>7, <1>8 DEF Types

LEMMA SendCommandBLETypes ==
  ASSUME Types, SendCommandBLE, NEW x, x = Head(queueCmdBLE)
  PROVE  /\ Types' /\ x \in Item /\ x.id \in Endpoint /\ x.state \in State
         /\ Send(x.id, x.state) /\ stateButtonBLE' = x.state
         /\ repeat' = [i \in DOMAIN repeat |-> Overtaken(repeat[i], x)]
         /\ lost' = (lost \/ Refused(x.id, x.state)
                          \/ \E r \in Member(repeat) : Spoilt(r, x))
         /\ Member(queueCmdBLE) = Member(queueCmdBLE') \cup {x}
<1>1. /\ queueCmdBLE' \in Seq(Item) /\ x \in Item
      /\ Len(queueCmdBLE') <= CmdCap
      /\ Member(queueCmdBLE) = Member(queueCmdBLE') \cup {x}
  <2>1. /\ queueCmdBLE \in Seq(Item) /\ queueCmdBLE # <<>>
        /\ queueCmdBLE' = Tail(queueCmdBLE)
        /\ Len(queueCmdBLE) <= CmdCap /\ CmdCap \in Nat
    BY BoundAssumption DEF Types, TaskTypes, SendCommandBLE
  <2>2. Len(queueCmdBLE) \in Nat
    BY <2>1
  <2> QED BY <2>1, <2>2, MemberTail
<1>2. x.id \in Endpoint /\ x.state \in State
  BY <1>1 DEF Item
<1>3. /\ Send(x.id, x.state) /\ stateButtonBLE' = x.state
      /\ repeat' = [i \in DOMAIN repeat |-> Overtaken(repeat[i], x)]
      /\ lost' = (lost \/ Refused(x.id, x.state)
                       \/ \E r \in Member(repeat) : Spoilt(r, x))
  BY DEF SendCommandBLE, KeepValue
<1>4. /\ commands' \in [Endpoint -> Seq(State)]
      /\ pending' \in [Endpoint -> State \cup {"none"}]
      /\ stateButtonBLE' \in State /\ lost' \in BOOLEAN
  BY <1>2, <1>3, Commanded
<1>9. repeat' = <<>> \/ \E r \in Call : repeat' = <<r>>
  BY <1>1, <1>3, RepeatOvertaken
<1>5. DeviceTypes'
  BY <1>4 DEF Types, DeviceTypes, SendCommandBLE
<1>6. TaskTypes'
  BY <1>1, <1>4, <1>9 DEF Types, TaskTypes, SendCommandBLE
<1>7. CountTypes'
  BY <1>4 DEF Types, CountTypes, SendCommandBLE, counters
<1>8. ProtocolInv'
  BY <1>1 DEF Types, ProtocolInv, SendCommandBLE
<1> QED BY <1>1, <1>2, <1>3, <1>5, <1>6, <1>7, <1>8 DEF Types

LEMMA TypesStutter == Types /\ UNCHANGED vars => Types'
<1> SUFFICES ASSUME Types, UNCHANGED vars PROVE Types'
  OBVIOUS
<1> USE DEF vars, radio, gateway, counters, history
<1>1. DeviceTypes'
  BY DEF Types, DeviceTypes
<1>2. TaskTypes'
  BY DEF Types, TaskTypes
<1>3. CountTypes'
  BY DEF Types, CountTypes
<1>4. ProtocolInv'
  BY DEF Types, ProtocolInv
<1> QED BY <1>1, <1>2, <1>3, <1>4 DEF Types

LEMMA TypesStep == Types /\ [Next]_vars => Types'
<1> SUFFICES ASSUME Types, [Next]_vars PROVE Types'
  OBVIOUS
<1>1. ASSUME NEW e \in Endpoint,
             \/ Press(e) \/ OtherReport(e) \/ MqttOnOff(e)
             \/ Execute(e) \/ LoseCommand(e) \/ LoseStatus(e) \/ Timeout(e)
             \/ ZigbeeReport(e) \/ BleStatus(e) \/ BlePublish(e)
      PROVE  Types'
  BY <1>1, PressTypes, OtherReportTypes, MqttOnOffTypes, ExecuteTypes,
     LoseCommandTypes, LoseStatusTypes, TimeoutTypes, ZigbeeReportTypes,
     BleStatusTypes, BlePublishTypes
<1>2. CASE Tasks
  BY <1>2, MqttLinkTypes, LookUpTypes, DealTypes, SendCommandZigbeeTypes,
     SendCommandBLETypes DEF Tasks
<1>3. CASE Repetition
  BY <1>3, RepeatValueTypes, RepeatFillTypes, RepeatSendTypes DEF Repetition
<1>4. CASE UNCHANGED vars
  BY <1>4, TypesStutter
<1> QED BY <1>1, <1>2, <1>3, <1>4 DEF Next

LEMMA TypesAlways == Spec => []Types
BY TypesInit, TypesStep, PTL DEF Spec

\* The state of the links keeps its types, and no queue grows beyond its
\* length, for any buttons, links and numbers of presses.
THEOREM TypeCorrect == Spec => []TypeOK
<1>1. ASSUME Types PROVE repeat \in Seq(Call) /\ Len(repeat) <= 1
  <2>1. CASE repeat = <<>>
    BY <2>1
  <2>2. CASE repeat # <<>>
    <3>1. PICK r \in Call : repeat = <<r>>
      BY <1>1, <2>2 DEF Types, TaskTypes
    <3> QED BY <3>1
  <2> QED BY <2>1, <2>2
<1>2. Types => TypeOK
  BY <1>1 DEF Types, DeviceTypes, TaskTypes, CountTypes, TypeOK, ReportType
<1> QED BY <1>2, TypesAlways, PTL
-----------------------------------------------------------------------------
(* With one press at a time everything on its way carries what was wanted *)

WantedAgree == \A e \in Endpoint : \A t \in Link(e) : wanted[t] = wanted[e]

ReportsCarry(v) ==
  \A e \in Endpoint : \A r \in Member(reports[e]) :
    r.value = v /\ wanted[e] = v /\ state[e] = v

CommandsCarry(v) ==
  \A e \in Endpoint : \A c \in Member(commands[e]) : c = v /\ wanted[e] = v

PendingCarry(v) ==
  \A e \in Endpoint : pending[e] # "none" =>
    pending[e] = v /\ wanted[e] = v /\ stateButtonBLE = v

RepeatCarry(v) ==
  \A r \in Member(repeat) :
    r.state = v /\ wanted[r.id] = v /\ stateButtonBLE = v

QueuesCarry(v) ==
  \A x \in Member(mqtt) \cup Member(queueIdButton)
             \cup Member(queueCmdZigbee) \cup Member(queueCmdBLE) :
    x.state = v /\ wanted[x.id] = v

TokensCarry(v) == \A t \in Member(tokens) : item = v /\ wanted[t] = v

AllCarry(v) ==
  /\ ReportsCarry(v) /\ CommandsCarry(v) /\ PendingCarry(v)
  /\ RepeatCarry(v) /\ QueuesCarry(v) /\ TokensCarry(v)

Carried == OneAtATime /\ other = 0 => \E v \in State : AllCarry(v)

LEMMA SameLink ==
  ASSUME NEW e \in Endpoint, NEW t \in Link(e)
  PROVE  t \in Endpoint /\ Link(t) = Link(e)
<1>1. CASE t = e
  BY <1>1
<1>2. CASE t \in Member(Targets[e])
  BY <1>2, LinkAssumption, TargetsType
<1> QED BY <1>1, <1>2 DEF Link

LEMMA Wanting ==
  ASSUME Types, WantedAgree, NEW e \in Endpoint, NEW v \in State, Want(e, v)
  PROVE  /\ WantedAgree' /\ wanted'[e] = v
         /\ \A t \in Endpoint :
              wanted'[t] = IF t \in Link(e) THEN v ELSE wanted[t]
<1>1. \A t \in Endpoint :
        wanted'[t] = IF t \in Link(e) THEN v ELSE wanted[t]
  BY DEF Want
<1>2. wanted'[e] = v
  BY <1>1, TargetsType
<1>3. ASSUME NEW u \in Endpoint, NEW t \in Link(u)
      PROVE  wanted'[t] = wanted'[u]
  <2>1. t \in Endpoint /\ Link(t) = Link(u) /\ u \in Link(u) /\ wanted[t] = wanted[u]
    BY <1>3, SameLink, TargetsType DEF WantedAgree
  <2>2. CASE u \in Link(e)
    <3>1. t \in Link(e)
      BY <2>2, SameLink
    <3> QED BY <1>1, <2>1, <2>2, <3>1
  <2>3. CASE u \notin Link(e)
    <3>1. t \notin Link(e)
      BY <2>1, <2>3, SameLink
    <3> QED BY <1>1, <2>1, <2>3, <3>1
  <2> QED BY <2>2, <2>3
<1> QED BY <1>1, <1>2, <1>3 DEF WantedAgree

LEMMA WantedAgreeInit == Init => WantedAgree
BY DEF Init, WantedAgree

LEMMA WantedAgreeStep == Types /\ WantedAgree /\ [Next]_vars => WantedAgree'
<1> SUFFICES ASSUME Types, WantedAgree, [Next]_vars PROVE WantedAgree'
  OBVIOUS
<1>1. ASSUME NEW e \in Endpoint, Press(e) \/ MqttOnOff(e)
      PROVE  WantedAgree'
  BY <1>1, Wanting DEF Press, MqttOnOff
<1>2. ASSUME wanted' = wanted PROVE WantedAgree'
  BY <1>2 DEF WantedAgree
<1>3. ASSUME NEW e \in Endpoint,
             \/ OtherReport(e) \/ Execute(e) \/ LoseCommand(e)
             \/ LoseStatus(e) \/ Timeout(e) \/ ZigbeeReport(e)
             \/ BleStatus(e) \/ BlePublish(e)
      PROVE  wanted' = wanted
  BY <1>3 DEF OtherReport, Execute, LoseCommand, LoseStatus, Timeout,
     ZigbeeReport, BleStatus, BlePublish, history
<1>4. CASE Tasks
  BY <1>2, <1>4 DEF Tasks, MqttLink, LookUp, Deal, SendCommandZigbee,
     SendCommandBLE, history
<1>5. CASE Repetition
  BY <1>2, <1>5 DEF Repetition, RepeatValue, RepeatFill, RepeatSend, history
<1>6. CASE UNCHANGED vars
  BY <1>2, <1>6 DEF vars, history
<1> QED BY <1>1, <1>2, <1>3, <1>4, <1>5, <1>6 DEF Next

LEMMA CarriedInit == Init => Carried
<1> SUFFICES ASSUME Init PROVE AllCarry("on")
  BY DEF Carried, State
<1>1. ReportsCarry("on")
  BY MemberOfEmpty DEF Init, ReportsCarry
<1>2. CommandsCarry("on")
  BY MemberOfEmpty DEF Init, CommandsCarry
<1>3. PendingCarry("on")
  BY DEF Init, PendingCarry
<1>4. QueuesCarry("on")
  BY MemberOfEmpty DEF Init, QueuesCarry
<1>5. TokensCarry("on")
  BY MemberOfEmpty DEF Init, TokensCarry
<1>6. RepeatCarry("on")
  BY MemberOfEmpty DEF Init, RepeatCarry
<1> QED BY <1>1, <1>2, <1>3, <1>4, <1>5, <1>6 DEF AllCarry

LEMMA PressCarried ==
  ASSUME Types, WantedAgree, OneAtATime, NEW e \in Endpoint, Press(e)
  PROVE  \E v \in State : AllCarry(v)'
<1>1. PICK v \in State \ {state[e]} :
        /\ state' = [state EXCEPT ![e] = v]
        /\ reports' = Push(reports, e, Report("button", v))
        /\ Want(e, v)
  BY DEF Press
<1>2. /\ Report("button", v) \in ReportType
      /\ Report("button", v).kind = "button" /\ Report("button", v).value = v
  BY ReportInType
<1>3. /\ Member(reports'[e]) = Member(reports[e]) \cup {Report("button", v)}
      /\ \A t \in Endpoint \ {e} : reports'[t] = reports[t]
  BY <1>1, <1>2, ReportSent
<1>4. wanted'[e] = v /\ state'[e] = v
  BY <1>1, Wanting DEF Types, DeviceTypes
<1>5. Settled
  BY DEF Press
<1>6. ReportsCarry(v)'
  BY <1>2, <1>3, <1>4, <1>5, MemberOfEmpty DEF ReportsCarry, Settled
<1>7. CommandsCarry(v)'
  BY <1>5, MemberOfEmpty DEF CommandsCarry, Settled, Press
<1>8. PendingCarry(v)'
  BY <1>5 DEF PendingCarry, Settled, Press
<1>9. QueuesCarry(v)'
  BY <1>5, MemberOfEmpty DEF QueuesCarry, Settled, Press, gateway
<1>10. TokensCarry(v)' /\ RepeatCarry(v)'
  BY <1>5, MemberOfEmpty DEF TokensCarry, RepeatCarry, Settled, Press, gateway
<1> QED BY <1>6, <1>7, <1>8, <1>9, <1>10 DEF AllCarry

LEMMA MqttOnOffCarried ==
  ASSUME Types, WantedAgree, OneAtATime, NEW e \in Endpoint, MqttOnOff(e)
  PROVE  \E v \in State : AllCarry(v)'
<1>1. PICK v \in State :
        /\ mqtt' = <<[id |-> e, state |-> v]>>
        /\ Want(e, v)
        /\ IF e \in Ble
           THEN /\ KeepValue(v) /\ Send(e, v)
                /\ lost' = (lost \/ Refused(e, v))
           ELSE /\ commands' = Push(commands, e, v)
                /\ UNCHANGED <<pending, stateButtonBLE, lost>>
  BY DEF MqttOnOff
<1>2. wanted'[e] = v
  BY <1>1, Wanting
<1>3. Settled
  BY DEF MqttOnOff
<1>4. /\ Member(commands'[e]) \subseteq Member(commands[e]) \cup {v}
      /\ \A t \in Endpoint \ {e} : commands'[t] = commands[t]
      /\ \A t \in Endpoint \ {e} : pending'[t] = pending[t]
      /\ pending'[e] # "none" => pending'[e] = v /\ stateButtonBLE' = v
  <2>1. CASE e \in Ble
    <3>1. pending'[e] = v
      BY <1>1, <1>3, <2>1 DEF Send, Settled, Types, DeviceTypes
    <3> QED BY <1>1, <2>1, <3>1, Commanded DEF KeepValue
  <2>2. CASE e \notin Ble
    BY <1>1, <1>3, <2>2, CommandSent DEF Settled
  <2> QED BY <2>1, <2>2
<1>5. Member(mqtt') = {[id |-> e, state |-> v]}
  BY <1>1, MemberOfOne
<1>6. ReportsCarry(v)'
  BY <1>3, MemberOfEmpty DEF ReportsCarry, Settled, MqttOnOff
<1>7. CommandsCarry(v)'
  BY <1>2, <1>3, <1>4, MemberOfEmpty DEF CommandsCarry, Settled
<1>8. PendingCarry(v)'
  BY <1>2, <1>3, <1>4 DEF PendingCarry, Settled
<1>9. QueuesCarry(v)'
  <2>1. /\ queueIdButton' = <<>> /\ queueCmdZigbee' = <<>>
        /\ queueCmdBLE' = <<>>
    BY <1>3 DEF Settled, MqttOnOff
  <2> QED BY <1>2, <1>5, <2>1, MemberOfEmpty, ItemType DEF QueuesCarry
<1>10. TokensCarry(v)' /\ RepeatCarry(v)'
  BY <1>3, MemberOfEmpty DEF TokensCarry, RepeatCarry, Settled, MqttOnOff
<1> QED BY <1>6, <1>7, <1>8, <1>9, <1>10 DEF AllCarry
LEMMA CommandTaken ==
  ASSUME Types, NEW e \in Endpoint, commands[e] # <<>>,
         commands' = Pop(commands, e)
  PROVE  /\ commands' \in [Endpoint -> Seq(State)]
         /\ Head(commands[e]) \in State
         /\ Member(commands[e]) = Member(commands'[e]) \cup {Head(commands[e])}
         /\ \A t \in Endpoint \ {e} : commands'[t] = commands[t]
<1>1. commands \in [Endpoint -> Seq(State)]
  BY DEF Types, DeviceTypes
<1> QED BY ZenonT(30), <1>1, Popped

LEMMA ExecuteCarried ==
  ASSUME Types, NEW v \in State, AllCarry(v), NEW e \in Endpoint, Execute(e)
  PROVE  AllCarry(v)' /\ state'[e] = wanted[e]
<1>1. /\ Member(commands[e]) = Member(commands'[e]) \cup {Head(commands[e])}
      /\ \A t \in Endpoint \ {e} : commands'[t] = commands[t]
      /\ Head(commands[e]) \in State
  BY CommandTaken DEF Execute
<1>2. Head(commands[e]) = v /\ wanted[e] = v
  BY <1>1 DEF AllCarry, CommandsCarry
<1>3. state'[e] = v /\ \A t \in Endpoint \ {e} : state'[t] = state[t]
  BY <1>2 DEF Execute, Types, DeviceTypes
<1> DEFINE Old == \A t \in Endpoint : \A r \in Member(reports'[t]) :
                    r \in Member(reports[t]) \/ (t = e /\ r.value = v)
<1>4. Old
  <2>1. ASSUME NEW k \in {"button", "status"},
               reports' = Push(reports, e, Report(k, v))
        PROVE  Old
    <3>1. /\ Report(k, v) \in ReportType /\ Report(k, v).value = v
      BY ReportInType
    <3>2. /\ Member(reports'[e]) = Member(reports[e]) \cup {Report(k, v)}
          /\ \A t \in Endpoint \ {e} : reports'[t] = reports[t]
      BY <2>1, <3>1, ReportSent
    <3> QED BY <3>1, <3>2
  <2>2. CASE e \in Ble
    BY <1>2, <2>1, <2>2 DEF Execute
  <2>3. CASE e \notin Ble /\ v # state[e]
    BY <1>2, <2>1, <2>3 DEF Execute
  <2>4. CASE e \notin Ble /\ v = state[e]
    <3>1. reports' = reports
      BY <1>2, <2>4 DEF Execute
    <3> QED BY <3>1
  <2> QED BY <2>2, <2>3, <2>4
<1>5. wanted' = wanted
  BY DEF Execute, history
<1>6. ReportsCarry(v)'
  BY <1>2, <1>3, <1>4, <1>5 DEF AllCarry, ReportsCarry
<1>7. CommandsCarry(v)'
  BY <1>1, <1>5 DEF AllCarry, CommandsCarry
<1>8. /\ PendingCarry(v)' /\ RepeatCarry(v)'
      /\ QueuesCarry(v)' /\ TokensCarry(v)'
  BY <1>5 DEF AllCarry, PendingCarry, RepeatCarry, QueuesCarry, TokensCarry,
     Execute, gateway
<1> QED BY <1>2, <1>3, <1>6, <1>7, <1>8 DEF AllCarry

LEMMA LoseCommandCarried ==
  ASSUME Types, NEW v \in State, AllCarry(v), NEW e \in Endpoint, LoseCommand(e)
  PROVE  AllCarry(v)'
<1>1. /\ Member(commands[e]) = Member(commands'[e]) \cup {Head(commands[e])}
      /\ \A t \in Endpoint \ {e} : commands'[t] = commands[t]
  BY CommandTaken DEF LoseCommand
<1>2. CommandsCarry(v)'
  BY <1>1 DEF AllCarry, CommandsCarry, LoseCommand, history
<1>3. /\ ReportsCarry(v)' /\ PendingCarry(v)' /\ RepeatCarry(v)'
      /\ QueuesCarry(v)' /\ TokensCarry(v)'
  BY DEF AllCarry, ReportsCarry, PendingCarry, RepeatCarry, QueuesCarry,
     TokensCarry, LoseCommand, gateway, history
<1> QED BY <1>2, <1>3 DEF AllCarry

\* The reports that stay carry what they did.
LEMMA TakenCarries ==
  ASSUME Types, NEW v \in State, AllCarry(v), NEW e \in Endpoint,
         reports[e] # <<>>, reports' = Pop(reports, e),
         wanted' = wanted, state' = state
  PROVE  /\ ReportsCarry(v)'
         /\ Head(reports[e]).value = v /\ wanted[e] = v /\ state[e] = v
<1>1. /\ Member(reports[e]) = Member(reports'[e]) \cup {Head(reports[e])}
      /\ \A t \in Endpoint : Member(reports'[t]) \subseteq Member(reports[t])
  BY ReportTaken
<1> QED BY <1>1 DEF AllCarry, ReportsCarry

LEMMA LoseStatusCarried ==
  ASSUME Types, NEW v \in State, AllCarry(v), NEW e \in Endpoint, LoseStatus(e)
  PROVE  AllCarry(v)'
<1>1. ReportsCarry(v)'
  BY TakenCarries DEF LoseStatus, history
<1>2. /\ CommandsCarry(v)' /\ PendingCarry(v)' /\ RepeatCarry(v)'
      /\ QueuesCarry(v)' /\ TokensCarry(v)'
  BY DEF AllCarry, CommandsCarry, PendingCarry, RepeatCarry, QueuesCarry,
     TokensCarry, LoseStatus, gateway, history
<1> QED BY <1>1, <1>2 DEF AllCarry

LEMMA BleStatusCarried ==
  ASSUME Types, NEW v \in State, AllCarry(v), NEW e \in Endpoint, BleStatus(e)
  PROVE  AllCarry(v)' /\ state[e] = wanted[e]
<1>1. ReportsCarry(v)' /\ state[e] = wanted[e]
  BY TakenCarries DEF BleStatus, history
<1>2. PendingCarry(v)'
  BY DEF AllCarry, PendingCarry, BleStatus, gateway, history, Types, DeviceTypes
<1>3. /\ CommandsCarry(v)' /\ RepeatCarry(v)'
      /\ QueuesCarry(v)' /\ TokensCarry(v)'
  BY DEF AllCarry, CommandsCarry, RepeatCarry, QueuesCarry, TokensCarry,
     BleStatus, gateway, history
<1> QED BY <1>1, <1>2, <1>3 DEF AllCarry

LEMMA TimeoutCarried ==
  ASSUME Types, NEW v \in State, AllCarry(v), NEW e \in Endpoint, Timeout(e)
  PROVE  AllCarry(v)'
<1>1. stateButtonBLE = v /\ wanted[e] = v
  BY DEF AllCarry, PendingCarry, Timeout
<1>2. /\ state' = state /\ reports' = reports /\ commands' = commands
      /\ wanted' = wanted /\ stateButtonBLE' = stateButtonBLE
  BY DEF Timeout, history
<1>3. PendingCarry(v)'
  BY <1>2 DEF AllCarry, PendingCarry, Timeout, Types, DeviceTypes
<1>4. RepeatCarry(v)'
  <2> DEFINE q == [pc |-> "value", id |-> e, state |-> stateButtonBLE]
  <2>1. q.id = e /\ q.state = stateButtonBLE
    OBVIOUS
  <2>2. repeat' = <<q>>
    BY DEF Timeout
  <2> HIDE DEF q
  <2> QED BY <1>1, <1>2, <2>1, <2>2, MemberOfOne DEF RepeatCarry
<1>5. ReportsCarry(v)' /\ CommandsCarry(v)'
  BY <1>2 DEF AllCarry, ReportsCarry, CommandsCarry
<1>6. QueuesCarry(v)' /\ TokensCarry(v)'
  BY <1>2 DEF AllCarry, QueuesCarry, TokensCarry, Timeout
<1> QED BY <1>3, <1>4, <1>5, <1>6 DEF AllCarry

\* A step within the call changes nothing that is on its way.
LEMMA RepeatCarries ==
  ASSUME Types, NEW v \in State, AllCarry(v), RepeatValue \/ RepeatFill
  PROVE  AllCarry(v)'
<1>1. PICK q \in Call :
        repeat' = <<q>> /\ q.id = repeat[1].id /\ q.state = repeat[1].state
  BY RepeatMoved DEF RepeatValue, RepeatFill, Repeats
<1>2. /\ Member(repeat) = {repeat[1]} /\ Member(repeat') = {q}
  BY <1>1, RepeatOne, MemberOfOne DEF RepeatValue, RepeatFill, Repeats
<1>3. /\ repeat[1].state = v /\ wanted[repeat[1].id] = v /\ stateButtonBLE = v
  BY <1>2 DEF AllCarry, RepeatCarry
<1>4. /\ state' = state /\ reports' = reports /\ commands' = commands
      /\ pending' = pending /\ wanted' = wanted /\ stateButtonBLE' = v
  BY <1>3 DEF RepeatValue, RepeatFill, KeepValue, radio, history
<1>5. RepeatCarry(v)'
  BY <1>1, <1>2, <1>3, <1>4 DEF RepeatCarry
<1>6. ReportsCarry(v)' /\ CommandsCarry(v)' /\ PendingCarry(v)'
  BY <1>4 DEF AllCarry, ReportsCarry, CommandsCarry, PendingCarry
<1>7. QueuesCarry(v)' /\ TokensCarry(v)'
  BY <1>4 DEF AllCarry, QueuesCarry, TokensCarry, RepeatValue, RepeatFill
<1> QED BY <1>5, <1>6, <1>7 DEF AllCarry

\* What is sent carries what was wanted.
LEMMA SendCarries ==
  ASSUME Types, NEW v \in State, AllCarry(v), NEW e \in Endpoint, Send(e, v),
         wanted[e] = v, wanted' = wanted, stateButtonBLE' = v
  PROVE  CommandsCarry(v)' /\ PendingCarry(v)'
<1>1. /\ Member(commands'[e]) \subseteq Member(commands[e]) \cup {v}
      /\ \A t \in Endpoint \ {e} :
           pending'[t] = pending[t] /\ commands'[t] = commands[t]
  BY Commanded
<1>2. pending'[e] = v
  BY DEF Send, AllCarry, PendingCarry, Types, DeviceTypes
<1>3. CommandsCarry(v)'
  <2>1. ASSUME NEW t \in Endpoint, NEW c \in Member(commands'[t])
        PROVE  c = v /\ wanted[t] = v
    <3>1. CASE t = e
      BY <1>1, <2>1, <3>1 DEF AllCarry, CommandsCarry
    <3>2. CASE t # e
      BY <1>1, <2>1, <3>2 DEF AllCarry, CommandsCarry
    <3> QED BY <3>1, <3>2
  <2> QED BY <2>1 DEF CommandsCarry
<1>4. PendingCarry(v)'
  BY <1>1, <1>2 DEF AllCarry, PendingCarry
<1> QED BY <1>3, <1>4

LEMMA RepeatSendCarried ==
  ASSUME Types, NEW v \in State, AllCarry(v), RepeatSend
  PROVE  AllCarry(v)'
<1> DEFINE q == repeat[1]
<1>1. Member(repeat) = {q} /\ q.id \in Endpoint /\ q.state \in State
  BY RepeatOne DEF RepeatSend, Repeats
<1>2. Send(q.id, q.state)
  BY DEF RepeatSend
<1> HIDE DEF q
<1>3. q.state = v /\ wanted[q.id] = v /\ stateButtonBLE = v
  BY <1>1 DEF AllCarry, RepeatCarry
<1>4. state' = state /\ wanted' = wanted /\ stateButtonBLE' = v
  BY <1>3 DEF RepeatSend
<1>5. CommandsCarry(v)' /\ PendingCarry(v)'
  BY <1>1, <1>2, <1>3, <1>4, SendCarries
<1>6. RepeatCarry(v)'
  BY MemberOfEmpty DEF RepeatCarry, RepeatSend
<1>7. ReportsCarry(v)' /\ QueuesCarry(v)' /\ TokensCarry(v)'
  BY DEF AllCarry, ReportsCarry, QueuesCarry, TokensCarry, RepeatSend
<1> QED BY <1>5, <1>6, <1>7 DEF AllCarry

LEMMA ZigbeeReportCarried ==
  ASSUME Types, NEW v \in State, AllCarry(v), NEW e \in Endpoint, ZigbeeReport(e)
  PROVE  AllCarry(v)' /\ value' = v
<1>1. /\ ReportsCarry(v)' /\ wanted[e] = v /\ Head(reports[e]).value = v
  BY TakenCarries DEF ZigbeeReport
<1>2. value' = v
  BY <1>1 DEF ZigbeeReport, State
<1>3. Member(queueIdButton')
        \subseteq Member(queueIdButton) \cup {[id |-> e, state |-> v]}
  BY <1>2, IdOffered DEF ZigbeeReport
<1>4. QueuesCarry(v)'
  BY <1>1, <1>3, ItemType DEF AllCarry, QueuesCarry, ZigbeeReport
<1>5. /\ CommandsCarry(v)' /\ PendingCarry(v)' /\ RepeatCarry(v)'
      /\ TokensCarry(v)'
  BY DEF AllCarry, CommandsCarry, PendingCarry, RepeatCarry, TokensCarry,
     ZigbeeReport
<1> QED BY <1>1, <1>2, <1>4, <1>5 DEF AllCarry

LEMMA BlePublishCarried ==
  ASSUME Types, NEW v \in State, AllCarry(v), NEW e \in Endpoint, BlePublish(e)
  PROVE  AllCarry(v)'
<1>1. /\ ReportsCarry(v)' /\ wanted[e] = v /\ Head(reports[e]).value = v
  BY TakenCarries DEF BlePublish
<1>3. Member(queueIdButton')
        \subseteq Member(queueIdButton) \cup {[id |-> e, state |-> v]}
  BY <1>1, IdOffered DEF BlePublish
<1>4. QueuesCarry(v)'
  BY <1>1, <1>3, ItemType DEF AllCarry, QueuesCarry, BlePublish
<1>5. /\ CommandsCarry(v)' /\ PendingCarry(v)' /\ RepeatCarry(v)'
      /\ TokensCarry(v)'
  BY DEF AllCarry, CommandsCarry, PendingCarry, RepeatCarry, TokensCarry,
     BlePublish
<1> QED BY <1>1, <1>4, <1>5 DEF AllCarry

LEMMA MqttLinkCarried ==
  ASSUME Types, NEW v \in State, AllCarry(v), MqttLink
  PROVE  AllCarry(v)'
<1>1. /\ Head(mqtt).id \in Endpoint /\ Head(mqtt).state \in State
      /\ OfferId(Head(mqtt).id, Head(mqtt).state)
      /\ Member(mqtt) = {Head(mqtt)}
  BY MqttLinkTypes
<1>2. Head(mqtt).state = v /\ wanted[Head(mqtt).id] = v
  BY <1>1 DEF AllCarry, QueuesCarry
<1>3. Member(queueIdButton')
        \subseteq Member(queueIdButton) \cup {[id |-> Head(mqtt).id, state |-> v]}
  BY <1>1, <1>2, IdOffered
<1>4. QueuesCarry(v)'
  <2>1. mqtt' = <<>> /\ queueCmdZigbee' = queueCmdZigbee
        /\ queueCmdBLE' = queueCmdBLE /\ wanted' = wanted
    BY DEF MqttLink
  <2>2. /\ [id |-> Head(mqtt).id, state |-> v].id = Head(mqtt).id
        /\ [id |-> Head(mqtt).id, state |-> v].state = v
    BY <1>1, ItemType
  <2> QED BY <1>2, <1>3, <2>1, <2>2, MemberOfEmpty DEF AllCarry, QueuesCarry
<1>5. /\ ReportsCarry(v)' /\ CommandsCarry(v)' /\ PendingCarry(v)'
      /\ RepeatCarry(v)' /\ TokensCarry(v)'
  BY DEF AllCarry, ReportsCarry, CommandsCarry, PendingCarry, RepeatCarry,
     TokensCarry, MqttLink, radio
<1> QED BY <1>4, <1>5 DEF AllCarry

LEMMA LookUpCarried ==
  ASSUME Types, WantedAgree, NEW v \in State, AllCarry(v), LookUp
  PROVE  AllCarry(v)'
<1> DEFINE x == Head(queueIdButton)
<1>1. /\ x \in Item
      /\ Member(queueIdButton) = Member(queueIdButton') \cup {x}
      /\ item' = x.state /\ tokens' = Targets[x.id]
  BY LookUpTypes DEF LookUp
<1> HIDE DEF x
<1>2. x.state = v /\ wanted[x.id] = v /\ x.id \in Endpoint
  BY <1>1 DEF AllCarry, QueuesCarry, Item
<1>3. TokensCarry(v)'
  BY <1>1, <1>2 DEF TokensCarry, WantedAgree, Link, LookUp, history
<1>4. QueuesCarry(v)'
  BY <1>1 DEF AllCarry, QueuesCarry, LookUp, history
<1>5. /\ ReportsCarry(v)' /\ CommandsCarry(v)' /\ PendingCarry(v)'
      /\ RepeatCarry(v)'
  BY DEF AllCarry, ReportsCarry, CommandsCarry, PendingCarry, RepeatCarry,
     LookUp, radio, history
<1> QED BY <1>3, <1>4, <1>5 DEF AllCarry

LEMMA DealCarried ==
  ASSUME Types, NEW v \in State, AllCarry(v), Deal
  PROVE  AllCarry(v)'
<1> DEFINE x == [id |-> Head(tokens), state |-> item]
<1>1. /\ Head(tokens) \in Endpoint
      /\ Member(tokens) = Member(tokens') \cup {Head(tokens)}
      /\ Member(queueCmdZigbee') \subseteq Member(queueCmdZigbee) \cup {x}
      /\ Member(queueCmdBLE') \subseteq Member(queueCmdBLE) \cup {x}
  BY DealTypes
<1>2. item = v /\ wanted[Head(tokens)] = v
  BY <1>1 DEF AllCarry, TokensCarry
<1>3. x.state = v /\ x.id = Head(tokens)
  BY <1>2
<1> HIDE DEF x
<1>4. QueuesCarry(v)'
  BY <1>1, <1>2, <1>3 DEF AllCarry, QueuesCarry, Deal
<1>5. TokensCarry(v)'
  BY <1>1 DEF AllCarry, TokensCarry, Deal
<1>6. /\ ReportsCarry(v)' /\ CommandsCarry(v)' /\ PendingCarry(v)'
      /\ RepeatCarry(v)'
  BY DEF AllCarry, ReportsCarry, CommandsCarry, PendingCarry, RepeatCarry,
     Deal, radio
<1> QED BY <1>4, <1>5, <1>6 DEF AllCarry

LEMMA SendCommandZigbeeCarried ==
  ASSUME Types, NEW v \in State, AllCarry(v), SendCommandZigbee
  PROVE  AllCarry(v)'
<1> DEFINE x == Head(queueCmdZigbee)
<1>1. /\ x.id \in Endpoint
      /\ Member(queueCmdZigbee) = Member(queueCmdZigbee') \cup {x}
      /\ Member(commands'[x.id]) = Member(commands[x.id]) \cup {x.state}
      /\ \A t \in Endpoint \ {x.id} : commands'[t] = commands[t]
  BY SendCommandZigbeeTypes
<1> HIDE DEF x
<1>2. x.state = v /\ wanted[x.id] = v
  BY <1>1 DEF AllCarry, QueuesCarry
<1>3. CommandsCarry(v)'
  BY <1>1, <1>2 DEF AllCarry, CommandsCarry, SendCommandZigbee, history
<1>4. QueuesCarry(v)'
  BY <1>1 DEF AllCarry, QueuesCarry, SendCommandZigbee, history
<1>5. /\ ReportsCarry(v)' /\ PendingCarry(v)' /\ RepeatCarry(v)'
      /\ TokensCarry(v)'
  BY DEF AllCarry, ReportsCarry, PendingCarry, RepeatCarry, TokensCarry,
     SendCommandZigbee, history
<1> QED BY <1>3, <1>4, <1>5 DEF AllCarry

LEMMA SendCommandBLECarried ==
  ASSUME Types, NEW v \in State, AllCarry(v), SendCommandBLE
  PROVE  AllCarry(v)'
<1> DEFINE x == Head(queueCmdBLE)
<1>1. /\ x \in Item /\ x.id \in Endpoint /\ x.state \in State
      /\ Member(queueCmdBLE) = Member(queueCmdBLE') \cup {x}
      /\ Send(x.id, x.state) /\ stateButtonBLE' = x.state
      /\ repeat' = [i \in DOMAIN repeat |-> Overtaken(repeat[i], x)]
  BY SendCommandBLETypes
<1> HIDE DEF x
<1>2. x.state = v /\ wanted[x.id] = v
  BY <1>1 DEF AllCarry, QueuesCarry
<1>3. state' = state /\ wanted' = wanted /\ stateButtonBLE' = v
  BY <1>1, <1>2 DEF SendCommandBLE
<1>4. CommandsCarry(v)' /\ PendingCarry(v)'
  BY <1>1, <1>2, <1>3, SendCarries
<1>5. RepeatCarry(v)'
  <2>1. CASE TaskFree
    <3>1. repeat' = <<>>
      BY <1>1, <2>1, RepeatOvertaken
    <3> QED BY <3>1, MemberOfEmpty DEF RepeatCarry
  <2>2. CASE ~ TaskFree
    <3>1. Member(repeat') = {Overtaken(repeat[1], x)}
      BY <1>1, <2>2, RepeatOvertaken, MemberOfOne
    <3>2. /\ repeat[1] \in Call /\ repeat[1].state = v
          /\ wanted[repeat[1].id] = v
      BY <2>2, RepeatOne DEF AllCarry, RepeatCarry
    <3>3. /\ Overtaken(repeat[1], x).id \in {repeat[1].id, x.id}
          /\ Overtaken(repeat[1], x).state \in {repeat[1].state, x.state}
      BY <3>2 DEF Overtaken, Call
    <3> QED BY <1>2, <1>3, <3>1, <3>2, <3>3 DEF RepeatCarry
  <2> QED BY <2>1, <2>2
<1>6. QueuesCarry(v)'
  BY <1>1, <1>3 DEF AllCarry, QueuesCarry, SendCommandBLE
<1>7. ReportsCarry(v)' /\ TokensCarry(v)'
  BY <1>3 DEF AllCarry, ReportsCarry, TokensCarry, SendCommandBLE
<1> QED BY <1>4, <1>5, <1>6, <1>7 DEF AllCarry

LEMMA AllCarryStutter ==
  ASSUME NEW v \in State, AllCarry(v), UNCHANGED vars
  PROVE  AllCarry(v)'
<1> USE DEF vars, radio, gateway, history
<1>1. ReportsCarry(v)' /\ CommandsCarry(v)' /\ PendingCarry(v)'
  BY DEF AllCarry, ReportsCarry, CommandsCarry, PendingCarry
<1>2. RepeatCarry(v)' /\ QueuesCarry(v)' /\ TokensCarry(v)'
  BY DEF AllCarry, RepeatCarry, QueuesCarry, TokensCarry
<1> QED BY <1>1, <1>2 DEF AllCarry

\* Reports about anything but the button are never taken back.
LEMMA OtherStays ==
  ASSUME Types, [Next]_vars, other' = 0
  PROVE  other = 0 /\ \A e \in Endpoint : ~ OtherReport(e)
<1>1. other \in Nat
  BY BoundAssumption DEF Types, CountTypes
<1>2. \A e \in Endpoint : ~ OtherReport(e)
  BY <1>1 DEF OtherReport
<1>3. ASSUME NEW e \in Endpoint,
             \/ Press(e) \/ MqttOnOff(e) \/ Execute(e) \/ LoseCommand(e)
             \/ LoseStatus(e) \/ Timeout(e) \/ ZigbeeReport(e)
             \/ BleStatus(e) \/ BlePublish(e)
      PROVE  other = 0
  BY <1>3 DEF Press, MqttOnOff, Execute, LoseCommand, LoseStatus, Timeout,
     ZigbeeReport, BleStatus, BlePublish, counters
<1>4. CASE Tasks
  BY <1>2, <1>4 DEF Tasks, MqttLink, LookUp, Deal, SendCommandZigbee,
     SendCommandBLE, counters
<1>5. CASE Repetition
  BY <1>2, <1>5 DEF Repetition, RepeatValue, RepeatFill, RepeatSend, counters
<1>6. CASE UNCHANGED vars
  BY <1>2, <1>6 DEF vars, counters
<1> QED BY <1>2, <1>3, <1>4, <1>5, <1>6 DEF Next

LEMMA CarriedStep ==
  Types /\ WantedAgree /\ Carried /\ [Next]_vars => Carried'
<1> SUFFICES ASSUME Types, WantedAgree, Carried, [Next]_vars,
                    OneAtATime, other' = 0
             PROVE  \E v \in State : AllCarry(v)'
  BY DEF Carried
<1>1. other = 0 /\ \A e \in Endpoint : ~ OtherReport(e)
  BY OtherStays
<1>2. PICK v \in State : AllCarry(v)
  BY <1>1 DEF Carried
<1>3. ASSUME NEW e \in Endpoint, Press(e) \/ MqttOnOff(e)
      PROVE  \E u \in State : AllCarry(u)'
  BY <1>3, PressCarried, MqttOnOffCarried
<1>4. ASSUME NEW e \in Endpoint,
             \/ Execute(e) \/ LoseCommand(e) \/ LoseStatus(e) \/ Timeout(e)
             \/ ZigbeeReport(e) \/ BleStatus(e) \/ BlePublish(e)
      PROVE  AllCarry(v)'
  BY <1>2, <1>4, ExecuteCarried, LoseCommandCarried, LoseStatusCarried,
     TimeoutCarried, ZigbeeReportCarried, BleStatusCarried, BlePublishCarried
<1>5. CASE Tasks
  BY <1>2, <1>5, MqttLinkCarried, LookUpCarried, DealCarried,
     SendCommandZigbeeCarried, SendCommandBLECarried DEF Tasks
<1>6. CASE Repetition
  BY <1>2, <1>6, RepeatCarries, RepeatSendCarried DEF Repetition
<1>7. CASE UNCHANGED vars
  BY <1>2, <1>7, AllCarryStutter
<1> QED BY <1>1, <1>3, <1>4, <1>5, <1>6, <1>7 DEF Next

Inv == Types /\ WantedAgree /\ Carried

LEMMA InvAlways == Spec => []Inv
<1>1. Init => Inv
  BY TypesInit, WantedAgreeInit, CarriedInit DEF Inv
<1>2. Inv /\ [Next]_vars => Inv'
  BY TypesStep, WantedAgreeStep, CarriedStep DEF Inv
<1> QED BY <1>1, <1>2, PTL DEF Spec

Switched ==
  OneAtATime /\ other = 0 /\ presses' = presses /\ issued' = issued
    => \A e \in Endpoint : state'[e] # state[e] => state'[e] = wanted[e]

LEMMA SwitchedStep == Inv /\ [Next]_vars => Switched
<1> SUFFICES ASSUME Inv, [Next]_vars, OneAtATime, other = 0,
                    presses' = presses, NEW e \in Endpoint,
                    state'[e] # state[e]
             PROVE  state'[e] = wanted[e]
  BY DEF Switched
<1>1. PICK v \in State : AllCarry(v)
  BY DEF Inv, Carried
<1>2. ASSUME NEW t \in Endpoint, Press(t) PROVE FALSE
  BY <1>2, BoundAssumption DEF Press, Inv, Types, CountTypes
<1>3. ASSUME NEW t \in Endpoint, Execute(t) PROVE state'[e] = wanted[e]
  <2>1. t = e
    BY <1>3 DEF Execute, Inv, Types, DeviceTypes
  <2> QED BY <1>1, <1>3, <2>1, ExecuteCarried DEF Inv
<1>4. ASSUME NEW t \in Endpoint,
             \/ OtherReport(t) \/ MqttOnOff(t) \/ LoseCommand(t)
             \/ LoseStatus(t) \/ Timeout(t) \/ ZigbeeReport(t)
             \/ BleStatus(t) \/ BlePublish(t)
      PROVE  state' = state
  BY <1>4 DEF OtherReport, MqttOnOff, LoseCommand, LoseStatus, Timeout,
     ZigbeeReport, BleStatus, BlePublish
<1>5. CASE Tasks
  BY <1>5 DEF Tasks, MqttLink, LookUp, Deal, SendCommandZigbee, SendCommandBLE
<1>6. CASE Repetition
  BY <1>6 DEF Repetition, RepeatValue, RepeatFill, RepeatSend
<1>7. CASE UNCHANGED vars
  BY <1>7 DEF vars
<1> QED BY <1>2, <1>3, <1>4, <1>5, <1>6, <1>7 DEF Next

\* With one press or command at a time a button is switched only to what was
\* last wanted in its link, for any links and any number of BLE buttons that
\* share stateButtonBLE, whatever the mesh loses and repeats.
THEOREM SwitchesAreWanted == Spec => SwitchedAsWanted
<1>1. Inv /\ [Next]_vars => [Switched]_vars
  BY SwitchedStep
<1>2. Spec => [][Switched]_vars
  BY <1>1, InvAlways, PTL DEF Spec
<1> QED BY <1>2 DEF SwitchedAsWanted, Switched

-----------------------------------------------------------------------------
(* A button that is not yet as wanted has something coming *)

Announced(t) ==
  \/ \E r \in Member(reports[t]) : r.kind = "button"
  \/ \E x \in Member(queueIdButton) \cup Member(mqtt) : x.id = t

Coming(e) ==
  \/ e \notin Ble /\ commands[e] # <<>>
  \/ pending[e] # "none" \/ \E r \in Member(repeat) : r.id = e
  \/ \E x \in Member(queueCmdZigbee) \cup Member(queueCmdBLE) : x.id = e
  \/ e \in Member(tokens)
  \/ \E t \in Endpoint : Announced(t) /\ e \in Member(Targets[t])

Fine(e) == state[e] = wanted[e] \/ Coming(e)

Follows == OneAtATime /\ other = 0 /\ ~ lost => \A e \in Endpoint : Fine(e)

LEMMA SettledFine ==
  ASSUME Settled, NEW e \in Endpoint, Fine(e)
  PROVE  state[e] = wanted[e]
BY MemberOfEmpty DEF Settled, Fine, Coming, Announced

\* The members of a link other than the one that is pressed are its targets.
LEMMA PressFollows ==
  ASSUME Types, WantedAgree, NEW e \in Endpoint, Press(e), OneAtATime,
         \A t \in Endpoint : Fine(t)
  PROVE  \A t \in Endpoint : Fine(t)'
<1>1. PICK v \in State \ {state[e]} :
        /\ state' = [state EXCEPT ![e] = v]
        /\ reports' = Push(reports, e, Report("button", v))
        /\ Want(e, v)
  BY DEF Press
<1>2. /\ Report("button", v) \in ReportType /\ Report("button", v).kind = "button"
  BY ReportInType
<1>3. Report("button", v) \in Member(reports'[e])
  <2>1. Member(reports'[e]) = Member(reports[e]) \cup {Report("button", v)}
    BY <1>1, <1>2, ReportSent
  <2> QED BY <2>1
<1>4. Announced(e)'
  BY <1>2, <1>3 DEF Announced
<1>5. ASSUME NEW t \in Endpoint PROVE Fine(t)'
  <2>1. CASE t = e
    BY <1>1, <2>1, Wanting DEF Fine, Types, DeviceTypes
  <2>2. CASE t # e /\ t \in Link(e)
    BY <1>4, <2>2 DEF Fine, Coming, Link
  <2>3. CASE t # e /\ t \notin Link(e)
    <3>1. state[t] = wanted[t]
      BY SettledFine DEF Press
    <3>2. state'[t] = state[t] /\ wanted'[t] = wanted[t]
      BY <1>1, <2>3, Wanting DEF Types, DeviceTypes
    <3> QED BY <3>1, <3>2 DEF Fine
  <2> QED BY <2>1, <2>2, <2>3
<1> QED BY <1>5

LEMMA MqttOnOffFollows ==
  ASSUME Types, WantedAgree, NEW e \in Endpoint, MqttOnOff(e), OneAtATime,
         \A t \in Endpoint : Fine(t)
  PROVE  \A t \in Endpoint : Fine(t)'
<1>1. PICK v \in State :
        /\ mqtt' = <<[id |-> e, state |-> v]>>
        /\ Want(e, v)
        /\ IF e \in Ble
           THEN /\ KeepValue(v) /\ Send(e, v)
                /\ lost' = (lost \/ Refused(e, v))
           ELSE /\ commands' = Push(commands, e, v)
                /\ UNCHANGED <<pending, stateButtonBLE, lost>>
  BY DEF MqttOnOff
<1>2. Member(mqtt') = {[id |-> e, state |-> v]}
  BY <1>1, MemberOfOne
<1>3. Announced(e)'
  <2> DEFINE x == [id |-> e, state |-> v]
  <2>1. x \in Member(mqtt') /\ x.id = e
    BY <1>2
  <2> HIDE DEF x
  <2> QED BY <2>1 DEF Announced
<1>4. Coming(e)'
  <2>1. CASE e \in Ble
    BY <1>1, <2>1, Commanded DEF Coming
  <2>2. CASE e \notin Ble
    BY <1>1, <2>2, CommandSent DEF Coming
  <2> QED BY <2>1, <2>2
<1>5. ASSUME NEW t \in Endpoint PROVE Fine(t)'
  <2>1. CASE t = e
    BY <1>4, <2>1 DEF Fine
  <2>2. CASE t # e /\ t \in Link(e)
    BY <1>3, <2>2 DEF Fine, Coming, Link
  <2>3. CASE t # e /\ t \notin Link(e)
    <3>1. state[t] = wanted[t]
      BY SettledFine DEF MqttOnOff
    <3>2. state'[t] = state[t] /\ wanted'[t] = wanted[t]
      BY <1>1, <2>3, Wanting DEF MqttOnOff
    <3> QED BY <3>1, <3>2 DEF Fine
  <2> QED BY <2>1, <2>2, <2>3
<1> QED BY <1>5
LEMMA ExecuteFollows ==
  ASSUME Types, NEW v \in State, AllCarry(v), NEW e \in Endpoint, Execute(e),
         \A t \in Endpoint : Fine(t)
  PROVE  \A t \in Endpoint : Fine(t)'
<1>1. state'[e] = wanted'[e]
  BY ExecuteCarried DEF Execute, history
<1>2. \A t \in Endpoint \ {e} : commands'[t] = commands[t]
  BY CommandTaken DEF Execute
<1>3. \A t \in Endpoint : Member(reports[t]) \subseteq Member(reports'[t])
  <2>1. ASSUME NEW k \in {"button", "status"},
               reports' = Push(reports, e, Report(k, Head(commands[e])))
        PROVE  <1>3
    <3>1. Head(commands[e]) \in State
      BY CommandTaken DEF Execute
    <3>2. Report(k, Head(commands[e])) \in ReportType
      BY <3>1, ReportInType
    <3>3. /\ Member(reports[e]) \subseteq Member(reports'[e])
          /\ \A t \in Endpoint \ {e} : reports'[t] = reports[t]
      BY <2>1, <3>2, ReportSent
    <3> QED BY <3>3
  <2>2. CASE reports' = reports
    BY <2>2
  <2> QED BY <2>1, <2>2 DEF Execute
<1>4. \A t \in Endpoint : Announced(t) => Announced(t)'
  BY <1>3 DEF Announced, Execute, gateway
<1>5. ASSUME NEW t \in Endpoint, t # e PROVE Fine(t)'
  <2>1. state'[t] = state[t] /\ wanted'[t] = wanted[t]
    BY <1>5 DEF Execute, history, Types, DeviceTypes
  <2>2. Coming(t) => Coming(t)'
    BY <1>2, <1>4, <1>5 DEF Coming, Execute, gateway
  <2> QED BY <2>1, <2>2 DEF Fine
<1> QED BY <1>1, <1>5 DEF Fine

LEMMA LoseCommandFollows ==
  ASSUME Types, NEW e \in Endpoint, LoseCommand(e),
         \A t \in Endpoint : Fine(t)
  PROVE  \A t \in Endpoint : Fine(t)'
<1>1. e \in Ble /\ \A t \in Endpoint \ {e} : commands'[t] = commands[t]
  BY CommandTaken DEF LoseCommand
<1>2. \A t \in Endpoint : Announced(t) => Announced(t)'
  BY DEF Announced, LoseCommand, gateway
<1>3. \A t \in Endpoint : Coming(t) => Coming(t)'
  BY <1>1, <1>2 DEF Coming, LoseCommand, gateway
<1> QED BY <1>3 DEF Fine, LoseCommand, history

LEMMA LoseStatusFollows ==
  ASSUME Types, NEW e \in Endpoint, LoseStatus(e),
         \A t \in Endpoint : Fine(t)
  PROVE  \A t \in Endpoint : Fine(t)'
<1>1. /\ Member(reports[e]) = Member(reports'[e]) \cup {Head(reports[e])}
      /\ \A t \in Endpoint \ {e} : reports'[t] = reports[t]
      /\ Head(reports[e]).kind # "button"
  BY ReportTaken DEF LoseStatus
<1>2. \A t \in Endpoint : Announced(t) => Announced(t)'
  BY <1>1 DEF Announced, LoseStatus, gateway
<1>3. \A t \in Endpoint : Coming(t) => Coming(t)'
  BY <1>2 DEF Coming, LoseStatus, gateway
<1> QED BY <1>3 DEF Fine, LoseStatus, history

\* A status is the answer of a device that has the value.
LEMMA BleStatusFollows ==
  ASSUME Types, NEW v \in State, AllCarry(v), NEW e \in Endpoint, BleStatus(e),
         \A t \in Endpoint : Fine(t)
  PROVE  \A t \in Endpoint : Fine(t)'
<1>1. /\ Member(reports[e]) = Member(reports'[e]) \cup {Head(reports[e])}
      /\ \A t \in Endpoint \ {e} : reports'[t] = reports[t]
      /\ Head(reports[e]).kind # "button"
  BY ReportTaken DEF BleStatus
<1>2. state'[e] = wanted'[e]
  BY BleStatusCarried DEF BleStatus, history
<1>3. \A t \in Endpoint : Announced(t) => Announced(t)'
  BY <1>1 DEF Announced, BleStatus, gateway
<1>4. ASSUME NEW t \in Endpoint, t # e PROVE Coming(t) => Coming(t)'
  <2>1. pending'[t] = pending[t]
    BY <1>4 DEF BleStatus, Types, DeviceTypes
  <2> QED BY <1>3, <2>1 DEF Coming, BleStatus, gateway
<1> QED BY <1>2, <1>4 DEF Fine, BleStatus, history

LEMMA TimeoutFollows ==
  ASSUME Types, NEW e \in Endpoint, Timeout(e),
         \A t \in Endpoint : Fine(t)
  PROVE  \A t \in Endpoint : Fine(t)'
<1>1. \E r \in Member(repeat') : r.id = e
  <2> DEFINE q == [pc |-> "value", id |-> e, state |-> stateButtonBLE]
  <2>1. q.id = e
    OBVIOUS
  <2>2. repeat' = <<q>>
    BY DEF Timeout
  <2> HIDE DEF q
  <2> QED BY <2>1, <2>2, MemberOfOne
<1>2. \A t \in Endpoint \ {e} : pending'[t] = pending[t]
  BY DEF Timeout, Types, DeviceTypes
<1>3. Member(repeat) = {}
  BY NoRepeat DEF Timeout
<1>4. \A t \in Endpoint : Announced(t) => Announced(t)'
  BY DEF Announced, Timeout
<1>5. \A t \in Endpoint : Coming(t) => Coming(t)'
  BY <1>1, <1>2, <1>3, <1>4 DEF Coming, Timeout
<1> QED BY <1>5 DEF Fine, Timeout, history

LEMMA RepeatFollows ==
  ASSUME Types, RepeatValue \/ RepeatFill, \A t \in Endpoint : Fine(t)
  PROVE  \A t \in Endpoint : Fine(t)'
<1>1. PICK q \in Call : repeat' = <<q>> /\ q.id = repeat[1].id
  BY RepeatMoved DEF RepeatValue, RepeatFill, Repeats
<1>2. Member(repeat) = {repeat[1]} /\ Member(repeat') = {q}
  BY <1>1, RepeatOne, MemberOfOne DEF RepeatValue, RepeatFill, Repeats
<1>3. \A t \in Endpoint : Announced(t) => Announced(t)'
  BY DEF Announced, RepeatValue, RepeatFill, radio
<1>4. \A t \in Endpoint : Coming(t) => Coming(t)'
  BY <1>1, <1>2, <1>3 DEF Coming, RepeatValue, RepeatFill, radio
<1> QED BY <1>4 DEF Fine, RepeatValue, RepeatFill, history

\* What is sent, or refused, leaves a command outstanding.
LEMMA SendKeeps ==
  ASSUME Types, NEW e \in Endpoint, NEW v \in State, Send(e, v)
  PROVE  /\ pending'[e] # "none"
         /\ \A t \in Endpoint : pending[t] # "none" => pending'[t] # "none"
         /\ \A t \in Endpoint : commands[t] # <<>> => commands'[t] # <<>>
<1>1. /\ pending'[e] # "none"
      /\ \A t \in Endpoint \ {e} :
           pending'[t] = pending[t] /\ commands'[t] = commands[t]
  BY Commanded
<1>2. commands[e] # <<>> => commands'[e] # <<>>
  BY CommandSent DEF Send
<1> QED BY <1>1, <1>2

LEMMA RepeatSendFollows ==
  ASSUME Types, RepeatSend, \A t \in Endpoint : Fine(t)
  PROVE  \A t \in Endpoint : Fine(t)'
<1> DEFINE q == repeat[1]
<1>1. Member(repeat) = {q} /\ q.id \in Endpoint /\ q.state \in State
  BY RepeatOne DEF RepeatSend, Repeats
<1>2. Send(q.id, q.state)
  BY DEF RepeatSend
<1> HIDE DEF q
<1>3. /\ pending'[q.id] # "none"
      /\ \A t \in Endpoint : pending[t] # "none" => pending'[t] # "none"
      /\ \A t \in Endpoint : commands[t] # <<>> => commands'[t] # <<>>
  BY <1>1, <1>2, SendKeeps
<1>4. \A t \in Endpoint : Announced(t) => Announced(t)'
  BY DEF Announced, RepeatSend
<1>5. \A t \in Endpoint : Coming(t) => Coming(t)'
  BY <1>1, <1>3, <1>4 DEF Coming, RepeatSend
<1> QED BY <1>5 DEF Fine, RepeatSend

\* Into queueIdButton: the report is gone, its item has come.
LEMMA OfferedAnnounced ==
  ASSUME Types, NEW e \in Endpoint, NEW v \in State, OfferId(e, v), ~ lost'
  PROVE  /\ Announced(e)'
         /\ Member(queueIdButton) \subseteq Member(queueIdButton')
<1> DEFINE x == [id |-> e, state |-> v]
<1>1. /\ x \in Member(queueIdButton') /\ x.id = e
      /\ Member(queueIdButton) \subseteq Member(queueIdButton')
  BY IdOffered
<1> HIDE DEF x
<1> QED BY <1>1 DEF Announced

LEMMA ReportedFollows ==
  ASSUME Types, NEW e \in Endpoint, ZigbeeReport(e) \/ BlePublish(e), ~ lost',
         \A t \in Endpoint : Fine(t)
  PROVE  \A t \in Endpoint : Fine(t)'
<1>1. \A t \in Endpoint \ {e} : reports'[t] = reports[t]
  BY ReportTaken DEF ZigbeeReport, BlePublish
<1>2. Announced(e)' /\ Member(queueIdButton) \subseteq Member(queueIdButton')
  BY OfferedAnnounced, ZigbeeReportTypes, BlePublishTypes DEF BlePublish
<1>3. /\ mqtt' = mqtt /\ commands' = commands /\ pending' = pending
      /\ queueCmdZigbee' = queueCmdZigbee /\ queueCmdBLE' = queueCmdBLE
      /\ tokens' = tokens /\ state' = state /\ wanted' = wanted
      /\ repeat' = repeat
  BY DEF ZigbeeReport, BlePublish
<1>4. \A t \in Endpoint : Announced(t) => Announced(t)'
  BY <1>1, <1>2, <1>3 DEF Announced
<1>5. \A t \in Endpoint : Coming(t) => Coming(t)'
  BY <1>3, <1>4 DEF Coming
<1> QED BY <1>3, <1>5 DEF Fine

LEMMA MqttLinkFollows ==
  ASSUME Types, MqttLink, ~ lost', \A t \in Endpoint : Fine(t)
  PROVE  \A t \in Endpoint : Fine(t)'
<1>1. PICK e \in Endpoint, v \in State :
        /\ \A x \in Member(mqtt) : x.id = e
        /\ OfferId(e, v)
  BY MqttLinkTypes
<1>2. Announced(e)' /\ Member(queueIdButton) \subseteq Member(queueIdButton')
  BY <1>1, OfferedAnnounced
<1>3. \A t \in Endpoint : Announced(t) => Announced(t)'
  BY <1>1, <1>2 DEF Announced, MqttLink, radio
<1>4. \A t \in Endpoint : Coming(t) => Coming(t)'
  BY <1>3 DEF Coming, MqttLink, radio
<1> QED BY <1>4 DEF Fine, MqttLink

\* The members of the button's link are copied into tokens.
LEMMA LookUpFollows ==
  ASSUME Types, LookUp, \A t \in Endpoint : Fine(t)
  PROVE  \A t \in Endpoint : Fine(t)'
<1> DEFINE x == Head(queueIdButton)
<1>1. /\ Member(queueIdButton) = Member(queueIdButton') \cup {x}
      /\ tokens' = Targets[x.id]
  BY LookUpTypes DEF LookUp
<1> HIDE DEF x
<1>2. \A t \in Endpoint : Announced(t) => Announced(t)' \/ t = x.id
  BY <1>1 DEF Announced, LookUp, radio
<1>3. Member(tokens) = {}
  BY MemberOfEmpty DEF LookUp
<1>4. ASSUME NEW t \in Endpoint, Coming(t) PROVE Coming(t)'
  <2>1. CASE \E u \in Endpoint : Announced(u) /\ t \in Member(Targets[u])
    BY <1>1, <1>2, <2>1 DEF Coming
  <2>2. CASE ~ \E u \in Endpoint : Announced(u) /\ t \in Member(Targets[u])
    BY <1>3, <1>4, <2>2 DEF Coming, LookUp, radio
  <2> QED BY <2>1, <2>2
<1> QED BY <1>4 DEF Fine, LookUp, history

LEMMA DealFollows ==
  ASSUME Types, Deal, ~ lost', \A t \in Endpoint : Fine(t)
  PROVE  \A t \in Endpoint : Fine(t)'
<1> DEFINE x == [id |-> Head(tokens), state |-> item]
<1>1. /\ Member(tokens) = Member(tokens') \cup {Head(tokens)}
      /\ Member(queueCmdZigbee) \subseteq Member(queueCmdZigbee')
      /\ Member(queueCmdBLE) \subseteq Member(queueCmdBLE')
      /\ x \in Member(queueCmdZigbee') \cup Member(queueCmdBLE')
      /\ x.id = Head(tokens)
  BY DealTypes
<1> HIDE DEF x
<1>2. \A t \in Endpoint : Announced(t) => Announced(t)'
  BY DEF Announced, Deal, radio
<1>3. \A t \in Endpoint : Coming(t) => Coming(t)'
  BY <1>1, <1>2 DEF Coming, Deal, radio
<1> QED BY <1>3 DEF Fine, Deal

LEMMA SendCommandZigbeeFollows ==
  ASSUME Types, SendCommandZigbee, \A t \in Endpoint : Fine(t)
  PROVE  \A t \in Endpoint : Fine(t)'
<1> DEFINE x == Head(queueCmdZigbee)
<1>1. /\ x.id \in Endpoint /\ x.id \notin Ble
      /\ Member(queueCmdZigbee) = Member(queueCmdZigbee') \cup {x}
      /\ commands'[x.id] # <<>>
      /\ \A t \in Endpoint \ {x.id} : commands'[t] = commands[t]
  BY SendCommandZigbeeTypes
<1> HIDE DEF x
<1>2. \A t \in Endpoint : Announced(t) => Announced(t)'
  BY DEF Announced, SendCommandZigbee
<1>3. \A t \in Endpoint : Coming(t) => Coming(t)'
  BY <1>1, <1>2 DEF Coming, SendCommandZigbee
<1> QED BY <1>3 DEF Fine, SendCommandZigbee, history

LEMMA SendCommandBLEFollows ==
  ASSUME Types, SendCommandBLE, ~ lost', \A t \in Endpoint : Fine(t)
  PROVE  \A t \in Endpoint : Fine(t)'
<1> DEFINE x == Head(queueCmdBLE)
<1>1. /\ x \in Item /\ x.id \in Endpoint /\ x.state \in State
      /\ Send(x.id, x.state)
      /\ repeat' = [i \in DOMAIN repeat |-> Overtaken(repeat[i], x)]
      /\ \A r \in Member(repeat) : ~ Spoilt(r, x)
      /\ Member(queueCmdBLE) = Member(queueCmdBLE') \cup {x}
  BY SendCommandBLETypes
<1> HIDE DEF x
<1>2. /\ pending'[x.id] # "none"
      /\ \A t \in Endpoint : pending[t] # "none" => pending'[t] # "none"
      /\ \A t \in Endpoint : commands[t] # <<>> => commands'[t] # <<>>
  BY <1>1, SendKeeps
<1>3. ASSUME NEW t, \E r \in Member(repeat) : r.id = t
      PROVE  \E r \in Member(repeat') : r.id = t
  <2>1. ~ TaskFree
    BY <1>3, NoRepeat
  <2>2. /\ Member(repeat) = {repeat[1]} /\ repeat[1] \in Call
        /\ Member(repeat') = {Overtaken(repeat[1], x)}
    BY <1>1, <2>1, RepeatOne, RepeatOvertaken, MemberOfOne
  <2>3. Overtaken(repeat[1], x).id = repeat[1].id
    BY <1>1, <2>2, NotSpoilt
  <2> QED BY <1>3, <2>2, <2>3
<1>4. \A t \in Endpoint : Announced(t) => Announced(t)'
  BY DEF Announced, SendCommandBLE
<1>5. \A t \in Endpoint : Coming(t) => Coming(t)'
  BY <1>1, <1>2, <1>3, <1>4 DEF Coming, SendCommandBLE
<1> QED BY <1>5 DEF Fine, SendCommandBLE

\* What a full queue or the stack dropped stays recorded.
LEMMA LostStays == Types /\ [Next]_vars /\ ~ lost' => ~ lost
<1> SUFFICES ASSUME Types, [Next]_vars, ~ lost' PROVE ~ lost
  OBVIOUS
<1>1. ASSUME NEW e \in Endpoint,
             \/ Press(e) \/ OtherReport(e) \/ Execute(e) \/ LoseCommand(e)
             \/ LoseStatus(e) \/ Timeout(e) \/ BleStatus(e)
      PROVE  ~ lost
  BY <1>1 DEF Press, OtherReport, Execute, LoseCommand, LoseStatus, Timeout,
     BleStatus, history
<1>2. ASSUME NEW e \in Endpoint, MqttOnOff(e) PROVE ~ lost
  <2>1. CASE e \in Ble
    BY <1>2, <2>1 DEF MqttOnOff
  <2>2. CASE e \notin Ble
    BY <1>2, <2>2 DEF MqttOnOff
  <2> QED BY <2>1, <2>2
<1>3. ASSUME NEW e \in Endpoint, ZigbeeReport(e) \/ BlePublish(e) PROVE ~ lost
  BY <1>3 DEF ZigbeeReport, BlePublish, OfferId
<1>4. CASE MqttLink
  BY <1>4 DEF MqttLink, OfferId
<1>5. CASE LookUp \/ SendCommandZigbee
  BY <1>5 DEF LookUp, SendCommandZigbee, history
<1>6. CASE Deal
  BY <1>6, DealTypes
<1>7. CASE SendCommandBLE
  BY <1>7 DEF SendCommandBLE
<1>8. CASE Repetition
  BY <1>8 DEF Repetition, RepeatValue, RepeatFill, RepeatSend, history
<1>9. CASE UNCHANGED vars
  BY <1>9 DEF vars, history
<1> QED BY <1>1, <1>2, <1>3, <1>4, <1>5, <1>6, <1>7, <1>8, <1>9 DEF Next, Tasks

LEMMA FollowsInit == Init => Follows
BY DEF Init, Follows, Fine

LEMMA FollowsStep == Inv /\ Follows /\ [Next]_vars => Follows'
<1> SUFFICES ASSUME Inv, Follows, [Next]_vars, OneAtATime, other' = 0, ~ lost'
             PROVE  \A t \in Endpoint : Fine(t)'
  BY DEF Follows
<1>1. other = 0 /\ (\A e \in Endpoint : ~ OtherReport(e)) /\ ~ lost
  BY OtherStays, LostStays DEF Inv
<1>2. PICK v \in State : AllCarry(v)
  BY <1>1 DEF Inv, Carried
<1>3. \A t \in Endpoint : Fine(t)
  BY <1>1 DEF Follows
<1>4. ASSUME NEW e \in Endpoint,
             \/ Press(e) \/ MqttOnOff(e) \/ Execute(e) \/ LoseCommand(e)
             \/ LoseStatus(e) \/ Timeout(e) \/ ZigbeeReport(e)
             \/ BleStatus(e) \/ BlePublish(e)
      PROVE  \A t \in Endpoint : Fine(t)'
  BY <1>2, <1>3, <1>4, PressFollows, MqttOnOffFollows, ExecuteFollows,
     LoseCommandFollows, LoseStatusFollows, TimeoutFollows, ReportedFollows,
     BleStatusFollows DEF Inv
<1>5. CASE Tasks
  BY <1>3, <1>5, MqttLinkFollows, LookUpFollows, DealFollows,
     SendCommandZigbeeFollows, SendCommandBLEFollows DEF Inv, Tasks
<1>6. CASE Repetition
  BY <1>3, <1>6, RepeatFollows, RepeatSendFollows DEF Inv, Repetition
<1>7. CASE UNCHANGED vars
  BY <1>3, <1>7 DEF vars, radio, gateway, history, Fine, Coming, Announced
<1> QED BY <1>1, <1>4, <1>5, <1>6, <1>7 DEF Next

\* When a press or command is settled every button of its link has the value,
\* unless a queue was full, the stack refused a command, or the repetition of
\* one was overtaken by a command to another button and went there.
THEOREM LinksFollow == Spec => []LinkedFollow
<1>1. Init => Inv /\ Follows
  BY TypesInit, WantedAgreeInit, CarriedInit, FollowsInit DEF Inv
<1>2. Inv /\ Follows /\ [Next]_vars => Inv' /\ Follows'
  BY TypesStep, WantedAgreeStep, CarriedStep, FollowsStep DEF Inv
<1>3. Inv /\ Follows => LinkedFollow
  <2> SUFFICES ASSUME Inv, Follows, OneAtATime, other = 0, Settled, ~ lost
               PROVE  state = wanted
    BY DEF LinkedFollow
  <2>1. \A e \in Endpoint : state[e] = wanted[e]
    BY SettledFine DEF Follows
  <2> QED BY <2>1 DEF Inv, Types, DeviceTypes
<1> QED BY <1>1, <1>2, <1>3, PTL DEF Spec
-----------------------------------------------------------------------------
(***************************************************************************)
(* Overlapping presses.  What the buttons of a link come to is settled by  *)
(* the report that left queueIdButton last: LinkOk says that every other   *)
(* button has its value or is on the way to it, or has reported something  *)
(* since.  A Zigbee button reports each change, so its newest report is    *)
(* its state (NewestInv).  A BLE button does not report what it is         *)
(* commanded; that its last command is still right is Sourced and          *)
(* Outdated: a Zigbee button has that value, or has reported another one.  *)
(* A command that is about to be repeated still counts as outstanding      *)
(* (held).                                                                 *)
(***************************************************************************)

LastOf(s) == s[Len(s)]
Has(s, k) == \E r \in Member(s) : r.kind = k
HasId(q, e) == \E x \in Member(q) : x.id = e
LastIs(q, e, v) ==
  \E i \in DOMAIN q :
    q[i].id = e /\ q[i].state = v /\ \A j \in DOMAIN q : j > i => q[j].id # e
OneStatus(s) ==
  \A i, j \in DOMAIN s : s[i].kind = "status" /\ s[j].kind = "status" => i = j

\* Reports of a button that have not left queueIdButton.
Fresh(e) == Has(reports[e], "button") \/ HasId(queueIdButton, e)
Newest(e) ==
  IF Has(reports[e], "button")
  THEN LastOf(reports[e]).kind = "button" /\ LastOf(reports[e]).value = state[e]
  ELSE LastIs(queueIdButton, e, state[e])
InFlight(e, v) ==
  \/ \E r \in Member(reports[e]) : r.kind = "button" /\ r.value = v
  \/ \E x \in Member(queueIdButton) : x.id = e /\ x.state = v

\* Commands that have not been sent.
Queue(e) == IF e \in Ble THEN queueCmdBLE ELSE queueCmdZigbee
InQueue(e) == e \in Member(tokens) \/ HasId(Queue(e), e)
ToBe(e, v) == IF e \in Member(tokens) THEN item = v ELSE LastIs(Queue(e), e, v)
Queued(e, v) ==
  \/ e \in Member(tokens) /\ item = v
  \/ \E x \in Member(Queue(e)) : x.id = e /\ x.state = v

\* What a Zigbee button comes to, and what it passes on the way.
Dest(e, v) ==
  IF InQueue(e) THEN ToBe(e, v)
  ELSE IF commands[e] # <<>> THEN LastOf(commands[e]) = v ELSE state[e] = v
Waiting(e, v) == Queued(e, v) \/ v \in Member(commands[e])
Changing(e) == \E v \in State \ {state[e]} : Waiting(e, v)
Stirred(e) == \E z \in Link(e) \ Ble : Fresh(z) \/ Changing(z)

\* What a BLE button was commanded and has not answered.
held ==
  [e \in Endpoint |->
     IF pending[e] = "none" /\ \E r \in Member(repeat) : r.id = e
     THEN repeat[1].state ELSE pending[e]]

Calm == issued + late + other = 0 /\ ~ lost /\ OneBle

\* The mesh stack has one copy of a command under way.
MeshInv ==
  /\ mqtt = <<>>
  /\ \A x \in Member(queueCmdBLE) : x.id \in Ble
  /\ \A e \in Endpoint : \A r \in Member(reports[e]) :
       r.kind # "other" /\ r.value \in State
  /\ \A e \in Endpoint : held[e] # "none" => e \in Ble
  /\ \A e \in Ble :
       /\ IF held[e] = "none"
          THEN commands[e] = <<>> /\ ~ Has(reports[e], "status")
          ELSE stateButtonBLE = held[e]
       /\ commands[e] # <<>> =>
            commands[e] = <<held[e]>> /\ ~ Has(reports[e], "status")
       /\ OneStatus(reports[e])

NewestInv == \A e \in Endpoint \ Ble : Fresh(e) => Newest(e)

LastCommand(b, d) == IF InQueue(b) THEN ToBe(b, d) ELSE held[b] = d

Source(z, d) ==
  state[z] = d \/ \E w \in State \ {d} : InFlight(z, w)

Sourced ==
  \A b \in Ble : InQueue(b) \/ held[b] # "none" =>
    \E d \in State : LastCommand(b, d) /\ \E z \in Link(b) \ Ble : Source(z, d)

Return(z, p, w) == InFlight(z, w) \/ (state[z] = p /\ Waiting(z, w))

Outdated ==
  \A b \in Ble : Has(reports[b], "status") /\ state[b] # held[b] =>
    \/ Newest(b)
    \/ Queued(b, state[b])
    \/ \E z \in Link(b) \ Ble : Return(z, held[b], state[b])

BleOk(b, v) ==
  IF InQueue(b)
  THEN ToBe(b, v)
  ELSE /\ held[b] # "none" => held[b] = v
       /\ held[b] = "none" \/ Has(reports[b], "status")
            => state[b] = v \/ Newest(b)

ZigbeeOk(z, s, v) == Fresh(z) \/ (IF z = s THEN state[z] = v ELSE Dest(z, v))

LinkOk(e) ==
  \E v \in State : \E s \in Link(e) :
    /\ \A z \in Link(e) \ Ble : ZigbeeOk(z, s, v)
    /\ Stirred(e) \/ \A b \in Link(e) \cap Ble : BleOk(b, v)

LinksOk == \A e \in Endpoint \ Ble : LinkOk(e)

Agreeing == MeshInv /\ NewestInv /\ Sourced /\ Outdated /\ LinksOk

\* Nothing is under way of a command that is about to be repeated.
RepeatInv ==
  \A r \in Member(repeat) :
    /\ held[r.id] = r.state
    /\ pending[r.id] = "none" =>
         commands[r.id] = <<>> /\ ~ Has(reports[r.id], "status")

LEMMA HeldType == Types => held \in [Endpoint -> State \cup {"none"}]
<1> SUFFICES ASSUME Types PROVE held \in [Endpoint -> State \cup {"none"}]
  OBVIOUS
<1>1. pending \in [Endpoint -> State \cup {"none"}]
  BY DEF Types, DeviceTypes
<1>2. CASE TaskFree
  BY <1>1, <1>2, NoRepeat DEF held
<1>3. CASE ~ TaskFree
  BY <1>1, <1>3, RepeatOne DEF held
<1> QED BY <1>2, <1>3

LEMMA HeldStays == ASSUME UNCHANGED <<pending, repeat>> PROVE held' = held
BY DEF held

LEMMA HeldFree == ASSUME Types, TaskFree PROVE held = pending
BY NoRepeat DEF held, Types, DeviceTypes

\* A call keeps its button and value.
LEMMA HeldMoved ==
  ASSUME Types, ~ TaskFree, pending' = pending,
         NEW q \in Call, repeat' = <<q>>,
         q.id = repeat[1].id, q.state = repeat[1].state
  PROVE  held' = held
<1>1. Member(repeat) = {repeat[1]} /\ Member(repeat') = {q} /\ repeat'[1] = q
  BY RepeatOne, MemberOfOne
<1> QED BY <1>1 DEF held

-----------------------------------------------------------------------------
(* The last element of a sequence, and the last one of a button *)

LEMMA LastAppend ==
  ASSUME NEW S, NEW s \in Seq(S), NEW x \in S
  PROVE  LastOf(Append(s, x)) = x
BY DEF LastOf

LEMMA LastTail ==
  ASSUME NEW S, NEW s \in Seq(S), s # <<>>
  PROVE  IF Tail(s) = <<>> THEN LastOf(s) = Head(s)
                           ELSE LastOf(Tail(s)) = LastOf(s)
<1>1. Len(s) \in Nat \ {0} /\ Len(Tail(s)) = Len(s) - 1 /\ Head(s) = s[1]
  OBVIOUS
<1>0. Tail(s) = <<>> <=> Len(Tail(s)) = 0
  <2>1. \A u \in Seq(S) : u = <<>> <=> Len(u) = 0
    OBVIOUS
  <2>2. Tail(s) \in Seq(S)
    OBVIOUS
  <2> QED BY <2>1, <2>2
<1>2. CASE Tail(s) = <<>>
  <2>1. Len(s) = 1
    BY <1>0, <1>1, <1>2
  <2> QED BY <1>1, <1>2, <2>1 DEF LastOf
<1>3. CASE Tail(s) # <<>>
  <2>1. Len(Tail(s)) # 0
    BY <1>0, <1>3
  <2>2. Tail(s)[Len(s) - 1] = s[Len(s)]
    BY <1>1, <2>1
  <2> QED BY <1>1, <1>3, <2>2 DEF LastOf
<1> QED BY <1>2, <1>3

LEMMA LastIsMember ==
  ASSUME NEW S, NEW s \in Seq(S), s # <<>>
  PROVE  LastOf(s) \in Member(s)
<1>1. Len(s) \in DOMAIN s
  OBVIOUS
<1> QED BY <1>1 DEF LastOf, Member

LEMMA LastIsFound ==
  ASSUME NEW q, NEW e, NEW v, LastIs(q, e, v)
  PROVE  /\ HasId(q, e)
         /\ \E x \in Member(q) : x.id = e /\ x.state = v
BY DEF LastIs, HasId, Member

LEMMA LastIsAppended ==
  ASSUME NEW q \in Seq(Item), NEW x \in Item, NEW e, NEW v
  PROVE  /\ x.id # e /\ LastIs(q, e, v) => LastIs(Append(q, x), e, v)
         /\ x.id = e => LastIs(Append(q, x), e, x.state)
<1>1. /\ DOMAIN Append(q, x) = 1 .. Len(q) + 1 /\ Len(q) \in Nat
      /\ DOMAIN q = 1 .. Len(q)
      /\ \A i \in DOMAIN q : Append(q, x)[i] = q[i]
      /\ Append(q, x)[Len(q) + 1] = x
  OBVIOUS
<1> DEFINE r == Append(q, x)
<1> HIDE DEF r
<1>2. ASSUME x.id # e, LastIs(q, e, v) PROVE LastIs(r, e, v)
  <2>1. PICK i \in DOMAIN q : /\ q[i].id = e /\ q[i].state = v
                              /\ \A j \in DOMAIN q : j > i => q[j].id # e
    BY <1>2 DEF LastIs
  <2>2. i \in DOMAIN r /\ r[i].id = e /\ r[i].state = v
    BY <1>1, <2>1 DEF r
  <2>3. ASSUME NEW j \in DOMAIN r, j > i PROVE r[j].id # e
    <3>1. CASE j \in DOMAIN q
      BY <1>1, <2>1, <2>3, <3>1 DEF r
    <3>2. CASE j = Len(q) + 1
      BY <1>1, <1>2, <3>2 DEF r
    <3> QED BY <1>1, <3>1, <3>2 DEF r
  <2> QED BY <2>2, <2>3 DEF LastIs
<1>3. ASSUME x.id = e PROVE LastIs(r, e, x.state)
  <2>1. Len(q) + 1 \in DOMAIN r /\ r[Len(q) + 1] = x
    BY <1>1 DEF r
  <2>2. \A j \in DOMAIN r : ~ (j > Len(q) + 1)
    BY <1>1 DEF r
  <2> QED BY <1>3, <2>1, <2>2 DEF LastIs
<1> QED BY <1>2, <1>3 DEF r

LEMMA LastIsOfTail ==
  ASSUME NEW q \in Seq(Item), q # <<>>, NEW e, NEW v, LastIs(q, e, v)
  PROVE  IF HasId(Tail(q), e) THEN LastIs(Tail(q), e, v)
         ELSE Head(q).id = e /\ Head(q).state = v
<1>1. /\ DOMAIN Tail(q) = 1 .. Len(q) - 1 /\ Len(q) \in Nat \ {0}
      /\ DOMAIN q = 1 .. Len(q) /\ Head(q) = q[1]
      /\ \A i \in DOMAIN Tail(q) : Tail(q)[i] = q[i + 1]
  OBVIOUS
<1> DEFINE r == Tail(q)
<1> HIDE DEF r
<1>2. PICK i \in DOMAIN q : /\ q[i].id = e /\ q[i].state = v
                            /\ \A j \in DOMAIN q : j > i => q[j].id # e
  BY DEF LastIs
<1>3. CASE i = 1
  <2>1. ASSUME NEW j \in DOMAIN r PROVE r[j].id # e
    <3>1. j + 1 \in DOMAIN q /\ j + 1 > 1 /\ r[j] = q[j + 1]
      BY <1>1, <2>1 DEF r
    <3> QED BY <1>2, <1>3, <3>1
  <2>2. ~ HasId(r, e)
    BY <2>1 DEF HasId, Member
  <2> QED BY <1>1, <1>2, <1>3, <2>2 DEF r
<1>4. CASE i # 1
  <2>1. i - 1 \in DOMAIN r /\ r[i - 1] = q[i]
    BY <1>1, <1>2, <1>4 DEF r
  <2>2. ASSUME NEW j \in DOMAIN r, j > i - 1 PROVE r[j].id # e
    <3>1. j + 1 \in DOMAIN q /\ j + 1 > i /\ r[j] = q[j + 1]
      BY <1>1, <1>2, <2>2 DEF r
    <3> QED BY <1>2, <3>1
  <2>3. LastIs(r, e, v)
    BY <1>2, <2>1, <2>2 DEF LastIs
  <2>4. HasId(r, e)
    BY <2>3, LastIsFound
  <2> QED BY <2>3, <2>4 DEF r
<1> QED BY <1>3, <1>4

LEMMA OneStatusAppended ==
  ASSUME NEW s \in Seq(ReportType), NEW r \in ReportType, OneStatus(s),
         r.kind # "status" \/ ~ Has(s, "status")
  PROVE  OneStatus(Append(s, r))
<1>1. /\ DOMAIN Append(s, r) = 1 .. Len(s) + 1 /\ Len(s) \in Nat
      /\ DOMAIN s = 1 .. Len(s)
      /\ \A i \in DOMAIN s : Append(s, r)[i] = s[i]
      /\ Append(s, r)[Len(s) + 1] = r
  OBVIOUS
<1> DEFINE q == Append(s, r)
<1> HIDE DEF q
<1>2. ASSUME NEW i \in DOMAIN q, NEW j \in DOMAIN q,
             q[i].kind = "status", q[j].kind = "status"
      PROVE  i = j
  <2>1. CASE i \in DOMAIN s /\ j \in DOMAIN s
    BY <1>1, <1>2, <2>1 DEF OneStatus, q
  <2>2. ASSUME NEW n \in DOMAIN s, q[n].kind = "status", r.kind = "status"
        PROVE  FALSE
    BY <1>1, <2>2 DEF Has, Member, q
  <2> QED BY <1>1, <1>2, <2>1, <2>2 DEF q
<1> QED BY <1>2 DEF OneStatus, q

LEMMA OneStatusOfTail ==
  ASSUME NEW s \in Seq(ReportType), s # <<>>, OneStatus(s)
  PROVE  /\ OneStatus(Tail(s))
         /\ Head(s).kind = "status" => ~ Has(Tail(s), "status")
<1>1. /\ DOMAIN Tail(s) = 1 .. Len(s) - 1 /\ Len(s) \in Nat \ {0}
      /\ DOMAIN s = 1 .. Len(s) /\ Head(s) = s[1]
      /\ \A i \in DOMAIN Tail(s) : Tail(s)[i] = s[i + 1]
  OBVIOUS
<1> DEFINE q == Tail(s)
<1> HIDE DEF q
<1>2. ASSUME NEW i \in DOMAIN q PROVE i + 1 \in DOMAIN s /\ q[i] = s[i + 1]
  BY <1>1, <1>2 DEF q
<1>3. OneStatus(q)
  <2>1. ASSUME NEW i \in DOMAIN q, NEW j \in DOMAIN q,
               q[i].kind = "status", q[j].kind = "status"
        PROVE  i = j
    <3>1. i + 1 = j + 1
      BY <1>2, <2>1 DEF OneStatus
    <3> QED BY <1>1, <3>1 DEF q
  <2> QED BY <2>1 DEF OneStatus
<1>4. ASSUME Head(s).kind = "status", NEW i \in DOMAIN q, q[i].kind = "status"
      PROVE  FALSE
  <2>1. 1 = i + 1
    BY <1>1, <1>2, <1>4 DEF OneStatus
  <2> QED BY <1>1, <2>1 DEF q
<1> QED BY <1>3, <1>4 DEF Has, Member, q
-----------------------------------------------------------------------------
(* What a step leaves alone *)

LEMMA SameReports ==
  ASSUME NEW t, reports'[t] = reports[t], queueIdButton' = queueIdButton
  PROVE  /\ Fresh(t)' <=> Fresh(t)
         /\ \A v : InFlight(t, v)' <=> InFlight(t, v)
         /\ state'[t] = state[t] => (Newest(t)' <=> Newest(t))
         /\ Has(reports[t], "status")' <=> Has(reports[t], "status")
<1>1. Fresh(t)' <=> Fresh(t)
  BY DEF Fresh
<1>2. \A v : InFlight(t, v)' <=> InFlight(t, v)
  BY DEF InFlight
<1>3. state'[t] = state[t] => (Newest(t)' <=> Newest(t))
  BY DEF Newest
<1>4. Has(reports[t], "status")' <=> Has(reports[t], "status")
  OBVIOUS
<1> QED BY <1>1, <1>2, <1>3, <1>4

SameQueues == UNCHANGED <<queueCmdZigbee, queueCmdBLE, tokens, item>>

LEMMA SameQueue ==
  ASSUME SameQueues, NEW t
  PROVE  /\ InQueue(t)' <=> InQueue(t)
         /\ \A v : ToBe(t, v)' <=> ToBe(t, v)
         /\ \A v : Queued(t, v)' <=> Queued(t, v)
<1>1. Queue(t)' = Queue(t) /\ tokens' = tokens /\ item' = item
  BY DEF SameQueues, Queue
<1>2. InQueue(t)' <=> InQueue(t)
  BY <1>1 DEF InQueue
<1>3. \A v : ToBe(t, v)' <=> ToBe(t, v)
  BY <1>1 DEF ToBe
<1>4. \A v : Queued(t, v)' <=> Queued(t, v)
  BY <1>1 DEF Queued
<1> QED BY <1>2, <1>3, <1>4

LEMMA SameCommands ==
  ASSUME SameQueues, NEW t, commands'[t] = commands[t]
  PROVE  /\ \A v : Waiting(t, v)' <=> Waiting(t, v)
         /\ state'[t] = state[t] =>
              (Changing(t)' <=> Changing(t)) /\ \A v : Dest(t, v)' <=> Dest(t, v)
<1>1. \A v : Waiting(t, v)' <=> Waiting(t, v)
  BY SameQueue DEF Waiting
<1>2. ASSUME state'[t] = state[t]
      PROVE  (Changing(t)' <=> Changing(t)) /\ \A v : Dest(t, v)' <=> Dest(t, v)
  <2>1. Changing(t)' <=> Changing(t)
    BY <1>1, <1>2 DEF Changing
  <2>2. \A v : Dest(t, v)' <=> Dest(t, v)
    BY <1>2, SameQueue DEF Dest
  <2> QED BY <2>1, <2>2
<1> QED BY <1>1, <1>2

LEMMA NewestFresh ==
  ASSUME NEW t, Newest(t)
  PROVE  Fresh(t)
BY LastIsFound DEF Newest, Fresh

LEMMA NewestInFlight ==
  ASSUME Types, NEW t \in Endpoint, Newest(t)
  PROVE  InFlight(t, state[t])
<1>1. CASE Has(reports[t], "button")
  <2>1. reports[t] \in Seq(ReportType) /\ reports[t] # <<>>
    BY <1>1, ReportsType, MemberOfEmpty DEF Has
  <2>2. LastOf(reports[t]) \in Member(reports[t])
    BY <2>1, LastIsMember
  <2> QED BY <1>1, <2>2 DEF Newest, InFlight
<1>2. CASE ~ Has(reports[t], "button")
  BY <1>2, LastIsFound DEF Newest, InFlight
<1> QED BY <1>1, <1>2

LEMMA InFlightFresh ==
  ASSUME NEW t, NEW v, InFlight(t, v)
  PROVE  Fresh(t)
BY DEF InFlight, Fresh, Has, HasId

LEMMA TwoStates ==
  ASSUME NEW u \in State, NEW v \in State, NEW w \in State, u # v, w # v
  PROVE  u = w
BY DEF State

\* A report is sent.
LEMMA Sent ==
  ASSUME Types, NEW e \in Endpoint, NEW r \in ReportType,
         reports' = Push(reports, e, r), queueIdButton' = queueIdButton
  PROVE  /\ \A t \in Endpoint \ {e} : reports'[t] = reports[t]
         /\ Member(reports'[e]) = Member(reports[e]) \cup {r}
         /\ LastOf(reports'[e]) = r
         /\ OneStatus(reports[e]) /\ (r.kind # "status" \/ ~ Has(reports[e], "status"))
              => OneStatus(reports'[e])
         /\ Fresh(e) => Fresh(e)'
         /\ \A v : InFlight(e, v) => InFlight(e, v)'
         /\ r.kind = "button" =>
              /\ Fresh(e)' /\ InFlight(e, r.value)'
              /\ state'[e] = r.value => Newest(e)'
<1>1. /\ \A t \in Endpoint \ {e} : reports'[t] = reports[t]
      /\ Member(reports'[e]) = Member(reports[e]) \cup {r}
  BY ReportSent
<1>2. reports'[e] = Append(reports[e], r) /\ reports[e] \in Seq(ReportType)
  BY ReportsType DEF Push
<1>3. LastOf(reports'[e]) = r
  BY <1>2, LastAppend
<1>4. OneStatus(reports[e]) /\ (r.kind # "status" \/ ~ Has(reports[e], "status"))
        => OneStatus(reports'[e])
  BY <1>2, OneStatusAppended
<1>5. Fresh(e) => Fresh(e)'
  BY <1>1 DEF Fresh, Has
<1>6. \A v : InFlight(e, v) => InFlight(e, v)'
  BY <1>1 DEF InFlight
<1>7. ASSUME r.kind = "button" PROVE Has(reports'[e], "button")
  BY <1>1, <1>7 DEF Has
<1>8. ASSUME r.kind = "button"
      PROVE  /\ Fresh(e)' /\ InFlight(e, r.value)'
             /\ state'[e] = r.value => Newest(e)'
  <2>1. Fresh(e)'
    BY <1>7, <1>8 DEF Fresh
  <2>2. InFlight(e, r.value)'
    BY <1>1, <1>8 DEF InFlight
  <2>3. state'[e] = r.value => Newest(e)'
    BY <1>3, <1>7, <1>8 DEF Newest
  <2> QED BY <2>1, <2>2, <2>3
<1> QED BY <1>1, <1>3, <1>4, <1>5, <1>6, <1>8

\* Links whose buttons keep what makes them good.
LEMMA LinksKept ==
  ASSUME Agreeing,
         \A z \in Endpoint \ Ble :
           /\ \A s : \A d \in State : ZigbeeOk(z, s, d) => ZigbeeOk(z, s, d)'
           /\ Fresh(z) \/ Changing(z) => Fresh(z)' \/ Changing(z)',
         \A b \in Ble : \A d \in State : BleOk(b, d) => BleOk(b, d)'
  PROVE  LinksOk'
<1> SUFFICES ASSUME NEW u \in Endpoint \ Ble PROVE LinkOk(u)'
  BY DEF LinksOk
<1>1. PICK d \in State, s \in Link(u) :
        /\ \A z \in Link(u) \ Ble : ZigbeeOk(z, s, d)
        /\ Stirred(u) \/ \A b \in Link(u) \cap Ble : BleOk(b, d)
  BY DEF Agreeing, LinksOk, LinkOk
<1>2. Link(u) \subseteq Endpoint
  BY TargetsType
<1>3. \A z \in Link(u) \ Ble : ZigbeeOk(z, s, d)'
  BY <1>1, <1>2
<1>4. Stirred(u) => Stirred(u)'
  BY <1>2 DEF Stirred
<1> QED BY <1>1, <1>3, <1>4 DEF LinkOk

LEMMA SourcedKept ==
  ASSUME Agreeing,
         \A b \in Ble :
           /\ InQueue(b)' \/ held'[b] # "none"
                => InQueue(b) \/ held[b] # "none"
           /\ InQueue(b)' \/ held'[b] # "none"
                => \A d \in State : LastCommand(b, d) => LastCommand(b, d)',
         \A z \in Endpoint \ Ble : \A d \in State : Source(z, d) => Source(z, d)'
  PROVE  Sourced'
<1> SUFFICES ASSUME NEW b \in Ble, InQueue(b)' \/ held'[b] # "none"
             PROVE  \E d \in State : LastCommand(b, d)'
                       /\ \E z \in Link(b) \ Ble : Source(z, d)'
  BY DEF Sourced
<1>1. PICK d \in State : LastCommand(b, d) /\ \E z \in Link(b) \ Ble : Source(z, d)
  BY DEF Agreeing, Sourced
<1>2. Link(b) \subseteq Endpoint
  BY LinkAssumption, TargetsType
<1> QED BY <1>1, <1>2

\* A status that is still right, or a command that will find it out.
LEMMA OutdatedKept ==
  ASSUME Types, Agreeing,
         \A b \in Ble :
           /\ Has(reports'[b], "status") /\ state'[b] # held'[b] =>
                \/ Newest(b)'
                \/ /\ Has(reports[b], "status") /\ ~ Newest(b)
                   /\ state'[b] = state[b] /\ held'[b] = held[b]
           /\ \A w : Queued(b, w) => Queued(b, w)',
         \A z \in Endpoint \ Ble : \A p, w \in State :
           w # p /\ Return(z, p, w) => Return(z, p, w)'
  PROVE  Outdated'
<1> SUFFICES ASSUME NEW b \in Ble, Has(reports'[b], "status"),
                    state'[b] # held'[b], ~ Newest(b)'
             PROVE  \/ Queued(b, state[b])'
                    \/ \E z \in Link(b) \ Ble : Return(z, held[b], state[b])'
  BY DEF Outdated
<1>1. /\ Has(reports[b], "status") /\ ~ Newest(b)
      /\ state'[b] = state[b] /\ held'[b] = held[b]
  OBVIOUS
<1>2. PICK p \in State, w \in State : p = held[b] /\ w = state[b]
  <2>1. b \in Endpoint /\ held[b] # "none"
    BY <1>1, LinkAssumption DEF Agreeing, MeshInv
  <2> QED BY <2>1, HeldType DEF Types, DeviceTypes
<1>3. w # p /\ Link(b) \subseteq Endpoint
  BY <1>1, <1>2, LinkAssumption, TargetsType
<1>4. CASE Queued(b, w)
  BY <1>1, <1>2, <1>4
<1>5. ASSUME NEW z \in Link(b) \ Ble, Return(z, p, w)
      PROVE  Return(z, held[b], state[b])'
  <2>1. Return(z, p, w)'
    BY <1>3, <1>5
  <2> QED BY <1>1, <1>2, <2>1
<1> QED BY <1>1, <1>2, <1>4, <1>5 DEF Agreeing, Outdated

LEMMA PressAgreeing ==
  ASSUME Types, Calm, Agreeing, NEW e \in Endpoint, Press(e)
  PROVE  Agreeing'
<1>1. PICK v \in State \ {state[e]} :
        /\ state' = [state EXCEPT ![e] = v]
        /\ reports' = Push(reports, e, Report("button", v))
  BY DEF Press
<1>2. PICK r \in ReportType :
        r = Report("button", v) /\ r.kind = "button" /\ r.value = v
  BY ReportInType
<1>3. /\ queueIdButton' = queueIdButton /\ commands' = commands
      /\ held' = held /\ stateButtonBLE' = stateButtonBLE /\ mqtt' = mqtt
      /\ queueCmdBLE' = queueCmdBLE /\ SameQueues
  BY HeldStays DEF Press, gateway, SameQueues
<1>4. /\ \A t \in Endpoint \ {e} : reports'[t] = reports[t]
      /\ Member(reports'[e]) = Member(reports[e]) \cup {r}
      /\ OneStatus(reports[e]) => OneStatus(reports'[e])
      /\ Fresh(e)' /\ Newest(e)' /\ InFlight(e, v)'
      /\ \A w : InFlight(e, w) => InFlight(e, w)'
  <2>1. state'[e] = v
    BY <1>1 DEF Types, DeviceTypes
  <2> QED BY <1>1, <1>2, <1>3, <2>1, Sent
<1>5. /\ state'[e] = v /\ v # state[e] /\ v \in State
      /\ \A t \in Endpoint \ {e} : state'[t] = state[t]
      /\ \A t \in Endpoint : state[t] \in State
  BY <1>1 DEF Types, DeviceTypes
<1>6. \A t \in Endpoint :
        Has(reports[t], "status")' <=> Has(reports[t], "status")
  <2>1. Has(reports'[e], "status") <=> Has(reports[e], "status")
    BY <1>2, <1>4 DEF Has
  <2> QED BY <1>4, <2>1
<1>7. MeshInv'
  <2>1. \A t \in Endpoint : \A x \in Member(reports'[t]) :
          x.kind # "other" /\ x.value \in State
    BY <1>2, <1>4, <1>5 DEF Agreeing, MeshInv
  <2>2. \A t \in Ble :
          (OneStatus(reports[t]) => OneStatus(reports'[t])) /\ t \in Endpoint
    BY <1>4, LinkAssumption
  <2> QED BY <1>3, <1>6, <2>1, <2>2 DEF Agreeing, MeshInv
<1>8. NewestInv'
  BY <1>3, <1>4, <1>5, SameReports DEF Agreeing, NewestInv
<1>9. ASSUME NEW z \in Endpoint, NEW d \in State, Source(z, d)
      PROVE  Source(z, d)'
  <2>1. CASE z = e
    BY <1>4, <1>5, <1>9, <2>1 DEF Source
  <2>2. CASE z # e
    BY <1>3, <1>4, <1>5, <1>9, <2>2, SameReports DEF Source
  <2> QED BY <2>1, <2>2
<1>10. Sourced'
  <2>1. ASSUME NEW b \in Ble
        PROVE  /\ InQueue(b)' \/ held'[b] # "none"
                    => InQueue(b) \/ held[b] # "none"
               /\ \A d \in State : LastCommand(b, d) => LastCommand(b, d)'
    BY <1>3, SameQueue DEF LastCommand
  <2> QED BY <1>9, <2>1, SourcedKept
<1>11. ASSUME NEW z \in Endpoint, NEW p \in State, NEW w \in State, w # p,
              Return(z, p, w)
       PROVE  Return(z, p, w)'
  <2>1. CASE z = e
    <3>1. CASE InFlight(z, w)
      BY <1>4, <2>1, <3>1 DEF Return
    <3>2. CASE state[z] = p
      <4>1. v = w
        BY <1>5, <1>11, <2>1, <3>2, TwoStates
      <4> QED BY <1>4, <2>1, <4>1 DEF Return
    <3> QED BY <1>11, <3>1, <3>2 DEF Return
  <2>2. CASE z # e
    <3>1. \A u : InFlight(z, u)' <=> InFlight(z, u)
      BY <1>3, <1>4, <2>2, SameReports
    <3>2. \A u : Waiting(z, u)' <=> Waiting(z, u)
      BY <1>3, SameCommands
    <3> QED BY <1>5, <1>11, <2>2, <3>1, <3>2 DEF Return
  <2> QED BY <2>1, <2>2
<1>12. Outdated'
  <2>1. ASSUME NEW b \in Ble
        PROVE  /\ Has(reports'[b], "status") /\ state'[b] # held'[b] =>
                    \/ Newest(b)'
                    \/ /\ Has(reports[b], "status") /\ ~ Newest(b)
                       /\ state'[b] = state[b] /\ held'[b] = held[b]
               /\ \A w : Queued(b, w) => Queued(b, w)'
    <3>1. b \in Endpoint
      BY LinkAssumption
    <3>2. CASE b = e
      BY <1>3, <1>4, <3>2, SameQueue
    <3>3. CASE b # e
      BY <1>3, <1>4, <1>5, <1>6, <3>1, <3>3, SameReports, SameQueue
    <3> QED BY <3>2, <3>3
  <2> QED BY <1>11, <2>1, OutdatedKept
<1>13. LinksOk'
  <2>1. ASSUME NEW z \in Endpoint \ Ble
        PROVE  /\ \A s : \A d \in State : ZigbeeOk(z, s, d) => ZigbeeOk(z, s, d)'
               /\ Fresh(z) \/ Changing(z) => Fresh(z)' \/ Changing(z)'
    <3>1. CASE z = e
      BY <1>4, <3>1 DEF ZigbeeOk
    <3>2. CASE z # e
      BY <1>3, <1>4, <1>5, <3>2, SameReports, SameCommands DEF ZigbeeOk
    <3> QED BY <3>1, <3>2
  <2>2. ASSUME NEW b \in Ble, NEW d \in State, BleOk(b, d)
        PROVE  BleOk(b, d)'
    <3>1. CASE b = e
      BY <1>3, <1>4, <2>2, <3>1, SameQueue DEF BleOk
    <3>2. CASE b # e
      <4>1. b \in Endpoint
        BY LinkAssumption
      <4> QED BY <1>3, <1>4, <1>5, <2>2, <3>2, <4>1, SameReports, SameQueue
              DEF BleOk
    <3> QED BY <3>1, <3>2
  <2> QED BY <2>1, <2>2, LinksKept
<1> QED BY <1>7, <1>8, <1>10, <1>12, <1>13 DEF Agreeing
\* A Zigbee button reports what changes it.
LEMMA ExecuteZigbeeAgreeing ==
  ASSUME Types, Calm, Agreeing, NEW e \in Endpoint \ Ble, Execute(e)
  PROVE  Agreeing'
<1>1. PICK c \in State : c = Head(commands[e])
  BY CommandTaken DEF Execute
<1>2. /\ Member(commands[e]) = Member(commands'[e]) \cup {c}
      /\ \A t \in Endpoint \ {e} : commands'[t] = commands[t]
      /\ commands[e] # <<>>
      /\ IF commands'[e] = <<>> THEN LastOf(commands[e]) = c
                                ELSE LastOf(commands'[e]) = LastOf(commands[e])
  <2>1. commands[e] \in Seq(State) /\ commands'[e] = Tail(commands[e])
    BY DEF Types, DeviceTypes, Execute, Pop
  <2> QED BY <1>1, <2>1, CommandTaken, LastTail DEF Execute
<1>3. /\ queueIdButton' = queueIdButton
      /\ held' = held /\ stateButtonBLE' = stateButtonBLE /\ mqtt' = mqtt
      /\ queueCmdBLE' = queueCmdBLE /\ SameQueues
  BY HeldStays DEF Execute, gateway, SameQueues
<1>4. /\ state'[e] = c
      /\ \A t \in Endpoint \ {e} : state'[t] = state[t]
      /\ \A t \in Endpoint : state[t] \in State
  BY <1>1 DEF Execute, Types, DeviceTypes
<1>5. /\ \A t \in Endpoint \ {e} : reports'[t] = reports[t]
      /\ \A x \in Member(reports'[e]) :
           \/ x \in Member(reports[e])
           \/ x.kind = "button" /\ x.value = c
      /\ \A w : InFlight(e, w) => InFlight(e, w)'
      /\ IF c = state[e] THEN reports'[e] = reports[e]
         ELSE Fresh(e)' /\ Newest(e)' /\ InFlight(e, c)'
  <2>1. CASE c = state[e]
    <3>1. reports' = reports
      BY <1>1, <2>1 DEF Execute
    <3> QED BY <1>3, <2>1, <3>1, SameReports
  <2>2. CASE c # state[e]
    <3>1. PICK r \in ReportType :
            r = Report("button", c) /\ r.kind = "button" /\ r.value = c
      BY ReportInType
    <3>2. reports' = Push(reports, e, r)
      BY <1>1, <2>2, <3>1 DEF Execute
    <3> QED BY <1>3, <1>4, <2>2, <3>1, <3>2, Sent
  <2> QED BY <2>1, <2>2
<1>6. ASSUME NEW b \in Ble
      PROVE  /\ b \in Endpoint /\ b # e /\ state'[b] = state[b]
             /\ reports'[b] = reports[b] /\ commands'[b] = commands[b]
             /\ Newest(b)' <=> Newest(b)
  BY <1>2, <1>3, <1>4, <1>5, LinkAssumption, SameReports
<1>7. MeshInv'
  <2>1. \A t \in Endpoint : \A x \in Member(reports'[t]) :
          x.kind # "other" /\ x.value \in State
    BY <1>5 DEF Agreeing, MeshInv
  <2> QED BY <1>3, <1>6, <2>1 DEF Agreeing, MeshInv
<1>8. NewestInv'
  <2>1. ASSUME NEW z \in Endpoint \ Ble, Fresh(z)' PROVE Newest(z)'
    <3>1. CASE z = e /\ c # state[e]
      BY <1>5, <3>1
    <3>2. CASE z = e => c = state[e]
      BY <1>3, <1>4, <1>5, <2>1, <3>2, SameReports DEF Agreeing, NewestInv
    <3> QED BY <3>1, <3>2
  <2> QED BY <2>1 DEF NewestInv
<1>9. ASSUME NEW z \in Endpoint, NEW d \in State, Source(z, d)
      PROVE  Source(z, d)'
  <2>1. CASE z = e
    BY <1>1, <1>4, <1>5, <1>9, <2>1 DEF Source
  <2>2. CASE z # e
    BY <1>3, <1>4, <1>5, <1>9, <2>2, SameReports DEF Source
  <2> QED BY <2>1, <2>2
<1>10. Sourced'
  <2>1. ASSUME NEW b \in Ble
        PROVE  /\ InQueue(b)' \/ held'[b] # "none"
                    => InQueue(b) \/ held[b] # "none"
               /\ \A d \in State : LastCommand(b, d) => LastCommand(b, d)'
    BY <1>3, SameQueue DEF LastCommand
  <2> QED BY <1>9, <2>1, SourcedKept
<1>11. ASSUME NEW z \in Endpoint, NEW p \in State, NEW w \in State, w # p,
              Return(z, p, w)
       PROVE  Return(z, p, w)'
  <2>1. CASE z = e /\ InFlight(z, w)
    BY <1>5, <2>1 DEF Return
  <2>2. CASE z = e /\ state[z] = p /\ c # state[e]
    <3>1. c = w
      BY <1>1, <1>11, <2>2, TwoStates
    <3> QED BY <1>5, <2>2, <3>1 DEF Return
  <2>3. CASE z = e /\ state[z] = p /\ Waiting(z, w) /\ c = state[e]
    <3>1. Waiting(z, w)'
      BY <1>2, <1>3, <1>11, <2>3, SameQueue DEF Waiting
    <3> QED BY <1>4, <2>3, <3>1 DEF Return
  <2>4. CASE z # e
    <3>1. \A u : InFlight(z, u)' <=> InFlight(z, u)
      BY <1>3, <1>5, <2>4, SameReports
    <3>2. \A u : Waiting(z, u)' <=> Waiting(z, u)
      BY <1>2, <1>3, <2>4, SameCommands
    <3> QED BY <1>4, <1>11, <2>4, <3>1, <3>2 DEF Return
  <2> QED BY <1>11, <2>1, <2>2, <2>3, <2>4 DEF Return
<1>12. Outdated'
  <2>1. ASSUME NEW b \in Ble
        PROVE  /\ Has(reports'[b], "status") /\ state'[b] # held'[b] =>
                    \/ Newest(b)'
                    \/ /\ Has(reports[b], "status") /\ ~ Newest(b)
                       /\ state'[b] = state[b] /\ held'[b] = held[b]
               /\ \A w : Queued(b, w) => Queued(b, w)'
    BY <1>3, <1>6, SameQueue
  <2> QED BY <1>11, <2>1, OutdatedKept
<1>13. LinksOk'
  <2>1. ASSUME NEW z \in Endpoint \ Ble
        PROVE  /\ \A s : \A d \in State : ZigbeeOk(z, s, d) => ZigbeeOk(z, s, d)'
               /\ Fresh(z) \/ Changing(z) => Fresh(z)' \/ Changing(z)'
    <3>1. CASE z = e /\ c # state[e]
      BY <1>5, <3>1 DEF ZigbeeOk
    <3>2. CASE z = e /\ c = state[e]
      <4>1. (Fresh(z) => Fresh(z)') /\ state'[z] = state[z]
        BY <1>3, <1>4, <1>5, <3>2, SameReports
      <4>2. \A d \in State : Dest(z, d) => Dest(z, d)'
        BY <1>2, <1>3, <1>4, <3>2, SameQueue DEF Dest
      <4>3. Changing(z) => Changing(z)'
        BY <1>2, <1>3, <3>2, <4>1, SameQueue DEF Changing, Waiting
      <4> QED BY <4>1, <4>2, <4>3 DEF ZigbeeOk
    <3>3. CASE z # e
      BY <1>2, <1>3, <1>4, <1>5, <3>3, SameReports, SameCommands DEF ZigbeeOk
    <3> QED BY <3>1, <3>2, <3>3
  <2>2. ASSUME NEW b \in Ble, NEW d \in State, BleOk(b, d)
        PROVE  BleOk(b, d)'
    BY <1>3, <1>6, <2>2, SameQueue DEF BleOk
  <2> QED BY <2>1, <2>2, LinksKept
<1> QED BY <1>7, <1>8, <1>10, <1>12, <1>13 DEF Agreeing
\* A BLE button that is switched has what the stack is waiting for.
LEMMA ExecuteBleAgreeing ==
  ASSUME Types, Calm, Agreeing, NEW e \in Ble, Execute(e)
  PROVE  Agreeing'
<1>1. /\ e \in Endpoint /\ commands[e] = <<held[e]>>
      /\ Head(commands[e]) = held[e] /\ held[e] \in State
      /\ ~ Has(reports[e], "status") /\ OneStatus(reports[e])
  <2>1. e \in Endpoint /\ commands[e] = <<held[e]>>
        /\ ~ Has(reports[e], "status") /\ OneStatus(reports[e])
    BY LinkAssumption DEF Agreeing, MeshInv, Execute
  <2>2. Head(commands[e]) = held[e] /\ commands[e] # <<>>
    BY <2>1
  <2>3. commands' = Pop(commands, e)
    BY DEF Execute
  <2>4. Head(commands[e]) \in State
    BY Zenon, <2>1, <2>2, <2>3, CommandTaken
  <2> QED BY <2>1, <2>2, <2>4
<1>2. /\ commands'[e] = <<>>
      /\ \A t \in Endpoint \ {e} : commands'[t] = commands[t]
  <2>1. commands' = [commands EXCEPT ![e] = Tail(commands[e])]
        /\ Tail(commands[e]) = <<>>
    BY <1>1 DEF Execute, Pop
  <2> QED BY <1>1, <2>1 DEF Types, DeviceTypes
<1>3. /\ queueIdButton' = queueIdButton
      /\ held' = held /\ stateButtonBLE' = stateButtonBLE /\ mqtt' = mqtt
      /\ queueCmdBLE' = queueCmdBLE /\ SameQueues
  BY HeldStays DEF Execute, gateway, SameQueues
<1>4. /\ state'[e] = held[e]
      /\ \A t \in Endpoint \ {e} : state'[t] = state[t]
  BY <1>1 DEF Execute, Types, DeviceTypes
<1>5. /\ \A t \in Endpoint \ {e} : reports'[t] = reports[t]
      /\ \A x \in Member(reports'[e]) :
           \/ x \in Member(reports[e])
           \/ x.kind # "other" /\ x.value \in State
      /\ OneStatus(reports'[e])
      /\ \A w : InFlight(e, w) => InFlight(e, w)'
  <2>1. PICK r \in ReportType :
          /\ r = Report("status", Head(commands[e])) /\ r.kind = "status"
          /\ r.value = held[e]
    BY <1>1, ReportInType
  <2>2. reports' = Push(reports, e, r)
    BY <2>1 DEF Execute
  <2> QED BY <1>1, <1>3, <2>1, <2>2, Sent
<1>6. ASSUME NEW t \in Endpoint, t # e
      PROVE  /\ state'[t] = state[t]
             /\ reports'[t] = reports[t] /\ commands'[t] = commands[t]
             /\ Newest(t)' <=> Newest(t)
             /\ Fresh(t)' <=> Fresh(t)
             /\ \A w : InFlight(t, w)' <=> InFlight(t, w)
             /\ \A w : Waiting(t, w)' <=> Waiting(t, w)
             /\ \A w : Dest(t, w)' <=> Dest(t, w)
             /\ Changing(t)' <=> Changing(t)
  BY <1>2, <1>3, <1>4, <1>5, <1>6, SameReports, SameCommands
<1>7. MeshInv'
  <2>1. \A t \in Endpoint : \A x \in Member(reports'[t]) :
          x.kind # "other" /\ x.value \in State
    BY <1>5 DEF Agreeing, MeshInv
  <2>2. ASSUME NEW t \in Ble
        PROVE  /\ IF held'[t] = "none"
                  THEN commands'[t] = <<>> /\ ~ Has(reports'[t], "status")
                  ELSE stateButtonBLE' = held'[t]
               /\ commands'[t] # <<>> =>
                    commands'[t] = <<held'[t]>> /\ ~ Has(reports'[t], "status")
               /\ OneStatus(reports'[t])
    <3>1. CASE t = e
      <4>1. held[e] # "none"
        BY <1>1 DEF State
      <4> QED BY <1>2, <1>3, <1>5, <3>1, <4>1 DEF Agreeing, MeshInv
    <3>2. CASE t # e
      BY <1>3, <1>6, <3>2, LinkAssumption DEF Agreeing, MeshInv
    <3> QED BY <3>1, <3>2
  <2> QED BY <1>3, <2>1, <2>2 DEF Agreeing, MeshInv
<1>8. NewestInv'
  BY <1>6 DEF Agreeing, NewestInv
<1>9. Sourced'
  <2>1. ASSUME NEW b \in Ble
        PROVE  /\ InQueue(b)' \/ held'[b] # "none"
                    => InQueue(b) \/ held[b] # "none"
               /\ \A d \in State : LastCommand(b, d) => LastCommand(b, d)'
    BY <1>3, SameQueue DEF LastCommand
  <2>2. ASSUME NEW z \in Endpoint \ Ble, NEW d \in State, Source(z, d)
        PROVE  Source(z, d)'
    BY <1>6, <2>2 DEF Source
  <2> QED BY <2>1, <2>2, SourcedKept
<1>10. Outdated'
  <2>1. ASSUME NEW b \in Ble
        PROVE  /\ Has(reports'[b], "status") /\ state'[b] # held'[b] =>
                    \/ Newest(b)'
                    \/ /\ Has(reports[b], "status") /\ ~ Newest(b)
                       /\ state'[b] = state[b] /\ held'[b] = held[b]
               /\ \A w : Queued(b, w) => Queued(b, w)'
    BY <1>3, <1>4, <1>6, LinkAssumption, SameQueue
  <2>2. ASSUME NEW z \in Endpoint \ Ble, NEW p \in State, NEW w \in State,
               Return(z, p, w)
        PROVE  Return(z, p, w)'
    BY <1>6, <2>2 DEF Return
  <2> QED BY <2>1, <2>2, OutdatedKept
<1>11. LinksOk'
  <2>1. ASSUME NEW z \in Endpoint \ Ble
        PROVE  /\ \A s : \A d \in State : ZigbeeOk(z, s, d) => ZigbeeOk(z, s, d)'
               /\ Fresh(z) \/ Changing(z) => Fresh(z)' \/ Changing(z)'
    BY <1>6 DEF ZigbeeOk
  <2>2. ASSUME NEW b \in Ble, NEW d \in State, BleOk(b, d)
        PROVE  BleOk(b, d)'
    <3>1. CASE b = e
      <4>1. held[e] # "none"
        BY <1>1 DEF State
      <4> QED BY <1>3, <1>4, <2>2, <3>1, <4>1, SameQueue DEF BleOk
    <3>2. CASE b # e
      BY <1>3, <1>6, <2>2, <3>2, LinkAssumption, SameQueue DEF BleOk
    <3> QED BY <3>1, <3>2
  <2> QED BY <2>1, <2>2, LinksKept
<1> QED BY <1>7, <1>8, <1>9, <1>10, <1>11 DEF Agreeing

\* Losing a command or repeating it leaves what the stack is waiting for.
LEMMA RepeatBle ==
  ASSUME Types, Agreeing, RepeatInv, ~ TaskFree
  PROVE  /\ repeat[1].id \in Ble /\ repeat[1].id \in Endpoint
         /\ repeat[1].state \in State /\ repeat[1] \in Call
         /\ held[repeat[1].id] = repeat[1].state
         /\ Member(repeat) = {repeat[1]}
<1>1. /\ repeat[1].id \in Endpoint /\ repeat[1].state \in State
      /\ Member(repeat) = {repeat[1]} /\ repeat[1] \in Call
  BY RepeatOne
<1>2. held[repeat[1].id] = repeat[1].state
  BY <1>1 DEF RepeatInv
<1> QED BY <1>1, <1>2 DEF Agreeing, MeshInv, State

\* The repetition is sent: what was held is outstanding.
LEMMA RepetitionSent ==
  ASSUME Types, Agreeing, RepeatInv, RepeatSend, ~ lost',
         NEW e, e = repeat[1].id
  PROVE  /\ held' = held /\ held[e] \in State
         /\ IF pending[e] = "none" THEN commands' = Push(commands, e, held[e])
                                   ELSE commands' = commands
<1> DEFINE q == repeat[1]
<1>1. /\ q.id \in Endpoint /\ q.state \in State /\ held[q.id] = q.state
      /\ Member(repeat) = {q} /\ repeat' = <<>>
  BY RepeatBle DEF RepeatSend, Repeats
<1>2. Send(q.id, q.state) /\ ~ Refused(q.id, q.state)
  BY DEF RepeatSend
<1> HIDE DEF q
<1>3. held' = pending'
  <2>1. Types'
    BY RepeatSendTypes
  <2>2. Member(repeat') = {}
    BY <1>1, MemberOfEmpty
  <2> QED BY <2>1, <2>2 DEF held, Types, DeviceTypes
<1>4. pending'[q.id] = q.state
      /\ \A t \in Endpoint \ {q.id} : pending'[t] = pending[t]
  BY <1>1, <1>2, Commanded
<1>5. \A t \in Endpoint \ {q.id} : held[t] = pending[t]
  BY <1>1 DEF held
<1>6. held' = held
  <2>1. pending' \in [Endpoint -> State \cup {"none"}]
    BY <1>1, <1>2, Commanded
  <2>2. held \in [Endpoint -> State \cup {"none"}]
    BY HeldType
  <2>3. \A t \in Endpoint : pending'[t] = held[t]
    BY <1>1, <1>4, <1>5
  <2> QED BY <1>3, <2>1, <2>2, <2>3
<1> QED BY <1>1, <1>2, <1>6 DEF Send, q

LEMMA RepeatedAgreeing ==
  ASSUME Types, Calm, Agreeing, RepeatInv, NEW e \in Ble,
         \/ LoseCommand(e)
         \/ RepeatSend /\ ~ lost' /\ e = repeat[1].id /\ pending[e] = "none"
  PROVE  Agreeing'
<1>1. e \in Endpoint
  BY LinkAssumption
<1>2. /\ queueIdButton' = queueIdButton /\ state' = state
      /\ reports' = reports /\ stateButtonBLE' = stateButtonBLE /\ mqtt' = mqtt
      /\ queueCmdBLE' = queueCmdBLE /\ SameQueues
  BY DEF LoseCommand, RepeatSend, gateway, SameQueues
<1>3. held' = held
  <2>1. CASE LoseCommand(e)
    BY <2>1, HeldStays DEF LoseCommand, gateway
  <2>2. CASE ~ LoseCommand(e)
    BY <2>2, RepetitionSent
  <2> QED BY <2>1, <2>2
<1>4. /\ \A t \in Endpoint \ {e} : commands'[t] = commands[t]
      /\ commands'[e] # <<>> => commands'[e] = <<held[e]>>
                                /\ ~ Has(reports[e], "status")
      /\ held[e] = "none" => commands'[e] = <<>>
  <2>1. CASE LoseCommand(e)
    <3>1. commands[e] = <<held[e]>>
      BY <2>1 DEF LoseCommand, Agreeing, MeshInv
    <3>2. commands' = [commands EXCEPT ![e] = Tail(commands[e])]
          /\ Tail(commands[e]) = <<>>
      BY <2>1, <3>1 DEF LoseCommand, Pop
    <3> QED BY <1>1, <3>2 DEF Types, DeviceTypes
  <2>2. CASE ~ LoseCommand(e)
    <3>1. held[e] \in State /\ commands' = Push(commands, e, held[e])
      BY <2>2, RepetitionSent
    <3>2. commands[e] = <<>> /\ ~ Has(reports[e], "status")
      BY <2>2, RepeatOne DEF RepeatInv, RepeatSend, Repeats
    <3>3. commands' = [commands EXCEPT ![e] = Append(commands[e], held[e])]
          /\ Append(commands[e], held[e]) = <<held[e]>>
      BY <3>1, <3>2 DEF Push
    <3>4. held[e] # "none"
      BY <3>1 DEF State
    <3> QED BY <1>1, <3>2, <3>3, <3>4 DEF Types, DeviceTypes
  <2> QED BY <2>1, <2>2
<1>5. ASSUME NEW t \in Endpoint
      PROVE  /\ Newest(t)' <=> Newest(t)
             /\ Fresh(t)' <=> Fresh(t)
             /\ \A w : InFlight(t, w)' <=> InFlight(t, w)
             /\ Has(reports[t], "status")' <=> Has(reports[t], "status")
             /\ t # e => /\ \A w : Waiting(t, w)' <=> Waiting(t, w)
                         /\ \A w : Dest(t, w)' <=> Dest(t, w)
                         /\ Changing(t)' <=> Changing(t)
  BY <1>2, <1>4, SameReports, SameCommands
<1>6. \A t \in Endpoint \ Ble : t # e
  OBVIOUS
<1>7. MeshInv'
  <2>1. ASSUME NEW t \in Ble
        PROVE  /\ IF held'[t] = "none"
                  THEN commands'[t] = <<>> /\ ~ Has(reports'[t], "status")
                  ELSE stateButtonBLE' = held'[t]
               /\ commands'[t] # <<>> =>
                    commands'[t] = <<held'[t]>> /\ ~ Has(reports'[t], "status")
               /\ OneStatus(reports'[t])
    <3>1. CASE t = e
      BY <1>2, <1>3, <1>4, <3>1 DEF Agreeing, MeshInv
    <3>2. CASE t # e
      BY <1>2, <1>3, <1>4, <3>2, LinkAssumption DEF Agreeing, MeshInv
    <3> QED BY <3>1, <3>2
  <2> QED BY <1>2, <1>3, <2>1 DEF Agreeing, MeshInv
<1>8. NewestInv'
  BY <1>5 DEF Agreeing, NewestInv
<1>9. Sourced'
  <2>1. ASSUME NEW b \in Ble
        PROVE  /\ InQueue(b)' \/ held'[b] # "none"
                    => InQueue(b) \/ held[b] # "none"
               /\ \A d \in State : LastCommand(b, d) => LastCommand(b, d)'
    BY <1>2, <1>3, SameQueue DEF LastCommand
  <2>2. ASSUME NEW z \in Endpoint \ Ble, NEW d \in State, Source(z, d)
        PROVE  Source(z, d)'
    BY <1>2, <1>5, <2>2 DEF Source
  <2> QED BY <2>1, <2>2, SourcedKept
<1>10. Outdated'
  <2>1. ASSUME NEW b \in Ble
        PROVE  /\ Has(reports'[b], "status") /\ state'[b] # held'[b] =>
                    \/ Newest(b)'
                    \/ /\ Has(reports[b], "status") /\ ~ Newest(b)
                       /\ state'[b] = state[b] /\ held'[b] = held[b]
               /\ \A w : Queued(b, w) => Queued(b, w)'
    BY <1>2, <1>3, <1>5, LinkAssumption, SameQueue
  <2>2. ASSUME NEW z \in Endpoint \ Ble, NEW p \in State, NEW w \in State,
               Return(z, p, w)
        PROVE  Return(z, p, w)'
    BY <1>2, <1>5, <1>6, <2>2 DEF Return
  <2> QED BY <2>1, <2>2, OutdatedKept
<1>11. LinksOk'
  <2>1. ASSUME NEW z \in Endpoint \ Ble
        PROVE  /\ \A s : \A d \in State : ZigbeeOk(z, s, d) => ZigbeeOk(z, s, d)'
               /\ Fresh(z) \/ Changing(z) => Fresh(z)' \/ Changing(z)'
    BY <1>2, <1>5, <1>6 DEF ZigbeeOk
  <2>2. ASSUME NEW b \in Ble, NEW d \in State, BleOk(b, d)
        PROVE  BleOk(b, d)'
    BY <1>2, <1>3, <1>5, <2>2, LinkAssumption, SameQueue DEF BleOk
  <2> QED BY <2>1, <2>2, LinksKept
<1> QED BY <1>7, <1>8, <1>9, <1>10, <1>11 DEF Agreeing

\* A status is lost or answers the command; what is after it stays.
LEMMA StatusTaken ==
  ASSUME Types, NEW e \in Endpoint, reports[e] # <<>>, OneStatus(reports[e]),
         Head(reports[e]).kind = "status", reports' = Pop(reports, e),
         queueIdButton' = queueIdButton, state' = state
  PROVE  /\ ~ Has(reports'[e], "status") /\ OneStatus(reports'[e])
         /\ Fresh(e)' <=> Fresh(e)
         /\ \A w : InFlight(e, w)' <=> InFlight(e, w)
         /\ Newest(e) => Newest(e)'
<1>1. /\ reports[e] \in Seq(ReportType) /\ reports'[e] = Tail(reports[e])
      /\ Member(reports[e]) = Member(reports'[e]) \cup {Head(reports[e])}
  BY ReportsType, ReportTaken DEF Pop
<1>2. ~ Has(reports'[e], "status") /\ OneStatus(reports'[e])
  BY <1>1, OneStatusOfTail
<1>3. Has(reports'[e], "button") <=> Has(reports[e], "button")
  BY <1>1 DEF Has
<1>4. Fresh(e)' <=> Fresh(e)
  BY <1>3 DEF Fresh
<1>5. \A w : InFlight(e, w)' <=> InFlight(e, w)
  BY <1>1 DEF InFlight
<1>6. ASSUME Newest(e) PROVE Newest(e)'
  <2>1. CASE Has(reports[e], "button")
    <3>1. reports'[e] # <<>>
      BY <1>3, <2>1, MemberOfEmpty DEF Has
    <3>2. LastOf(reports'[e]) = LastOf(reports[e])
      BY <1>1, <3>1, LastTail
    <3> QED BY <1>3, <1>6, <2>1, <3>2 DEF Newest
  <2>2. CASE ~ Has(reports[e], "button")
    BY <1>3, <1>6, <2>2 DEF Newest
  <2> QED BY <2>1, <2>2
<1> QED BY <1>2, <1>4, <1>5, <1>6

LEMMA StatusAgreeing ==
  ASSUME Types, Calm, Agreeing, NEW e \in Ble, LoseStatus(e) \/ BleStatus(e)
  PROVE  Agreeing'
<1>1. /\ e \in Endpoint /\ reports[e] # <<>> /\ Head(reports[e]).kind = "status"
      /\ reports' = Pop(reports, e) /\ OneStatus(reports[e])
  BY LinkAssumption DEF LoseStatus, BleStatus, Agreeing, MeshInv
<1>2. /\ queueIdButton' = queueIdButton /\ state' = state
      /\ commands' = commands /\ stateButtonBLE' = stateButtonBLE
      /\ mqtt' = mqtt /\ queueCmdBLE' = queueCmdBLE /\ SameQueues
  BY DEF LoseStatus, BleStatus, gateway, SameQueues
<1>3. /\ Has(reports[e], "status") /\ held[e] # "none" /\ commands[e] = <<>>
  <2>1. Has(reports[e], "status")
    BY <1>1, ReportTaken DEF Has
  <2> QED BY <2>1 DEF Agreeing, MeshInv
<1>4. /\ \A t \in Endpoint \ {e} : held'[t] = held[t]
      /\ held'[e] \in {held[e], "none"}
  <2>1. TaskFree /\ TaskFree' /\ held = pending
    BY HeldFree DEF LoseStatus, BleStatus, gateway, TaskFree
  <2>2. held' = pending'
    <3>1. Types'
      BY <1>1, LoseStatusTypes, BleStatusTypes
    <3>2. Member(repeat') = {}
      BY <2>1, MemberOfEmpty DEF TaskFree
    <3> QED BY <3>1, <3>2 DEF held, Types, DeviceTypes
  <2> QED BY <1>1, <2>1, <2>2 DEF LoseStatus, BleStatus, Types, DeviceTypes
<1>5. /\ \A t \in Endpoint \ {e} : reports'[t] = reports[t]
      /\ \A t \in Endpoint : Member(reports'[t]) \subseteq Member(reports[t])
      /\ ~ Has(reports'[e], "status") /\ OneStatus(reports'[e])
  BY <1>1, <1>2, ReportTaken, StatusTaken
<1>6. ASSUME NEW t \in Endpoint
      PROVE  /\ Fresh(t)' <=> Fresh(t)
             /\ \A w : InFlight(t, w)' <=> InFlight(t, w)
             /\ Newest(t) => Newest(t)'
             /\ \A w : Waiting(t, w)' <=> Waiting(t, w)
             /\ \A w : Dest(t, w)' <=> Dest(t, w)
             /\ Changing(t)' <=> Changing(t)
  <2>1. CASE t = e
    BY <1>1, <1>2, <2>1, StatusTaken, SameCommands
  <2>2. CASE t # e
    BY <1>2, <1>5, <2>2, SameReports, SameCommands
  <2> QED BY <2>1, <2>2
<1>7. MeshInv'
  <2>1. ASSUME NEW t \in Ble
        PROVE  /\ IF held'[t] = "none"
                  THEN commands'[t] = <<>> /\ ~ Has(reports'[t], "status")
                  ELSE stateButtonBLE' = held'[t]
               /\ commands'[t] # <<>> =>
                    commands'[t] = <<held'[t]>> /\ ~ Has(reports'[t], "status")
               /\ OneStatus(reports'[t])
    <3>1. CASE t = e
      BY <1>2, <1>3, <1>4, <1>5, <3>1 DEF Agreeing, MeshInv
    <3>2. CASE t # e
      BY <1>2, <1>4, <1>5, <3>2, LinkAssumption DEF Agreeing, MeshInv
    <3> QED BY <3>1, <3>2
  <2>2. \A t \in Endpoint : \A x \in Member(reports'[t]) :
          x.kind # "other" /\ x.value \in State
    BY <1>5 DEF Agreeing, MeshInv
  <2>3. \A t \in Endpoint : held'[t] # "none" => t \in Ble
    BY <1>4 DEF Agreeing, MeshInv
  <2> QED BY <1>2, <2>1, <2>2, <2>3 DEF Agreeing, MeshInv
<1>8. NewestInv'
  BY <1>6 DEF Agreeing, NewestInv
<1>9. Sourced'
  <2>1. ASSUME NEW b \in Ble
        PROVE  /\ InQueue(b)' \/ held'[b] # "none"
                    => InQueue(b) \/ held[b] # "none"
               /\ InQueue(b)' \/ held'[b] # "none"
                    => \A d \in State : LastCommand(b, d) => LastCommand(b, d)'
    BY <1>2, <1>4, SameQueue, LinkAssumption DEF LastCommand
  <2>2. ASSUME NEW z \in Endpoint \ Ble, NEW d \in State, Source(z, d)
        PROVE  Source(z, d)'
    BY <1>2, <1>6, <2>2 DEF Source
  <2> QED BY <2>1, <2>2, SourcedKept
<1>10. Outdated'
  <2>1. ASSUME NEW b \in Ble
        PROVE  /\ Has(reports'[b], "status") /\ state'[b] # held'[b] =>
                    \/ Newest(b)'
                    \/ /\ Has(reports[b], "status") /\ ~ Newest(b)
                       /\ state'[b] = state[b] /\ held'[b] = held[b]
               /\ \A w : Queued(b, w) => Queued(b, w)'
    BY <1>2, <1>4, <1>5, <1>6, LinkAssumption, SameQueue
  <2>2. ASSUME NEW z \in Endpoint \ Ble, NEW p \in State, NEW w \in State,
               Return(z, p, w)
        PROVE  Return(z, p, w)'
    BY <1>2, <1>6, <2>2 DEF Return
  <2> QED BY <2>1, <2>2, OutdatedKept
<1>11. LinksOk'
  <2>1. ASSUME NEW z \in Endpoint \ Ble
        PROVE  /\ \A s : \A d \in State : ZigbeeOk(z, s, d) => ZigbeeOk(z, s, d)'
               /\ Fresh(z) \/ Changing(z) => Fresh(z)' \/ Changing(z)'
    BY <1>2, <1>6 DEF ZigbeeOk
  <2>2. ASSUME NEW b \in Ble, NEW d \in State, BleOk(b, d)
        PROVE  BleOk(b, d)'
    <3>1. CASE b = e
      BY <1>1, <1>2, <1>3, <1>4, <1>5, <1>6, <2>2, <3>1, SameQueue DEF BleOk
    <3>2. CASE b # e
      BY <1>2, <1>4, <1>5, <1>6, <2>2, <3>2, LinkAssumption, SameQueue DEF BleOk
    <3> QED BY <3>1, <3>2
  <2> QED BY <2>1, <2>2, LinksKept
<1> QED BY <1>7, <1>8, <1>9, <1>10, <1>11 DEF Agreeing

\* A report of a button goes from the radio into queueIdButton.
LEMMA Moved ==
  ASSUME Types, NEW e \in Endpoint, reports[e] # <<>>,
         Head(reports[e]).kind = "button", Head(reports[e]).value \in State,
         reports' = Pop(reports, e), state' = state,
         OfferId(e, Head(reports[e]).value), ~ lost', NEW t \in Endpoint
  PROVE  /\ Fresh(t)' <=> Fresh(t)
         /\ \A w : InFlight(t, w)' <=> InFlight(t, w)
         /\ Newest(t) => Newest(t)'
         /\ Has(reports[t], "status")' <=> Has(reports[t], "status")
         /\ OneStatus(reports[t]) => OneStatus(reports'[t])
<1>1. PICK v \in State : v = Head(reports[e]).value
  OBVIOUS
<1> DEFINE x == [id |-> e, state |-> v]
<1>2. x \in Item /\ x.id = e /\ x.state = v
  BY ItemType
<1>3. queueIdButton' = Append(queueIdButton, x)
  <2>1. Len(queueIdButton) \in Nat /\ IdCap \in Nat
    BY BoundAssumption DEF Types, TaskTypes
  <2>2. /\ queueIdButton' = Offer(queueIdButton, IdCap, x)
        /\ ~ (Len(queueIdButton) >= IdCap)
    BY <1>1 DEF OfferId, Dropped, x
  <2> QED BY <2>1, <2>2 DEF Offer
<1> HIDE DEF x
<1>4. /\ queueIdButton \in Seq(Item)
      /\ Member(queueIdButton') = Member(queueIdButton) \cup {x}
      /\ \A u, w : x.id # u /\ LastIs(queueIdButton, u, w)
                     => LastIs(queueIdButton', u, w)
      /\ LastIs(queueIdButton', e, v)
  <2>1. queueIdButton \in Seq(Item)
    BY DEF Types, TaskTypes
  <2>2. Member(queueIdButton') = Member(queueIdButton) \cup {x}
    BY <1>2, <1>3, <2>1, MemberAppend
  <2>3. ASSUME NEW u, NEW w, x.id # u, LastIs(queueIdButton, u, w)
        PROVE  LastIs(Append(queueIdButton, x), u, w)
    BY <1>2, <2>1, <2>3, LastIsAppended
  <2>4. LastIs(Append(queueIdButton, x), e, v)
    BY <1>2, <2>1, LastIsAppended
  <2> QED BY <1>3, <2>1, <2>2, <2>3, <2>4
<1>5. /\ reports[e] \in Seq(ReportType) /\ reports'[e] = Tail(reports[e])
      /\ Member(reports[e]) = Member(reports'[e]) \cup {Head(reports[e])}
      /\ \A u \in Endpoint \ {e} : reports'[u] = reports[u]
  BY ReportsType, ReportTaken DEF Pop
<1>6. CASE t # e
  <2>1. reports'[t] = reports[t] /\ (HasId(queueIdButton', t) <=> HasId(queueIdButton, t))
    BY <1>2, <1>4, <1>5, <1>6 DEF HasId
  <2>2. Fresh(t)' <=> Fresh(t)
    BY <2>1 DEF Fresh
  <2>3. \A w : InFlight(t, w)' <=> InFlight(t, w)
    BY <1>2, <1>4, <1>6, <2>1 DEF InFlight
  <2>4. Newest(t) => Newest(t)'
    BY <1>2, <1>4, <1>6, <2>1 DEF Newest
  <2> QED BY <2>1, <2>2, <2>3, <2>4
<1>7. CASE t = e
  <2>1. Has(reports[e], "button")
    BY <1>5 DEF Has
  <2>2. Fresh(t)' <=> Fresh(t)
    BY <1>2, <1>4, <1>7, <2>1 DEF Fresh, HasId
  <2>3. \A w : InFlight(t, w)' <=> InFlight(t, w)
    BY <1>1, <1>2, <1>4, <1>5, <1>7 DEF InFlight
  <2>4. ASSUME Newest(e) PROVE Newest(e)'
    <3>1. LastOf(reports[e]).kind = "button" /\ LastOf(reports[e]).value = state[e]
      BY <2>1, <2>4 DEF Newest
    <3>2. CASE Has(reports'[e], "button")
      <4>1. reports'[e] # <<>>
        BY <3>2, MemberOfEmpty DEF Has
      <4>2. LastOf(reports'[e]) = LastOf(reports[e])
        BY <1>5, <4>1, LastTail
      <4> QED BY <3>1, <3>2, <4>2 DEF Newest
    <3>3. CASE ~ Has(reports'[e], "button")
      <4>1. reports'[e] = <<>>
        <5>1. SUFFICES ASSUME reports'[e] # <<>> PROVE FALSE
          OBVIOUS
        <5>2. LastOf(reports'[e]) = LastOf(reports[e])
          BY <1>5, <5>1, LastTail
        <5>3. reports'[e] \in Seq(ReportType)
          BY <1>5, MemberTail
        <5>4. LastOf(reports'[e]) \in Member(reports'[e])
          BY <5>1, <5>3, LastIsMember
        <5> QED BY <3>1, <3>3, <5>2, <5>4 DEF Has
      <4>2. LastOf(reports[e]) = Head(reports[e])
        BY <1>5, <4>1, LastTail
      <4>3. v = state[e]
        BY <1>1, <3>1, <4>2
      <4> QED BY <1>4, <3>3, <4>3 DEF Newest
    <3> QED BY <3>2, <3>3
  <2>5. Has(reports'[e], "status") <=> Has(reports[e], "status")
    BY <1>5 DEF Has
  <2>6. OneStatus(reports[e]) => OneStatus(reports'[e])
    BY <1>5, OneStatusOfTail
  <2> QED BY <1>7, <2>2, <2>3, <2>4, <2>5, <2>6
<1> QED BY <1>6, <1>7

LEMMA MovedAgreeing ==
  ASSUME Types, Calm, Agreeing, NEW e \in Endpoint,
         ZigbeeReport(e) \/ BlePublish(e), ~ lost'
  PROVE  Agreeing'
<1>1. /\ reports[e] # <<>> /\ reports' = Pop(reports, e)
      /\ state' = state /\ commands' = commands /\ held' = held
      /\ stateButtonBLE' = stateButtonBLE /\ mqtt' = mqtt
      /\ queueCmdBLE' = queueCmdBLE /\ SameQueues
  BY HeldStays DEF ZigbeeReport, BlePublish, SameQueues
<1>2. /\ Head(reports[e]) \in Member(reports[e])
      /\ Head(reports[e]) \in ReportType
      /\ \A t \in Endpoint : Member(reports'[t]) \subseteq Member(reports[t])
  BY <1>1, ReportTaken
<1>3. Head(reports[e]).value \in State /\ Head(reports[e]).kind # "other"
  BY <1>2 DEF Agreeing, MeshInv
<1>4. Head(reports[e]).kind = "button"
  <2>1. SUFFICES ASSUME Head(reports[e]).kind = "status" PROVE FALSE
    BY <1>2, <1>3 DEF ReportType
  <2>2. e \in Ble /\ Has(reports[e], "status")
    BY <1>2, <2>1 DEF Types, ProtocolInv, Has
  <2>3. held[e] # "none"
    BY <2>2 DEF Agreeing, MeshInv
  <2> QED BY <2>1, <2>2, <2>3, HeldFree DEF ZigbeeReport, BlePublish
<1>5. OfferId(e, Head(reports[e]).value)
  <2>1. Head(reports[e]).value # "none"
    BY <1>3 DEF State
  <2> QED BY <2>1 DEF ZigbeeReport, BlePublish
<1>6. ASSUME NEW t \in Endpoint
      PROVE  /\ Fresh(t)' <=> Fresh(t)
             /\ \A w : InFlight(t, w)' <=> InFlight(t, w)
             /\ Newest(t) => Newest(t)'
             /\ Has(reports[t], "status")' <=> Has(reports[t], "status")
             /\ OneStatus(reports[t]) => OneStatus(reports'[t])
             /\ \A w : Waiting(t, w)' <=> Waiting(t, w)
             /\ \A w : Dest(t, w)' <=> Dest(t, w)
             /\ Changing(t)' <=> Changing(t)
  BY <1>1, <1>3, <1>4, <1>5, Moved, SameCommands
<1>7. MeshInv'
  <2>1. \A t \in Endpoint : \A x \in Member(reports'[t]) :
          x.kind # "other" /\ x.value \in State
    BY <1>2 DEF Agreeing, MeshInv
  <2>2. \A t \in Ble :
          /\ t \in Endpoint /\ OneStatus(reports'[t])
          /\ Has(reports'[t], "status") <=> Has(reports[t], "status")
    BY <1>6, LinkAssumption DEF Agreeing, MeshInv
  <2> QED BY <1>1, <2>1, <2>2 DEF Agreeing, MeshInv
<1>8. NewestInv'
  BY <1>6 DEF Agreeing, NewestInv
<1>9. Sourced'
  <2>1. ASSUME NEW b \in Ble
        PROVE  /\ InQueue(b)' \/ held'[b] # "none"
                    => InQueue(b) \/ held[b] # "none"
               /\ \A d \in State : LastCommand(b, d) => LastCommand(b, d)'
    BY <1>1, SameQueue DEF LastCommand
  <2>2. ASSUME NEW z \in Endpoint \ Ble, NEW d \in State, Source(z, d)
        PROVE  Source(z, d)'
    BY <1>1, <1>6, <2>2 DEF Source
  <2> QED BY <2>1, <2>2, SourcedKept
<1>10. Outdated'
  <2>1. ASSUME NEW b \in Ble
        PROVE  /\ Has(reports'[b], "status") /\ state'[b] # held'[b] =>
                    \/ Newest(b)'
                    \/ /\ Has(reports[b], "status") /\ ~ Newest(b)
                       /\ state'[b] = state[b] /\ held'[b] = held[b]
               /\ \A w : Queued(b, w) => Queued(b, w)'
    BY <1>1, <1>6, LinkAssumption, SameQueue
  <2>2. ASSUME NEW z \in Endpoint \ Ble, NEW p \in State, NEW w \in State,
               Return(z, p, w)
        PROVE  Return(z, p, w)'
    BY <1>1, <1>6, <2>2 DEF Return
  <2> QED BY <2>1, <2>2, OutdatedKept
<1>11. LinksOk'
  <2>1. ASSUME NEW z \in Endpoint \ Ble
        PROVE  /\ \A s : \A d \in State : ZigbeeOk(z, s, d) => ZigbeeOk(z, s, d)'
               /\ Fresh(z) \/ Changing(z) => Fresh(z)' \/ Changing(z)'
    BY <1>1, <1>6 DEF ZigbeeOk
  <2>2. ASSUME NEW b \in Ble, NEW d \in State, BleOk(b, d)
        PROVE  BleOk(b, d)'
    BY <1>1, <1>6, <2>2, LinkAssumption, SameQueue DEF BleOk
  <2> QED BY <2>1, <2>2, LinksKept
<1> QED BY <1>7, <1>8, <1>9, <1>10, <1>11 DEF Agreeing

\* The first report leaves queueIdButton: of its button, the one that is
\* newest is the last one or is left.
LEMMA LookedUp ==
  ASSUME Types, LookUp, NEW t \in Endpoint
  PROVE  /\ Fresh(t)' => Fresh(t)
         /\ \A w : InFlight(t, w)
                     => \/ InFlight(t, w)'
                        \/ /\ t = Head(queueIdButton).id
                           /\ w = Head(queueIdButton).state
         /\ Newest(t) =>
              \/ Fresh(t)' /\ Newest(t)'
              \/ /\ t = Head(queueIdButton).id
                 /\ state[t] = Head(queueIdButton).state
<1>1. /\ queueIdButton \in Seq(Item) /\ queueIdButton # <<>>
      /\ queueIdButton' = Tail(queueIdButton)
      /\ reports' = reports /\ state' = state
  BY DEF LookUp, radio, Types, TaskTypes
<1>2. Member(queueIdButton) = Member(queueIdButton') \cup {Head(queueIdButton)}
  BY LookUpTypes
<1>3. Fresh(t)' => Fresh(t)
  BY <1>1, <1>2 DEF Fresh, HasId
<1>4. ASSUME NEW w, InFlight(t, w)
      PROVE  \/ InFlight(t, w)'
             \/ t = Head(queueIdButton).id /\ w = Head(queueIdButton).state
  BY <1>1, <1>2, <1>4 DEF InFlight
<1>5. ASSUME Newest(t)
      PROVE  \/ Fresh(t)' /\ Newest(t)'
             \/ /\ t = Head(queueIdButton).id
                /\ state[t] = Head(queueIdButton).state
  <2>1. CASE Has(reports[t], "button")
    BY <1>1, <1>5, <2>1 DEF Newest, Fresh
  <2>2. CASE ~ Has(reports[t], "button")
    <3>1. LastIs(queueIdButton, t, state[t])
      BY <1>5, <2>2 DEF Newest
    <3>2. IF HasId(queueIdButton', t) THEN LastIs(queueIdButton', t, state[t])
          ELSE Head(queueIdButton).id = t /\ Head(queueIdButton).state = state[t]
      BY <1>1, <3>1, LastIsOfTail
    <3> QED BY <1>1, <2>2, <3>2 DEF Newest, Fresh
  <2> QED BY <2>1, <2>2
<1> QED BY <1>3, <1>4, <1>5

\* Its value waits for the other members of its link.
LEMMA LinkWaits ==
  ASSUME Types, LookUp, NEW i \in Endpoint, NEW d \in State,
         i = Head(queueIdButton).id, d = Head(queueIdButton).state,
         NEW t \in Endpoint
  PROVE  /\ \A w : Queued(t, w) => Queued(t, w)'
         /\ \A w : Waiting(t, w) => Waiting(t, w)'
         /\ Changing(t) => Changing(t)'
         /\ IF t \in Link(i) \ {i}
            THEN InQueue(t)' /\ ToBe(t, d)' /\ Waiting(t, d)' /\ Queued(t, d)'
            ELSE /\ InQueue(t)' <=> InQueue(t)
                 /\ \A w : ToBe(t, w) => ToBe(t, w)'
                 /\ \A w : Dest(t, w) => Dest(t, w)'
<1>1. /\ tokens = <<>> /\ Member(tokens) = {}
      /\ tokens' = Targets[i] /\ item' = d
      /\ queueCmdZigbee' = queueCmdZigbee /\ queueCmdBLE' = queueCmdBLE
      /\ commands' = commands /\ state' = state
  BY MemberOfEmpty DEF LookUp, radio
<1>2. Queue(t)' = Queue(t)
  BY <1>1 DEF Queue
<1>3. \A w : Queued(t, w) => Queued(t, w)'
  BY <1>1, <1>2 DEF Queued
<1>4. \A w : Waiting(t, w) => Waiting(t, w)'
  BY <1>1, <1>3 DEF Waiting
<1>5. Changing(t) => Changing(t)'
  BY <1>1, <1>4 DEF Changing
<1>6. t \in Link(i) \ {i} <=> t \in Member(tokens')
  BY <1>1, LinkAssumption DEF Link
<1>7. CASE t \in Link(i) \ {i}
  <2>1. t \in Member(tokens')
    BY <1>6, <1>7
  <2>2. InQueue(t)' /\ ToBe(t, d)' /\ Queued(t, d)'
    BY <1>1, <2>1 DEF InQueue, ToBe, Queued
  <2>3. Waiting(t, d)'
    BY <2>2 DEF Waiting
  <2> QED BY <1>3, <1>4, <1>5, <1>7, <2>2, <2>3
<1>8. CASE t \notin Link(i) \ {i}
  <2>1. t \notin Member(tokens') /\ t \notin Member(tokens)
    BY <1>1, <1>6, <1>8
  <2>2. InQueue(t)' <=> InQueue(t)
    BY <1>2, <2>1 DEF InQueue
  <2>3. \A w : ToBe(t, w) => ToBe(t, w)'
    BY <1>2, <2>1 DEF ToBe
  <2>4. \A w : Dest(t, w) => Dest(t, w)'
    BY <1>1, <2>2, <2>3 DEF Dest
  <2> QED BY <1>3, <1>4, <1>5, <1>8, <2>2, <2>3, <2>4
<1> QED BY <1>7, <1>8

\* What nothing changes has what it comes to.
LEMMA DestReached ==
  ASSUME Types, NEW t \in Endpoint, NEW v \in State, Dest(t, v), ~ Changing(t)
  PROVE  state[t] = v
<1>1. SUFFICES ASSUME state[t] # v PROVE Waiting(t, v)
  BY DEF Changing
<1>2. CASE InQueue(t) /\ t \in Member(tokens)
  BY <1>2 DEF Dest, ToBe, Waiting, Queued
<1>3. CASE InQueue(t) /\ t \notin Member(tokens)
  <2>1. LastIs(Queue(t), t, v)
    BY <1>3 DEF Dest, ToBe
  <2> QED BY <2>1, LastIsFound DEF Waiting, Queued
<1>4. CASE ~ InQueue(t)
  <2>1. commands[t] # <<>> /\ LastOf(commands[t]) = v
    BY <1>1, <1>4 DEF Dest
  <2>2. commands[t] \in Seq(State)
    BY DEF Types, DeviceTypes
  <2> QED BY <2>1, <2>2, LastIsMember DEF Waiting
<1> QED BY <1>2, <1>3, <1>4

LEMMA LookUpAgreeing ==
  ASSUME Types, Calm, Agreeing, LookUp
  PROVE  Agreeing'
<1>1. PICK i \in Endpoint, d \in State :
        i = Head(queueIdButton).id /\ d = Head(queueIdButton).state
  BY LookUpTypes DEF Item
<1>2. /\ reports' = reports /\ state' = state /\ commands' = commands
      /\ held' = held /\ stateButtonBLE' = stateButtonBLE /\ mqtt' = mqtt
      /\ queueCmdBLE' = queueCmdBLE
      /\ tokens = <<>> /\ Member(tokens) = {}
      /\ \A t \in Endpoint : state[t] \in State
  BY MemberOfEmpty, HeldStays DEF LookUp, radio, Types, DeviceTypes
<1>3. Fresh(i) /\ (i \notin Ble => Newest(i))
  <2>1. Fresh(i)
    BY <1>1, LookUpTypes DEF Fresh, HasId
  <2> QED BY <2>1 DEF Agreeing, NewestInv
<1>4. ASSUME NEW t \in Endpoint
      PROVE  /\ Fresh(t)' => Fresh(t)
             /\ \A w : InFlight(t, w) => InFlight(t, w)' \/ (t = i /\ w = d)
             /\ Newest(t) => \/ Fresh(t)' /\ Newest(t)'
                             \/ t = i /\ state[t] = d
             /\ t # i /\ Fresh(t) => Fresh(t)'
  <2>1. /\ Fresh(t)' => Fresh(t)
        /\ \A w : InFlight(t, w) => InFlight(t, w)' \/ (t = i /\ w = d)
        /\ Newest(t) => \/ Fresh(t)' /\ Newest(t)'
                        \/ t = i /\ state[t] = d
    BY <1>1, LookedUp
  <2>2. ASSUME t # i, Fresh(t) PROVE Fresh(t)'
    <3>1. Member(queueIdButton)
            = Member(queueIdButton') \cup {Head(queueIdButton)}
      BY LookUpTypes
    <3> QED BY <1>1, <1>2, <2>2, <3>1 DEF Fresh, HasId
  <2> QED BY <2>1, <2>2
<1>5. ASSUME NEW t \in Endpoint
      PROVE  /\ \A w : Queued(t, w) => Queued(t, w)'
             /\ \A w : Waiting(t, w) => Waiting(t, w)'
             /\ Changing(t) => Changing(t)'
             /\ t \in Link(i) /\ t # i =>
                  InQueue(t)' /\ ToBe(t, d)' /\ Waiting(t, d)' /\ Queued(t, d)'
             /\ ~ (t \in Link(i) /\ t # i) =>
                  /\ InQueue(t)' <=> InQueue(t)
                  /\ \A w : ToBe(t, w) => ToBe(t, w)'
                  /\ \A w : Dest(t, w) => Dest(t, w)'
  BY <1>1, LinkWaits
<1>6. ASSUME NEW u \in Endpoint, i \in Link(u)
      PROVE  Link(u) = Link(i)
  BY <1>6, SameLink
<1>7. \A b \in Ble : b \in Endpoint /\ (i \in Ble => i = b)
  BY LinkAssumption DEF Calm, OneBle
<1>8. MeshInv'
  BY <1>2 DEF Agreeing, MeshInv
<1>9. NewestInv'
  <2> SUFFICES ASSUME NEW t \in Endpoint \ Ble, Fresh(t)' PROVE Newest(t)'
    BY DEF NewestInv
  <2>1. Newest(t)
    BY <1>4 DEF Agreeing, NewestInv
  <2>2. CASE Has(reports[t], "button")
    BY <1>2, <2>1, <2>2 DEF Newest
  <2>3. CASE ~ Has(reports[t], "button")
    <3>1. LastIs(queueIdButton, t, state[t]) /\ HasId(queueIdButton', t)
      BY <1>2, <2>1, <2>3 DEF Newest, Fresh
    <3>2. /\ queueIdButton \in Seq(Item) /\ queueIdButton # <<>>
          /\ queueIdButton' = Tail(queueIdButton)
      BY DEF LookUp, Types, TaskTypes
    <3>3. LastIs(queueIdButton', t, state[t])
      BY <3>1, <3>2, LastIsOfTail
    <3> QED BY <1>2, <2>3, <3>3 DEF Newest
  <2> QED BY <2>2, <2>3
<1>10. ASSUME NEW z \in Endpoint, z # i, NEW v \in State, Source(z, v)
       PROVE  Source(z, v)'
  BY <1>2, <1>4, <1>10 DEF Source
<1>11. Sourced'
  <2> SUFFICES ASSUME NEW b \in Ble, InQueue(b)' \/ held'[b] # "none"
               PROVE  \E v \in State : LastCommand(b, v)'
                         /\ \E z \in Link(b) \ Ble : Source(z, v)'
    BY DEF Sourced
  <2>1. CASE b \in Link(i) /\ b # i
    <3>1. LastCommand(b, d)'
      BY <1>5, <1>7, <2>1 DEF LastCommand
    <3>2. i \in Link(b) \ Ble
      BY <1>1, <1>7, <2>1, SameLink, TargetsType
    <3>3. Source(i, d)'
      <4>1. CASE state[i] = d
        BY <1>2, <4>1 DEF Source
      <4>2. CASE state[i] # d
        <5>1. InFlight(i, state[i])
          BY <1>3, <3>2, NewestInFlight
        <5>2. InFlight(i, state[i])'
          BY <1>2, <1>4, <4>2, <5>1
        <5> QED BY <1>2, <4>2, <5>2 DEF Source
      <4> QED BY <4>1, <4>2
    <3> QED BY <3>1, <3>2, <3>3
  <2>2. CASE ~ (b \in Link(i) /\ b # i)
    <3>1. InQueue(b) \/ held[b] # "none"
      BY <1>2, <1>5, <1>7, <2>2
    <3>2. PICK v \in State : LastCommand(b, v) /\ \E z \in Link(b) \ Ble : Source(z, v)
      BY <3>1 DEF Agreeing, Sourced
    <3>3. LastCommand(b, v)'
      BY <1>2, <1>5, <1>7, <2>2, <3>2 DEF LastCommand
    <3>4. PICK z \in Link(b) \ Ble : Source(z, v)
      BY <3>2
    <3>5. z \in Endpoint /\ z # i
      BY <1>6, <1>7, <2>2, TargetsType
    <3>6. Source(z, v)'
      BY <1>10, <3>4, <3>5
    <3> QED BY <3>3, <3>6
  <2> QED BY <2>1, <2>2
<1>12. Outdated'
  <2> SUFFICES ASSUME NEW b \in Ble, Has(reports'[b], "status"),
                      state'[b] # held'[b], ~ Newest(b)'
               PROVE  \/ Queued(b, state[b])'
                      \/ \E z \in Link(b) \ Ble : Return(z, held[b], state[b])'
    BY DEF Outdated
  <2>1. /\ b \in Endpoint /\ Has(reports[b], "status") /\ held[b] # "none"
    BY <1>2, <1>7 DEF Agreeing, MeshInv
  <2>2. PICK p \in State, w \in State : p = held[b] /\ w = state[b]
    BY <2>1, HeldType DEF Types, DeviceTypes
  <2>3. p # w /\ Link(b) \subseteq Endpoint
    BY <1>2, <2>1, <2>2, TargetsType
  <2>4. ASSUME NEW z \in Link(b) \ Ble, Return(z, p, w), z # i
        PROVE  Return(z, p, w)'
    BY <1>2, <1>4, <1>5, <2>3, <2>4 DEF Return
  <2>5. ASSUME NEW z \in Link(b) \ Ble, Return(z, p, w), z = i
        PROVE  Return(z, p, w)' \/ Queued(b, w)'
    <3>1. b \in Link(i) /\ b # i
      BY <1>6, <2>1, <2>5, TargetsType
    <3>2. CASE InFlight(z, w) /\ w = d
      BY <1>5, <2>1, <3>1, <3>2
    <3>3. CASE InFlight(z, w) /\ w # d
      BY <1>4, <2>5, <3>3 DEF Return
    <3>4. CASE state[z] = p /\ Waiting(z, w)
      BY <1>2, <1>5, <2>5, <3>4 DEF Return
    <3> QED BY <2>5, <3>2, <3>3, <3>4 DEF Return
  <2>6. ASSUME Newest(b)
        PROVE  Queued(b, w)' \/ \E z \in Link(b) \ Ble : Return(z, p, w)'
    <3>1. b = i /\ d = w
      BY <1>4, <2>1, <2>2, <2>6
    <3>2. PICK v \in State : LastCommand(b, v) /\ \E z \in Link(b) \ Ble : Source(z, v)
      BY <2>1 DEF Agreeing, Sourced
    <3>3. CASE v = w
      <4>1. InQueue(b)
        BY <2>2, <2>3, <3>2, <3>3 DEF LastCommand
      <4>2. LastIs(Queue(b), b, w)
        BY <1>2, <3>2, <3>3, <4>1 DEF LastCommand, ToBe
      <4>3. Queued(b, w)
        BY <4>2, LastIsFound DEF Queued
      <4> QED BY <1>5, <2>1, <4>3
    <3>4. CASE v # w
      <4>1. v = p
        BY <2>3, <3>4, TwoStates
      <4>2. PICK z \in Link(b) \ Ble : Source(z, p)
        BY <3>2, <4>1
      <4>3. z \in Link(i) /\ z # i /\ z \in Endpoint
        BY <2>3, <3>1, <4>2
      <4>4. CASE state[z] = p
        BY <1>2, <1>5, <3>1, <4>3, <4>4 DEF Return
      <4>5. ASSUME NEW y \in State \ {p}, InFlight(z, y) PROVE Return(z, p, w)'
        <5>1. y = w
          BY <2>3, <4>5, TwoStates
        <5> QED BY <1>4, <4>3, <4>5, <5>1 DEF Return
      <4> QED BY <4>2, <4>4, <4>5 DEF Source
    <3> QED BY <3>3, <3>4
  <2>7. Queued(b, w) => Queued(b, w)'
    BY <1>5, <2>1
  <2>8. Queued(b, w)' \/ \E z \in Link(b) \ Ble : Return(z, p, w)'
    BY <1>2, <2>1, <2>2, <2>3, <2>4, <2>5, <2>6, <2>7 DEF Agreeing, Outdated
  <2> QED BY <1>2, <2>2, <2>8
<1>13. LinksOk'
  <2> SUFFICES ASSUME NEW u \in Endpoint \ Ble PROVE LinkOk(u)'
    BY DEF LinksOk
  <2>1. PICK v \in State, s \in Link(u) :
          /\ \A z \in Link(u) \ Ble : ZigbeeOk(z, s, v)
          /\ Stirred(u) \/ \A b \in Link(u) \cap Ble : BleOk(b, v)
    BY DEF Agreeing, LinksOk, LinkOk
  <2>2. u \in Link(u) /\ Link(u) \subseteq Endpoint
    BY TargetsType
  <2>3. CASE i \in Link(u)
    <3>1. Link(u) = Link(i)
      BY <1>6, <2>3
    <3>2. ASSUME NEW z \in Link(u) \ Ble PROVE ZigbeeOk(z, i, d)'
      <4>1. CASE z = i
        BY <1>2, <1>3, <1>4, <4>1 DEF ZigbeeOk
      <4>2. CASE z # i
        <5>1. z \in Endpoint /\ InQueue(z)' /\ ToBe(z, d)'
          BY <1>5, <2>2, <3>1, <4>2
        <5> QED BY <4>2, <5>1 DEF ZigbeeOk, Dest
      <4> QED BY <4>1, <4>2
    <3>3. ASSUME ~ Stirred(u)', NEW b \in Link(u) \cap Ble PROVE BleOk(b, d)'
      <4>1. CASE b # i
        <5>1. b \in Endpoint /\ InQueue(b)' /\ ToBe(b, d)'
          BY <1>5, <2>2, <3>1, <4>1
        <5> QED BY <5>1 DEF BleOk
      <4>2. CASE b = i
        <5>1. /\ ~ Stirred(u) /\ ~ Changing(u)' /\ ~ Changing(u) /\ ~ Fresh(u)
          BY <1>4, <1>5, <2>2, <3>3, <4>2 DEF Stirred
        <5>2. Waiting(u, d)'
          BY <1>5, <2>2, <3>1, <4>2
        <5>3. state[u] = d
          BY <1>1, <1>2, <5>1, <5>2 DEF Changing
        <5>4. state[u] = v
          <6>1. ZigbeeOk(u, s, v)
            BY <2>1, <2>2
          <6> QED BY <5>1, <6>1, DestReached DEF ZigbeeOk
        <5>5. BleOk(b, d)
          BY <2>1, <3>3, <5>1, <5>3, <5>4
        <5>6. /\ InQueue(b)' <=> InQueue(b)
              /\ ToBe(b, d) => ToBe(b, d)'
          BY <1>5, <4>2
        <5>7. Newest(b) => Newest(b)' \/ state[b] = d
          BY <1>4, <4>2
        <5> QED BY <1>2, <5>5, <5>6, <5>7 DEF BleOk
      <4> QED BY <4>1, <4>2
    <3> QED BY <1>1, <2>3, <3>2, <3>3 DEF LinkOk
  <2>4. CASE i \notin Link(u)
    <3>1. ASSUME NEW t \in Link(u)
          PROVE  t \in Endpoint /\ t # i /\ t \notin Link(i)
      <4>1. t \in Endpoint /\ Link(t) = Link(u) /\ i \in Link(i)
        BY <3>1, SameLink, TargetsType
      <4>2. ASSUME t \in Link(i) PROVE Link(t) = Link(i)
        BY <4>2, SameLink
      <4> QED BY <2>4, <4>1, <4>2
    <3>2. \A z \in Link(u) \ Ble : ZigbeeOk(z, s, v)'
      BY <1>2, <1>4, <1>5, <2>1, <3>1 DEF ZigbeeOk
    <3>3. Stirred(u) => Stirred(u)'
      BY <1>4, <1>5, <3>1 DEF Stirred
    <3>4. ASSUME NEW b \in Link(u) \cap Ble, BleOk(b, v) PROVE BleOk(b, v)'
      <4>1. /\ InQueue(b)' <=> InQueue(b)
            /\ ToBe(b, v) => ToBe(b, v)'
            /\ Newest(b) => Newest(b)'
        BY <1>4, <1>5, <3>1
      <4> QED BY <1>2, <3>4, <4>1 DEF BleOk
    <3> QED BY <2>1, <3>2, <3>3, <3>4 DEF LinkOk
  <2> QED BY <2>3, <2>4
<1> QED BY <1>8, <1>9, <1>11, <1>12, <1>13 DEF Agreeing

\* A member of the link goes from tokens into the queue of its radio.
LEMMA DealtOut ==
  ASSUME Types, Deal, ~ lost', NEW t \in Endpoint
  PROVE  /\ InQueue(t)' <=> InQueue(t)
         /\ \A v : ToBe(t, v) => ToBe(t, v)'
         /\ \A v : Queued(t, v) => Queued(t, v)'
<1>1. PICK n \in Endpoint : n = Head(tokens)
  BY DealTypes
<1> DEFINE x == [id |-> n, state |-> item]
<1>2. x \in Item /\ x.id = n /\ x.state = item
  BY ItemType DEF Types, TaskTypes
<1>3. Member(tokens) = Member(tokens') \cup {n} /\ item' = item
  BY <1>1, DealTypes DEF Deal
<1>4. /\ queueCmdBLE \in Seq(Item) /\ queueCmdZigbee \in Seq(Item)
      /\ Len(queueCmdBLE) \in Nat /\ Len(queueCmdZigbee) \in Nat /\ CmdCap \in Nat
  BY BoundAssumption DEF Types, TaskTypes
<1>5. /\ n \in Ble => /\ queueCmdBLE' = Append(queueCmdBLE, x)
                      /\ queueCmdZigbee' = queueCmdZigbee
      /\ n \notin Ble => /\ queueCmdZigbee' = Append(queueCmdZigbee, x)
                         /\ queueCmdBLE' = queueCmdBLE
  <2>1. CASE n \in Ble
    <3>1. /\ queueCmdBLE' = Offer(queueCmdBLE, CmdCap, x)
          /\ ~ (Len(queueCmdBLE) >= CmdCap)
          /\ queueCmdZigbee' = queueCmdZigbee
      BY <1>1, <2>1 DEF Deal, Dropped, x
    <3> QED BY <1>4, <2>1, <3>1 DEF Offer
  <2>2. CASE n \notin Ble
    <3>1. /\ queueCmdZigbee' = Offer(queueCmdZigbee, CmdCap, x)
          /\ ~ (Len(queueCmdZigbee) >= CmdCap)
          /\ queueCmdBLE' = queueCmdBLE
      BY <1>1, <2>2 DEF Deal, Dropped, x
    <3> QED BY <1>4, <2>2, <3>1 DEF Offer
  <2> QED BY <2>1, <2>2
<1> HIDE DEF x
<1>6. \/ Queue(t)' = Append(Queue(t), x)
      \/ t # n /\ Queue(t)' = Queue(t)
  BY <1>5 DEF Queue
<1>7. Queue(t) \in Seq(Item)
  BY <1>4 DEF Queue
<1>8. /\ Member(Queue(t)) \subseteq Member(Queue(t)')
      /\ Member(Queue(t)') \subseteq Member(Queue(t)) \cup {x}
      /\ t = n => x \in Member(Queue(t)')
  <2>1. Member(Append(Queue(t), x)) = Member(Queue(t)) \cup {x}
    BY <1>2, <1>7, MemberAppend
  <2>2. CASE Queue(t)' = Append(Queue(t), x)
    BY <2>1, <2>2
  <2>3. CASE t # n /\ Queue(t)' = Queue(t)
    BY <2>3
  <2> QED BY <1>6, <2>2, <2>3
<1>9. InQueue(t)' <=> InQueue(t)
  BY <1>2, <1>3, <1>8 DEF InQueue, HasId
<1>10. ASSUME NEW v, ToBe(t, v) PROVE ToBe(t, v)'
  <2>1. CASE t \in Member(tokens')
    BY <1>3, <1>10, <2>1 DEF ToBe
  <2>2. CASE t \notin Member(tokens') /\ t = n
    <3>1. item = v
      BY <1>3, <1>10, <2>2 DEF ToBe
    <3>2. LastIs(Append(Queue(t), x), t, item)
      BY <1>2, <1>7, <2>2, LastIsAppended
    <3> QED BY <1>6, <2>2, <3>1, <3>2 DEF ToBe
  <2>3. CASE t \notin Member(tokens') /\ t # n
    <3>1. LastIs(Queue(t), t, v)
      BY <1>3, <1>10, <2>3 DEF ToBe
    <3>2. LastIs(Append(Queue(t), x), t, v)
      BY <1>2, <1>7, <2>3, <3>1, LastIsAppended
    <3> QED BY <1>6, <2>3, <3>1, <3>2 DEF ToBe
  <2> QED BY <2>1, <2>2, <2>3
<1>11. \A v : Queued(t, v) => Queued(t, v)'
  BY <1>2, <1>3, <1>8 DEF Queued
<1> QED BY <1>9, <1>10, <1>11

LEMMA DealAgreeing ==
  ASSUME Types, Calm, Agreeing, Deal, ~ lost'
  PROVE  Agreeing'
<1>1. /\ reports' = reports /\ queueIdButton' = queueIdButton
      /\ state' = state /\ commands' = commands /\ held' = held
      /\ stateButtonBLE' = stateButtonBLE /\ mqtt' = mqtt
  BY HeldStays DEF Deal, radio
<1>2. ASSUME NEW t \in Endpoint
      PROVE  /\ Fresh(t)' <=> Fresh(t)
             /\ \A w : InFlight(t, w)' <=> InFlight(t, w)
             /\ Newest(t)' <=> Newest(t)
             /\ InQueue(t)' <=> InQueue(t)
             /\ \A w : ToBe(t, w) => ToBe(t, w)'
             /\ \A w : Queued(t, w) => Queued(t, w)'
  BY <1>1, SameReports, DealtOut
<1>3. ASSUME NEW t \in Endpoint
      PROVE  /\ \A w : Waiting(t, w) => Waiting(t, w)'
             /\ \A w : Dest(t, w) => Dest(t, w)'
             /\ Changing(t) => Changing(t)'
  <2>1. \A w : Waiting(t, w) => Waiting(t, w)'
    BY <1>1, <1>2 DEF Waiting
  <2> QED BY <1>1, <1>2, <2>1 DEF Dest, Changing
<1>4. MeshInv'
  <2>1. ASSUME NEW x \in Member(queueCmdBLE') PROVE x.id \in Ble
    <3>1. CASE Head(tokens) \notin Ble
      BY <2>1, <3>1 DEF Deal, Agreeing, MeshInv
    <3>2. CASE Head(tokens) \in Ble
      <4>1. PICK n \in Endpoint : n = Head(tokens)
        BY DealTypes
      <4> DEFINE y == [id |-> n, state |-> item]
      <4>2. y \in Item /\ y.id = n
        BY ItemType DEF Types, TaskTypes
      <4>3. queueCmdBLE' = Offer(queueCmdBLE, CmdCap, y)
        BY <3>2, <4>1 DEF Deal
      <4> HIDE DEF y
      <4>4. /\ queueCmdBLE \in Seq(Item) /\ Len(queueCmdBLE) <= CmdCap
            /\ CmdCap \in Nat
        BY BoundAssumption DEF Types, TaskTypes
      <4>5. x \in Member(queueCmdBLE) \cup {y}
        BY <2>1, <4>2, <4>3, <4>4, Offered
      <4> QED BY <3>2, <4>1, <4>2, <4>5 DEF Agreeing, MeshInv
    <3> QED BY <3>1, <3>2
  <2> QED BY <1>1, <2>1 DEF Agreeing, MeshInv
<1>5. NewestInv'
  BY <1>2 DEF Agreeing, NewestInv
<1>6. Sourced'
  <2>1. ASSUME NEW b \in Ble
        PROVE  /\ InQueue(b)' \/ held'[b] # "none"
                    => InQueue(b) \/ held[b] # "none"
               /\ \A d \in State : LastCommand(b, d) => LastCommand(b, d)'
    BY <1>1, <1>2, LinkAssumption DEF LastCommand
  <2>2. ASSUME NEW z \in Endpoint \ Ble, NEW d \in State, Source(z, d)
        PROVE  Source(z, d)'
    BY <1>1, <1>2, <2>2 DEF Source
  <2> QED BY <2>1, <2>2, SourcedKept
<1>7. Outdated'
  <2>1. ASSUME NEW b \in Ble
        PROVE  /\ Has(reports'[b], "status") /\ state'[b] # held'[b] =>
                    \/ Newest(b)'
                    \/ /\ Has(reports[b], "status") /\ ~ Newest(b)
                       /\ state'[b] = state[b] /\ held'[b] = held[b]
               /\ \A w : Queued(b, w) => Queued(b, w)'
    BY <1>1, <1>2, LinkAssumption
  <2>2. ASSUME NEW z \in Endpoint \ Ble, NEW p \in State, NEW w \in State,
               Return(z, p, w)
        PROVE  Return(z, p, w)'
    BY <1>1, <1>2, <1>3, <2>2 DEF Return
  <2> QED BY <2>1, <2>2, OutdatedKept
<1>8. LinksOk'
  <2>1. ASSUME NEW z \in Endpoint \ Ble
        PROVE  /\ \A s : \A d \in State : ZigbeeOk(z, s, d) => ZigbeeOk(z, s, d)'
               /\ Fresh(z) \/ Changing(z) => Fresh(z)' \/ Changing(z)'
    BY <1>1, <1>2, <1>3 DEF ZigbeeOk
  <2>2. ASSUME NEW b \in Ble, NEW d \in State, BleOk(b, d)
        PROVE  BleOk(b, d)'
    BY <1>1, <1>2, <2>2, LinkAssumption DEF BleOk
  <2> QED BY <2>1, <2>2, LinksKept
<1> QED BY <1>4, <1>5, <1>6, <1>7, <1>8 DEF Agreeing

\* The first command of a queue is sent.
LEMMA ZigbeeSent ==
  ASSUME Types, SendCommandZigbee, NEW t \in Endpoint \ Ble
  PROVE  /\ \A v : Waiting(t, v) => Waiting(t, v)'
         /\ \A v : Dest(t, v) => Dest(t, v)'
         /\ Changing(t) => Changing(t)'
<1>1. PICK i \in Endpoint, d \in State :
        i = Head(queueCmdZigbee).id /\ d = Head(queueCmdZigbee).state
  BY SendCommandZigbeeTypes DEF Item
<1>2. /\ queueCmdZigbee \in Seq(Item) /\ queueCmdZigbee # <<>>
      /\ queueCmdZigbee' = Tail(queueCmdZigbee)
      /\ Queue(t) = queueCmdZigbee /\ Queue(t)' = queueCmdZigbee'
      /\ tokens' = tokens /\ item' = item /\ state' = state
  BY DEF SendCommandZigbee, Types, TaskTypes, Queue
<1>3. Member(queueCmdZigbee) = Member(queueCmdZigbee') \cup {Head(queueCmdZigbee)}
  BY <1>2, MemberTail
<1>4. /\ commands[t] \in Seq(State)
      /\ IF t = i THEN commands'[t] = Append(commands[t], d)
                  ELSE commands'[t] = commands[t]
  BY <1>1 DEF SendCommandZigbee, Push, Types, DeviceTypes
<1>5. ASSUME t = i
      PROVE  /\ Member(commands'[t]) = Member(commands[t]) \cup {d}
             /\ commands'[t] # <<>> /\ LastOf(commands'[t]) = d
  <2>1. commands'[t] = Append(commands[t], d)
    BY <1>4, <1>5
  <2>2. /\ Member(Append(commands[t], d)) = Member(commands[t]) \cup {d}
        /\ Append(commands[t], d) # <<>>
    BY <1>4, MemberAppend
  <2>3. LastOf(Append(commands[t], d)) = d
    BY <1>4, LastAppend
  <2> QED BY <2>1, <2>2, <2>3
<1>6. ASSUME NEW v, Waiting(t, v) PROVE Waiting(t, v)'
  BY <1>1, <1>2, <1>3, <1>4, <1>5, <1>6 DEF Waiting, Queued
<1>7. ASSUME NEW v, Dest(t, v) PROVE Dest(t, v)'
  <2>1. CASE t \in Member(tokens)
    BY <1>2, <1>7, <2>1 DEF Dest, InQueue, ToBe
  <2>2. CASE t \notin Member(tokens) /\ HasId(queueCmdZigbee, t)
    <3>1. LastIs(queueCmdZigbee, t, v)
      BY <1>2, <1>7, <2>2 DEF Dest, InQueue, ToBe
    <3>2. IF HasId(queueCmdZigbee', t) THEN LastIs(queueCmdZigbee', t, v)
          ELSE i = t /\ d = v
      BY <1>1, <1>2, <3>1, LastIsOfTail
    <3> QED BY <1>2, <1>5, <2>2, <3>2 DEF Dest, InQueue, ToBe
  <2>3. CASE t \notin Member(tokens) /\ ~ HasId(queueCmdZigbee, t)
    <3>1. t # i /\ ~ HasId(queueCmdZigbee', t)
      BY <1>1, <1>3, <2>3 DEF HasId
    <3> QED BY <1>2, <1>4, <1>7, <2>3, <3>1 DEF Dest, InQueue
  <2> QED BY <2>1, <2>2, <2>3
<1>8. Changing(t) => Changing(t)'
  BY <1>2, <1>6 DEF Changing
<1> QED BY <1>6, <1>7, <1>8

LEMMA SendCommandZigbeeAgreeing ==
  ASSUME Types, Calm, Agreeing, SendCommandZigbee
  PROVE  Agreeing'
<1>1. /\ reports' = reports /\ queueIdButton' = queueIdButton
      /\ state' = state /\ held' = held
      /\ stateButtonBLE' = stateButtonBLE /\ mqtt' = mqtt
      /\ queueCmdBLE' = queueCmdBLE /\ tokens' = tokens /\ item' = item
  BY HeldStays DEF SendCommandZigbee
<1>2. ASSUME NEW t \in Endpoint
      PROVE  /\ Fresh(t)' <=> Fresh(t)
             /\ \A w : InFlight(t, w)' <=> InFlight(t, w)
             /\ Newest(t)' <=> Newest(t)
  BY <1>1, SameReports
<1>3. ASSUME NEW b \in Ble
      PROVE  /\ b \in Endpoint /\ commands'[b] = commands[b]
             /\ InQueue(b)' <=> InQueue(b)
             /\ \A w : ToBe(b, w)' <=> ToBe(b, w)
             /\ \A w : Queued(b, w)' <=> Queued(b, w)
  <2>1. b \in Endpoint /\ b # Head(queueCmdZigbee).id
    BY SendCommandZigbeeTypes, LinkAssumption DEF Types, ProtocolInv
  <2>2. commands'[b] = commands[b]
    BY <2>1 DEF SendCommandZigbee, Push, Types, DeviceTypes
  <2>3. Queue(b)' = Queue(b)
    BY <1>1 DEF Queue
  <2>4. InQueue(b)' <=> InQueue(b)
    BY <1>1, <2>3 DEF InQueue
  <2>5. \A w : ToBe(b, w)' <=> ToBe(b, w)
    BY <1>1, <2>3 DEF ToBe
  <2>6. \A w : Queued(b, w)' <=> Queued(b, w)
    BY <1>1, <2>3 DEF Queued
  <2> QED BY <2>1, <2>2, <2>4, <2>5, <2>6
<1>4. MeshInv'
  BY <1>1, <1>3 DEF Agreeing, MeshInv
<1>5. NewestInv'
  BY <1>2 DEF Agreeing, NewestInv
<1>6. Sourced'
  <2>1. ASSUME NEW b \in Ble
        PROVE  /\ InQueue(b)' \/ held'[b] # "none"
                    => InQueue(b) \/ held[b] # "none"
               /\ \A d \in State : LastCommand(b, d) => LastCommand(b, d)'
    BY <1>1, <1>3 DEF LastCommand
  <2>2. ASSUME NEW z \in Endpoint \ Ble, NEW d \in State, Source(z, d)
        PROVE  Source(z, d)'
    BY <1>1, <1>2, <2>2 DEF Source
  <2> QED BY <2>1, <2>2, SourcedKept
<1>7. Outdated'
  <2>1. ASSUME NEW b \in Ble
        PROVE  /\ Has(reports'[b], "status") /\ state'[b] # held'[b] =>
                    \/ Newest(b)'
                    \/ /\ Has(reports[b], "status") /\ ~ Newest(b)
                       /\ state'[b] = state[b] /\ held'[b] = held[b]
               /\ \A w : Queued(b, w) => Queued(b, w)'
    BY <1>1, <1>2, <1>3
  <2>2. ASSUME NEW z \in Endpoint \ Ble, NEW p \in State, NEW w \in State,
               Return(z, p, w)
        PROVE  Return(z, p, w)'
    BY <1>1, <1>2, <2>2, ZigbeeSent DEF Return
  <2> QED BY <2>1, <2>2, OutdatedKept
<1>8. LinksOk'
  <2>1. ASSUME NEW z \in Endpoint \ Ble
        PROVE  /\ \A s : \A d \in State : ZigbeeOk(z, s, d) => ZigbeeOk(z, s, d)'
               /\ Fresh(z) \/ Changing(z) => Fresh(z)' \/ Changing(z)'
    BY <1>1, <1>2, ZigbeeSent DEF ZigbeeOk
  <2>2. ASSUME NEW b \in Ble, NEW d \in State, BleOk(b, d)
        PROVE  BleOk(b, d)'
    BY <1>1, <1>2, <1>3, <2>2 DEF BleOk
  <2> QED BY <2>1, <2>2, LinksKept
<1> QED BY <1>4, <1>5, <1>6, <1>7, <1>8 DEF Agreeing

\* The newer command to the one BLE button is the one that is repeated.
LEMMA HeldCommanded ==
  ASSUME Types, Agreeing, RepeatInv, OneBle, SendCommandBLE, ~ lost',
         NEW i \in Ble, NEW d \in State, i \in Endpoint,
         NEW x, x = Head(queueCmdBLE), i = x.id, d = x.state
  PROVE  /\ held'[i] = d /\ (held[i] # "none" => held[i] = d)
         /\ \A t \in Endpoint \ {i} : held'[t] = held[t]
         /\ pending[i] # "none" => held[i] # "none"
         /\ pending[i] = "none" /\ held[i] # "none" =>
              commands[i] = <<>> /\ ~ Has(reports[i], "status")
<1>1. /\ x \in Item /\ Send(i, d) /\ ~ Refused(i, d)
      /\ \A r \in Member(repeat) : ~ Spoilt(r, x)
      /\ repeat' = [k \in DOMAIN repeat |-> Overtaken(repeat[k], x)]
  <2>1. /\ x \in Item /\ Send(x.id, x.state)
        /\ repeat' = [k \in DOMAIN repeat |-> Overtaken(repeat[k], x)]
        /\ lost' = (lost \/ Refused(x.id, x.state)
                         \/ \E r \in Member(repeat) : Spoilt(r, x))
    BY SendCommandBLETypes
  <2> QED BY <2>1
<1>2. /\ pending'[i] = d /\ \A t \in Endpoint \ {i} : pending'[t] = pending[t]
      /\ pending[i] # "none" => pending[i] = d
      /\ d # "none"
  BY <1>1, Commanded DEF Refused, State
<1>3. held'[i] = d
  BY <1>2 DEF held
<1>4. CASE TaskFree
  <2>1. Member(repeat) = {} /\ Member(repeat') = {}
    BY <1>1, <1>4, RepeatOvertaken, MemberOfEmpty DEF TaskFree
  <2>2. \A t \in Endpoint \ {i} : held'[t] = held[t]
    BY <1>2, <2>1 DEF held
  <2>3. held[i] = pending[i]
    BY <2>1 DEF held
  <2> QED BY <1>2, <1>3, <2>2, <2>3
<1>5. CASE ~ TaskFree
  <2> DEFINE q == repeat[1]
  <2>1. /\ q.id = i /\ q \in Call /\ held[i] = q.state
        /\ Member(repeat) = {q}
    BY <1>5, RepeatBle DEF OneBle
  <2>2. Member(repeat') = {Overtaken(q, x)}
    BY <1>1, <1>5, RepeatOvertaken, MemberOfOne
  <2> HIDE DEF q
  <2>3. q.state = d /\ Overtaken(q, x).id = i
    BY <1>1, <2>1, NotSpoilt
  <2>4. \A t \in Endpoint \ {i} : held'[t] = held[t]
    BY <1>2, <2>1, <2>2, <2>3 DEF held
  <2>5. pending[i] = "none" => commands[i] = <<>> /\ ~ Has(reports[i], "status")
    BY <2>1 DEF RepeatInv
  <2> QED BY <1>2, <1>3, <2>1, <2>3, <2>4, <2>5
<1> QED BY <1>4, <1>5

LEMMA SendCommandBLEAgreeing ==
  ASSUME Types, Calm, Agreeing, RepeatInv, SendCommandBLE, ~ lost'
  PROVE  Agreeing'
<1>1. PICK i \in Ble, d \in State :
        /\ i = Head(queueCmdBLE).id /\ d = Head(queueCmdBLE).state
        /\ i \in Endpoint /\ Send(i, d)
        /\ Head(queueCmdBLE) \in Member(queueCmdBLE)
        /\ Member(queueCmdBLE) = Member(queueCmdBLE') \cup {Head(queueCmdBLE)}
  BY SendCommandBLETypes DEF Agreeing, MeshInv
<1>2. /\ reports' = reports /\ queueIdButton' = queueIdButton
      /\ state' = state /\ mqtt' = mqtt /\ queueCmdZigbee' = queueCmdZigbee
      /\ tokens' = tokens /\ item' = item
      /\ queueCmdBLE \in Seq(Item) /\ queueCmdBLE # <<>>
      /\ queueCmdBLE' = Tail(queueCmdBLE)
  BY DEF SendCommandBLE, Types, TaskTypes
<1>3. \A b \in Ble : b = i
  BY <1>1 DEF Calm, OneBle
<1>4. /\ held'[i] = d /\ stateButtonBLE' = d /\ d # "none"
      /\ held[i] # "none" => held[i] = d
      /\ \A t \in Endpoint \ {i} :
           held'[t] = held[t] /\ commands'[t] = commands[t]
      /\ IF pending[i] = "none" THEN commands'[i] = Append(commands[i], d)
                                ELSE commands'[i] = commands[i]
      /\ pending[i] # "none" => held[i] # "none"
      /\ pending[i] = "none" /\ held[i] # "none" =>
           commands[i] = <<>> /\ ~ Has(reports[i], "status")
  <2>1. /\ held'[i] = d /\ (held[i] # "none" => held[i] = d)
        /\ \A t \in Endpoint \ {i} : held'[t] = held[t]
        /\ pending[i] # "none" => held[i] # "none"
        /\ pending[i] = "none" /\ held[i] # "none" =>
             commands[i] = <<>> /\ ~ Has(reports[i], "status")
    BY <1>1, HeldCommanded DEF Calm
  <2>2. \A t \in Endpoint \ {i} : commands'[t] = commands[t]
    BY <1>1, Commanded
  <2>3. IF pending[i] = "none" THEN commands'[i] = Append(commands[i], d)
                               ELSE commands'[i] = commands[i]
    BY <1>1 DEF Send, Push, Types, DeviceTypes
  <2>4. d # "none"
    BY DEF State
  <2>5. stateButtonBLE' = d
    BY <1>1 DEF SendCommandBLE, KeepValue
  <2> QED BY <2>1, <2>2, <2>3, <2>4, <2>5
<1>5. ASSUME NEW t \in Endpoint
      PROVE  /\ Fresh(t)' <=> Fresh(t)
             /\ \A w : InFlight(t, w)' <=> InFlight(t, w)
             /\ Newest(t)' <=> Newest(t)
  BY <1>2, SameReports
<1>6. ASSUME NEW z \in Endpoint \ Ble
      PROVE  /\ \A w : Waiting(z, w)' <=> Waiting(z, w)
             /\ \A w : Dest(z, w)' <=> Dest(z, w)
             /\ Changing(z)' <=> Changing(z)
  <2>1. Queue(z)' = Queue(z) /\ commands'[z] = commands[z]
    BY <1>2, <1>4 DEF Queue
  <2>2. \A w : Waiting(z, w)' <=> Waiting(z, w)
    BY <1>2, <2>1 DEF Waiting, Queued
  <2>3. InQueue(z)' <=> InQueue(z)
    BY <1>2, <2>1 DEF InQueue
  <2>4. \A w : ToBe(z, w)' <=> ToBe(z, w)
    BY <1>2, <2>1 DEF ToBe
  <2>5. \A w : Dest(z, w)' <=> Dest(z, w)
    BY <1>2, <2>1, <2>3, <2>4 DEF Dest
  <2> QED BY <1>2, <2>2, <2>5 DEF Changing
<1>7. /\ InQueue(i)
      /\ \A w : ToBe(i, w) => IF InQueue(i)' THEN ToBe(i, w)' ELSE w = d
      /\ \A w : Queued(i, w) /\ w # d => Queued(i, w)' /\ InQueue(i)'
  <2>1. Queue(i) = queueCmdBLE /\ Queue(i)' = queueCmdBLE'
    BY DEF Queue
  <2>2. InQueue(i)
    BY <1>1, <2>1 DEF InQueue, HasId
  <2>3. ASSUME NEW w, ToBe(i, w) PROVE IF InQueue(i)' THEN ToBe(i, w)' ELSE w = d
    <3>1. CASE i \in Member(tokens)
      BY <1>2, <2>3, <3>1 DEF InQueue, ToBe
    <3>2. CASE i \notin Member(tokens)
      <4>1. LastIs(queueCmdBLE, i, w)
        BY <2>1, <2>3, <3>2 DEF ToBe
      <4>2. IF HasId(queueCmdBLE', i) THEN LastIs(queueCmdBLE', i, w) ELSE d = w
        BY <1>1, <1>2, <4>1, LastIsOfTail
      <4> QED BY <1>2, <2>1, <3>2, <4>2 DEF InQueue, ToBe
    <3> QED BY <3>1, <3>2
  <2>4. ASSUME NEW w, Queued(i, w), w # d PROVE Queued(i, w)' /\ InQueue(i)'
    BY <1>1, <1>2, <2>1, <2>4 DEF Queued, InQueue, HasId
  <2> QED BY <2>2, <2>3, <2>4
<1>8. MeshInv'
  <2>1. \A x \in Member(queueCmdBLE') : x.id \in Ble
    BY <1>1 DEF Agreeing, MeshInv
  <2>2. \A t \in Endpoint : held'[t] # "none" => t \in Ble
    BY <1>4 DEF Agreeing, MeshInv
  <2>3. ASSUME NEW t \in Ble
        PROVE  /\ IF held'[t] = "none"
                  THEN commands'[t] = <<>> /\ ~ Has(reports'[t], "status")
                  ELSE stateButtonBLE' = held'[t]
               /\ commands'[t] # <<>> =>
                    commands'[t] = <<held'[t]>> /\ ~ Has(reports'[t], "status")
               /\ OneStatus(reports'[t])
    <3>1. t = i
      BY <1>3
    <3>2. CASE pending[i] = "none"
      <4>1. commands[i] = <<>> /\ ~ Has(reports[i], "status")
        BY <1>4, <3>2 DEF Agreeing, MeshInv
      <4>2. commands'[i] = <<d>>
        BY <1>4, <3>2, <4>1
      <4> QED BY <1>2, <1>4, <3>1, <4>1, <4>2 DEF Agreeing, MeshInv
    <3>3. CASE pending[i] # "none"
      BY <1>2, <1>4, <3>1, <3>3 DEF Agreeing, MeshInv
    <3> QED BY <3>2, <3>3
  <2> QED BY <1>2, <2>1, <2>2, <2>3 DEF Agreeing, MeshInv
<1>9. NewestInv'
  BY <1>5 DEF Agreeing, NewestInv
<1>10. Sourced'
  <2>1. ASSUME NEW b \in Ble
        PROVE  /\ InQueue(b)' \/ held'[b] # "none"
                    => InQueue(b) \/ held[b] # "none"
               /\ \A v \in State : LastCommand(b, v) => LastCommand(b, v)'
    <3>1. b = i
      BY <1>3
    <3> QED BY <1>4, <1>7, <3>1 DEF LastCommand
  <2>2. ASSUME NEW z \in Endpoint \ Ble, NEW v \in State, Source(z, v)
        PROVE  Source(z, v)'
    BY <1>2, <1>5, <2>2 DEF Source
  <2> QED BY <2>1, <2>2, SourcedKept
<1>11. Link(i) \subseteq Endpoint
  BY <1>1, TargetsType
<1>12. Outdated'
  <2> SUFFICES ASSUME Has(reports'[i], "status"), state'[i] # held'[i]
               PROVE  \/ Newest(i)'
                      \/ Queued(i, state[i])'
                      \/ \E z \in Link(i) \ Ble : Return(z, held[i], state[i])'
    BY <1>3 DEF Outdated
  <2>1. Has(reports[i], "status") /\ held[i] = d /\ state[i] # d
    BY <1>2, <1>4 DEF Agreeing, MeshInv
  <2>2. \/ Newest(i) \/ Queued(i, state[i])
        \/ \E z \in Link(i) \ Ble : Return(z, d, state[i])
    BY <2>1 DEF Agreeing, Outdated
  <2>3. Newest(i) => Newest(i)'
    BY <1>1, <1>5
  <2>4. Queued(i, state[i]) => Queued(i, state[i])'
    BY <1>2, <1>7, <2>1
  <2>5. ASSUME NEW z \in Link(i) \ Ble, Return(z, d, state[i])
        PROVE  Return(z, held[i], state[i])'
    BY <1>2, <1>4, <1>5, <1>6, <1>11, <2>5 DEF Return
  <2> QED BY <2>2, <2>3, <2>4, <2>5
<1>13. LinksOk'
  <2> SUFFICES ASSUME NEW u \in Endpoint \ Ble PROVE LinkOk(u)'
    BY DEF LinksOk
  <2>1. PICK v \in State, s \in Link(u) :
          /\ \A z \in Link(u) \ Ble : ZigbeeOk(z, s, v)
          /\ Stirred(u) \/ \A b \in Link(u) \cap Ble : BleOk(b, v)
    BY DEF Agreeing, LinksOk, LinkOk
  <2>2. Link(u) \subseteq Endpoint
    BY TargetsType
  <2>3. \A z \in Link(u) \ Ble : ZigbeeOk(z, s, v)'
    BY <1>2, <1>5, <1>6, <2>1, <2>2 DEF ZigbeeOk
  <2>4. Stirred(u)' <=> Stirred(u)
    BY <1>5, <1>6, <2>2 DEF Stirred
  <2>5. ASSUME ~ Stirred(u), NEW b \in Link(u) \cap Ble PROVE BleOk(b, v)'
    <3>1. b = i /\ Link(u) = Link(i) /\ ToBe(i, v)
      <4>1. b = i
        BY <1>3
      <4>2. Link(u) = Link(i)
        BY <2>5, <4>1, SameLink
      <4> QED BY <1>7, <2>1, <2>5, <4>1, <4>2 DEF BleOk
    <3>2. CASE InQueue(i)'
      BY <1>7, <3>1, <3>2 DEF BleOk
    <3>3. CASE ~ InQueue(i)'
      <4>1. v = d
        BY <1>7, <3>1, <3>3
      <4>2. ASSUME Has(reports'[i], "status"), state[i] # d PROVE Newest(i)'
        <5>1. Has(reports[i], "status") /\ held[i] = d
          BY <1>2, <1>4, <4>2 DEF Agreeing, MeshInv
        <5>2. \/ Newest(i) \/ Queued(i, state[i])
              \/ \E z \in Link(i) \ Ble : Return(z, d, state[i])
          BY <4>2, <5>1 DEF Agreeing, Outdated
        <5>3. ~ Queued(i, state[i])
          BY <1>7, <3>3, <4>2
        <5>4. ASSUME NEW z \in Link(i) \ Ble, Return(z, d, state[i]) PROVE FALSE
          <6>1. state[i] \in State
            BY <1>1 DEF Types, DeviceTypes
          <6>2. ~ Fresh(z) /\ ~ Changing(z)
            BY <2>5, <3>1, <5>4 DEF Stirred
          <6>3. state[z] = d /\ Waiting(z, state[i])
            BY <5>4, <6>2, InFlightFresh DEF Return
          <6> QED BY <4>2, <6>1, <6>2, <6>3 DEF Changing
        <5> QED BY <1>1, <1>5, <5>2, <5>3, <5>4
      <4> QED BY <1>2, <1>4, <3>1, <3>3, <4>1, <4>2 DEF BleOk
    <3> QED BY <3>2, <3>3
  <2> QED BY <2>1, <2>3, <2>4, <2>5 DEF LinkOk
<1> QED BY <1>8, <1>9, <1>10, <1>12, <1>13 DEF Agreeing

LEMMA CountsStay ==
  Types /\ [Next]_vars =>
    issued \in Nat /\ late \in Nat /\ other \in Nat
      /\ issued' >= issued /\ late' >= late /\ other' >= other
<1> SUFFICES ASSUME Types, [Next]_vars
             PROVE  issued' >= issued /\ late' >= late /\ other' >= other
  BY BoundAssumption DEF Types, CountTypes
<1>1. issued \in Nat /\ late \in Nat /\ other \in Nat
  BY BoundAssumption DEF Types, CountTypes
<1>2. ASSUME NEW e \in Endpoint,
             \/ Press(e) \/ OtherReport(e) \/ MqttOnOff(e) \/ Execute(e)
             \/ LoseCommand(e) \/ LoseStatus(e) \/ Timeout(e) \/ ZigbeeReport(e)
             \/ BleStatus(e) \/ BlePublish(e)
      PROVE  issued' >= issued /\ late' >= late /\ other' >= other
  BY <1>1, <1>2 DEF Press, OtherReport, MqttOnOff, Execute, LoseCommand,
     LoseStatus, Timeout, ZigbeeReport, BleStatus, BlePublish, counters
<1>3. CASE Tasks
  BY <1>1, <1>3 DEF Tasks, MqttLink, LookUp, Deal, SendCommandZigbee,
     SendCommandBLE, counters
<1>4. CASE Repetition
  BY <1>1, <1>4 DEF Repetition, RepeatValue, RepeatFill, RepeatSend, counters
<1>5. CASE UNCHANGED vars
  BY <1>1, <1>5 DEF vars, counters
<1> QED BY <1>2, <1>3, <1>4, <1>5 DEF Next

LEMMA SumOfZero ==
  ASSUME NEW a \in Nat, NEW b \in Nat, NEW c \in Nat, a + b + c = 0
  PROVE  a = 0 /\ b = 0 /\ c = 0
OBVIOUS

LEMMA CalmStays ==
  ASSUME Types, [Next]_vars, Calm'
  PROVE  /\ Calm /\ ~ lost' /\ late' = late
         /\ \A e \in Endpoint : ~ OtherReport(e) /\ ~ MqttOnOff(e)
<1>1. /\ issued \in Nat /\ late \in Nat /\ other \in Nat
      /\ issued' >= issued /\ late' >= late /\ other' >= other
  BY CountsStay
<1>2. issued' \in Nat /\ late' \in Nat /\ other' \in Nat
  BY TypesStep, BoundAssumption DEF Types, CountTypes
<1>3. /\ issued' = 0 /\ late' = 0 /\ other' = 0
      /\ issued = 0 /\ late = 0 /\ other = 0
  <2>1. issued' + late' + other' = 0
    BY DEF Calm
  <2>2. issued' = 0 /\ late' = 0 /\ other' = 0
    BY <1>2, <2>1, SumOfZero
  <2> QED BY <1>1, <2>2
<1>4. Calm /\ ~ lost'
  BY <1>3, LostStays DEF Calm
<1> QED BY <1>3, <1>4 DEF OtherReport, MqttOnOff

LEMMA AgreeingInit == Init => Agreeing /\ RepeatInv
<1> SUFFICES ASSUME Init PROVE Agreeing /\ RepeatInv
  OBVIOUS
<1>0. Member(repeat) = {}
  BY MemberOfEmpty DEF Init
<1>1. /\ \A e \in Endpoint : reports[e] = <<>> /\ commands[e] = <<>>
                              /\ held[e] = "none"
      /\ mqtt = <<>> /\ queueIdButton = <<>> /\ queueCmdZigbee = <<>>
      /\ queueCmdBLE = <<>> /\ tokens = <<>>
      /\ \A e \in Endpoint : state[e] \in State
      /\ \A e \in Endpoint : \A t \in Link(e) : state[t] = state[e]
  BY <1>0 DEF Init, held
<1>2. ASSUME NEW t \in Endpoint
      PROVE  ~ Has(reports[t], "status") /\ ~ Fresh(t) /\ ~ InQueue(t)
             /\ OneStatus(reports[t])
  BY <1>1, MemberOfEmpty DEF Has, Fresh, InQueue, HasId, Queue, OneStatus
<1>3. \A b \in Ble : b \in Endpoint
  BY LinkAssumption
<1>4. MeshInv
  BY <1>1, <1>2, <1>3, MemberOfEmpty DEF MeshInv
<1>5. NewestInv /\ Sourced /\ Outdated
  BY <1>1, <1>2, <1>3 DEF NewestInv, Sourced, Outdated
<1>6. ASSUME NEW e \in Endpoint PROVE LinkOk(e)
  <2>1. Link(e) \subseteq Endpoint /\ e \in Link(e)
    BY TargetsType
  <2>2. \A z \in Link(e) : Dest(z, state[e]) /\ state[z] = state[e]
    BY <1>1, <1>2, <2>1 DEF Dest
  <2>3. \A b \in Link(e) : BleOk(b, state[e])
    BY <1>1, <1>2, <2>1, <2>2 DEF BleOk
  <2> QED BY <1>1, <2>1, <2>2, <2>3 DEF LinkOk, ZigbeeOk
<1> QED BY <1>0, <1>4, <1>5, <1>6 DEF Agreeing, LinksOk, RepeatInv

\* What the argument is about stays as it is.
LEMMA AgreeingSame ==
  ASSUME Types, Agreeing,
         reports' = reports, queueIdButton' = queueIdButton,
         state' = state, commands' = commands, held' = held,
         stateButtonBLE' = stateButtonBLE, mqtt' = mqtt,
         queueCmdBLE' = queueCmdBLE, SameQueues
  PROVE  Agreeing'
<1>2. ASSUME NEW t \in Endpoint
      PROVE  /\ Fresh(t)' <=> Fresh(t)
             /\ \A w : InFlight(t, w)' <=> InFlight(t, w)
             /\ Newest(t)' <=> Newest(t)
             /\ InQueue(t)' <=> InQueue(t)
             /\ \A w : ToBe(t, w)' <=> ToBe(t, w)
             /\ \A w : Queued(t, w)' <=> Queued(t, w)
             /\ \A w : Waiting(t, w)' <=> Waiting(t, w)
             /\ \A w : Dest(t, w)' <=> Dest(t, w)
             /\ Changing(t)' <=> Changing(t)
  BY SameReports, SameQueue, SameCommands
<1>3. MeshInv' /\ NewestInv'
  BY <1>2 DEF Agreeing, MeshInv, NewestInv
<1>4. Sourced'
  <2>1. ASSUME NEW b \in Ble
        PROVE  /\ InQueue(b)' \/ held'[b] # "none"
                    => InQueue(b) \/ held[b] # "none"
               /\ \A d \in State : LastCommand(b, d) => LastCommand(b, d)'
    BY <1>2, LinkAssumption DEF LastCommand
  <2>2. ASSUME NEW z \in Endpoint \ Ble, NEW d \in State, Source(z, d)
        PROVE  Source(z, d)'
    BY <1>2, <2>2 DEF Source
  <2> QED BY <2>1, <2>2, SourcedKept
<1>5. Outdated'
  <2>1. ASSUME NEW b \in Ble
        PROVE  /\ Has(reports'[b], "status") /\ state'[b] # held'[b] =>
                    \/ Newest(b)'
                    \/ /\ Has(reports[b], "status") /\ ~ Newest(b)
                       /\ state'[b] = state[b] /\ held'[b] = held[b]
               /\ \A w : Queued(b, w) => Queued(b, w)'
    BY <1>2, LinkAssumption
  <2>2. ASSUME NEW z \in Endpoint \ Ble, NEW p \in State, NEW w \in State,
               Return(z, p, w)
        PROVE  Return(z, p, w)'
    BY <1>2, <2>2 DEF Return
  <2> QED BY <2>1, <2>2, OutdatedKept
<1>6. LinksOk'
  <2>1. ASSUME NEW z \in Endpoint \ Ble
        PROVE  /\ \A s : \A d \in State : ZigbeeOk(z, s, d) => ZigbeeOk(z, s, d)'
               /\ Fresh(z) \/ Changing(z) => Fresh(z)' \/ Changing(z)'
    BY <1>2 DEF ZigbeeOk
  <2>2. ASSUME NEW b \in Ble, NEW d \in State, BleOk(b, d)
        PROVE  BleOk(b, d)'
    BY <1>2, <2>2, LinkAssumption DEF BleOk
  <2> QED BY <2>1, <2>2, LinksKept
<1> QED BY <1>3, <1>4, <1>5, <1>6 DEF Agreeing

\* The call of a command that timed out, up to its sending.
LEMMA TimeoutAgreeing ==
  ASSUME Types, Agreeing, NEW e \in Endpoint, Timeout(e), ~ UnderWay(e)
  PROVE  Agreeing' /\ RepeatInv'
<1> DEFINE q == [pc |-> "value", id |-> e, state |-> stateButtonBLE]
<1>1. q.id = e /\ q.state = stateButtonBLE
  OBVIOUS
<1>2. repeat' = <<q>>
  BY DEF Timeout
<1> HIDE DEF q
<1>3. Member(repeat') = {q} /\ repeat'[1] = q
  BY <1>2, MemberOfOne
<1>4. held = pending /\ pending[e] # "none"
  BY HeldFree DEF Timeout
<1>5. stateButtonBLE = held[e]
  BY <1>4 DEF Agreeing, MeshInv
<1>6. /\ pending'[e] = "none" /\ \A t \in Endpoint \ {e} : pending'[t] = pending[t]
      /\ pending \in [Endpoint -> State \cup {"none"}]
  BY DEF Timeout, Types, DeviceTypes
<1>7. held' = [t \in Endpoint |-> held[t]]
  BY <1>1, <1>3, <1>4, <1>5, <1>6 DEF held
<1>8. held' = held
  BY <1>4, <1>6, <1>7
<1>9. Agreeing'
  BY <1>8, AgreeingSame DEF Timeout, SameQueues
<1>10. RepeatInv'
  <2>1. commands[e] = <<>> /\ ~ Has(reports[e], "status")
    BY DEF UnderWay, Has
  <2>2. commands' = commands /\ reports' = reports
    BY DEF Timeout
  <2> QED BY <1>1, <1>3, <1>5, <1>8, <2>1, <2>2 DEF RepeatInv, Has
<1> QED BY <1>9, <1>10

LEMMA RepeatAgreeing ==
  ASSUME Types, Agreeing, RepeatInv, RepeatValue \/ RepeatFill
  PROVE  Agreeing' /\ RepeatInv'
<1>1. PICK q \in Call : repeat' = <<q>> /\ q.id = repeat[1].id
                        /\ q.state = repeat[1].state
  BY RepeatMoved DEF RepeatValue, RepeatFill, Repeats
<1>2. /\ ~ TaskFree /\ pending' = pending /\ reports' = reports
      /\ commands' = commands
  BY DEF RepeatValue, RepeatFill, Repeats, radio
<1>3. held' = held
  BY <1>1, <1>2, HeldMoved
<1>4. /\ repeat[1].id \in Ble /\ repeat[1].state \in State
      /\ held[repeat[1].id] = repeat[1].state
      /\ Member(repeat) = {repeat[1]}
  BY <1>2, RepeatBle
<1>5. stateButtonBLE' = stateButtonBLE
  <2>1. stateButtonBLE = repeat[1].state
    BY <1>4 DEF Agreeing, MeshInv, State
  <2> QED BY <2>1 DEF RepeatValue, RepeatFill, KeepValue
<1>6. Agreeing'
  BY <1>2, <1>3, <1>5, AgreeingSame DEF RepeatValue, RepeatFill, SameQueues
<1>7. RepeatInv'
  BY <1>1, <1>2, <1>3, <1>4, MemberOfOne DEF RepeatInv, Has
<1> QED BY <1>6, <1>7

LEMMA RepeatSendAgreeing ==
  ASSUME Types, Calm, Agreeing, RepeatInv, RepeatSend, ~ lost'
  PROVE  Agreeing' /\ RepeatInv'
<1>1. repeat[1].id \in Ble
  BY RepeatBle DEF RepeatSend, Repeats
<1>2. ASSUME pending[repeat[1].id] = "none" PROVE Agreeing'
  <2>1. PICK e \in Ble : e = repeat[1].id
    BY <1>1
  <2>2. pending[e] = "none"
    BY <1>2, <2>1
  <2> QED BY <2>1, <2>2, RepeatedAgreeing
<1>3. ASSUME pending[repeat[1].id] # "none" PROVE Agreeing'
  <2>1. held' = held /\ commands' = commands
    BY <1>3, RepetitionSent
  <2> QED BY <2>1, AgreeingSame DEF RepeatSend, SameQueues
<1>4. RepeatInv'
  BY MemberOfEmpty DEF RepeatInv, RepeatSend
<1> QED BY <1>2, <1>3, <1>4

\* A step of another actor leaves a call that is under way as it is.
LEMMA RepeatKept ==
  ASSUME Types, Agreeing, RepeatInv, UNCHANGED <<pending, repeat>>,
         \A b \in Ble :
           /\ commands[b] = <<>> => commands'[b] = <<>>
           /\ commands[b] = <<>> /\ ~ Has(reports[b], "status")
                => ~ Has(reports'[b], "status")
  PROVE  RepeatInv'
<1>1. held' = held
  BY HeldStays
<1>2. CASE TaskFree
  BY <1>2, NoRepeat DEF RepeatInv
<1>3. CASE ~ TaskFree
  BY <1>1, <1>3, RepeatBle DEF RepeatInv
<1> QED BY <1>2, <1>3

LEMMA EventRepeatInv ==
  ASSUME Types, Agreeing, RepeatInv, NEW e \in Endpoint,
         \/ Press(e) \/ Execute(e) \/ LoseCommand(e) \/ LoseStatus(e)
         \/ BleStatus(e) \/ ZigbeeReport(e) \/ BlePublish(e)
  PROVE  RepeatInv'
<1>1. CASE TaskFree
  <2>1. repeat' = repeat
    BY DEF Press, Execute, LoseCommand, LoseStatus, BleStatus, ZigbeeReport,
       BlePublish, gateway
  <2> QED BY <1>1, <2>1, MemberOfEmpty DEF RepeatInv, TaskFree
<1>2. CASE Press(e)
  <2>1. PICK v \in State : reports' = Push(reports, e, Report("button", v))
    BY <1>2 DEF Press
  <2>2. PICK r \in ReportType :
          reports' = Push(reports, e, r) /\ r.kind = "button"
    BY <2>1, ReportInType
  <2>3. /\ Member(reports'[e]) = Member(reports[e]) \cup {r}
        /\ \A t \in Endpoint \ {e} : reports'[t] = reports[t]
    BY <2>2, ReportSent
  <2>4. \A b \in Endpoint : ~ Has(reports[b], "status")
                              => ~ Has(reports'[b], "status")
    BY <2>2, <2>3 DEF Has
  <2> QED BY <1>2, <2>4, LinkAssumption, RepeatKept DEF Press, gateway
<1>3. CASE Execute(e)
  <2>1. commands[e] # <<>> /\ \A t \in Endpoint \ {e} : commands'[t] = commands[t]
    BY <1>3, CommandTaken DEF Execute
  <2>2. \A t \in Endpoint \ {e} : reports'[t] = reports[t]
    BY <1>3, ReportsType DEF Execute, Push
  <2> QED BY <1>3, <2>1, <2>2, LinkAssumption, RepeatKept DEF Execute, gateway
<1>4. CASE LoseCommand(e)
  <2>1. commands[e] # <<>> /\ \A t \in Endpoint \ {e} : commands'[t] = commands[t]
    BY <1>4, CommandTaken DEF LoseCommand
  <2> QED BY <1>4, <2>1, LinkAssumption, RepeatKept DEF LoseCommand, gateway
<1>5. CASE ZigbeeReport(e)
  <2>1. e \notin Ble /\ \A t \in Endpoint \ {e} : reports'[t] = reports[t]
    BY <1>5, ReportTaken DEF ZigbeeReport
  <2> QED BY <1>5, <2>1, LinkAssumption, RepeatKept DEF ZigbeeReport
<1>6. CASE LoseStatus(e) \/ BleStatus(e) \/ BlePublish(e)
  BY <1>1, <1>6 DEF LoseStatus, BleStatus, BlePublish
<1> QED BY <1>2, <1>3, <1>4, <1>5, <1>6

LEMMA TaskRepeatInv ==
  ASSUME Types, Agreeing, RepeatInv, OneBle, ~ lost',
         LookUp \/ Deal \/ SendCommandZigbee \/ SendCommandBLE
  PROVE  RepeatInv'
<1>1. CASE LookUp \/ Deal
  BY <1>1, RepeatKept DEF LookUp, Deal, radio
<1>2. CASE SendCommandZigbee
  <2>1. \A b \in Ble : commands'[b] = commands[b]
    BY <1>2, SendCommandZigbeeTypes, LinkAssumption
  <2> QED BY <1>2, <2>1, RepeatKept DEF SendCommandZigbee
<1>3. CASE SendCommandBLE
  <2> DEFINE x == Head(queueCmdBLE)
  <2>1. /\ x \in Item /\ x.id \in Ble /\ x.id \in Endpoint /\ x.state \in State
        /\ \A r \in Member(repeat) : ~ Spoilt(r, x)
        /\ repeat' = [k \in DOMAIN repeat |-> Overtaken(repeat[k], x)]
        /\ Send(x.id, x.state)
    BY <1>3, SendCommandBLETypes DEF Agreeing, MeshInv
  <2>2. held'[x.id] = x.state
    BY <1>3, <2>1, HeldCommanded
  <2>3. pending'[x.id] # "none"
    BY <2>1, Commanded
  <2> HIDE DEF x
  <2>4. CASE TaskFree
    BY <2>1, <2>4, RepeatOvertaken, MemberOfEmpty DEF RepeatInv
  <2>5. CASE ~ TaskFree
    <3>1. repeat[1].id = x.id /\ repeat[1] \in Call
          /\ Member(repeat) = {repeat[1]}
      BY <2>1, <2>5, RepeatBle DEF OneBle
    <3>2. Member(repeat') = {Overtaken(repeat[1], x)}
      BY <2>1, <2>5, RepeatOvertaken, MemberOfOne
    <3>3. /\ Overtaken(repeat[1], x).id = x.id
          /\ Overtaken(repeat[1], x).state = x.state
      BY <2>1, <3>1, NotSpoilt
    <3> QED BY <2>2, <2>3, <3>2, <3>3 DEF RepeatInv
  <2> QED BY <2>4, <2>5
<1> QED BY <1>1, <1>2, <1>3

AgreeInv == Calm => Agreeing /\ RepeatInv

LEMMA AgreeingStep == Types /\ AgreeInv /\ [Next]_vars => AgreeInv'
<1> SUFFICES ASSUME Types, AgreeInv, [Next]_vars, Calm'
             PROVE  Agreeing' /\ RepeatInv'
  BY DEF AgreeInv
<1>1. /\ Calm /\ Agreeing /\ RepeatInv /\ ~ lost' /\ late' = late /\ late \in Nat
      /\ \A e \in Endpoint : ~ OtherReport(e) /\ ~ MqttOnOff(e)
  BY CalmStays, CountsStay DEF AgreeInv
<1>2. ASSUME NEW e \in Endpoint,
             \/ Press(e) \/ Execute(e) \/ LoseCommand(e) \/ LoseStatus(e)
             \/ ZigbeeReport(e) \/ BleStatus(e) \/ BlePublish(e)
      PROVE  Agreeing' /\ RepeatInv'
  <2>1. CASE Press(e)
    BY <1>1, <2>1, PressAgreeing, EventRepeatInv
  <2>2. CASE Execute(e)
    BY <1>1, <2>2, ExecuteZigbeeAgreeing, ExecuteBleAgreeing, EventRepeatInv
  <2>3. CASE LoseCommand(e)
    BY <1>1, <2>3, RepeatedAgreeing, EventRepeatInv DEF LoseCommand
  <2>4. CASE LoseStatus(e) \/ BleStatus(e)
    <3>1. Head(reports[e]) \in Member(reports[e])
      BY <2>4, ReportTaken DEF LoseStatus, BleStatus
    <3>2. e \in Ble
      BY <2>4, <3>1 DEF LoseStatus, BleStatus, Types, ProtocolInv
    <3> QED BY <1>1, <2>4, <3>2, StatusAgreeing, EventRepeatInv
  <2>5. CASE ZigbeeReport(e) \/ BlePublish(e)
    BY <1>1, <2>5, MovedAgreeing, EventRepeatInv
  <2> QED BY <1>2, <2>1, <2>2, <2>3, <2>4, <2>5
<1>3. ASSUME NEW e \in Endpoint, Timeout(e) PROVE Agreeing' /\ RepeatInv'
  <2>1. ~ UnderWay(e)
    BY <1>1, <1>3 DEF Timeout
  <2> QED BY <1>1, <1>3, <2>1, TimeoutAgreeing
<1>4. CASE Tasks
  <2>1. ~ MqttLink
    BY <1>1 DEF MqttLink, Agreeing, MeshInv
  <2>2. RepeatInv'
    BY <1>1, <1>4, <2>1, TaskRepeatInv DEF Tasks, Calm
  <2> QED BY <1>1, <1>4, <2>1, <2>2, LookUpAgreeing, DealAgreeing,
             SendCommandZigbeeAgreeing, SendCommandBLEAgreeing DEF Tasks
<1>5. CASE Repetition
  BY <1>1, <1>5, RepeatAgreeing, RepeatSendAgreeing DEF Repetition
<1>6. CASE UNCHANGED vars
  <2>1. Agreeing'
    BY <1>1, <1>6, HeldStays, AgreeingSame
       DEF vars, radio, gateway, SameQueues
  <2>2. RepeatInv'
    BY <1>1, <1>6, RepeatKept DEF vars, radio, gateway
  <2> QED BY <2>1, <2>2
<1> QED BY <1>1, <1>2, <1>3, <1>4, <1>5, <1>6 DEF Next

\* When nothing is left anywhere, each button has what its link came to.
LEMMA SettledAgree ==
  ASSUME Types, Calm, Agreeing, Settled, NEW e \in Endpoint, NEW t \in Link(e)
  PROVE  state[t] = state[e]
<1>1. ASSUME NEW z \in Endpoint PROVE ~ Fresh(z) /\ ~ InQueue(z) /\ ~ Changing(z)
                                      /\ commands[z] = <<>> /\ held[z] = "none"
                                      /\ ~ Has(reports[z], "button")
  <2>1. /\ reports[z] = <<>> /\ queueIdButton = <<>> /\ tokens = <<>>
        /\ Queue(z) = <<>> /\ commands[z] = <<>> /\ held[z] = "none"
    BY NoRepeat DEF Settled, Queue, held, TaskFree
  <2> QED BY <2>1, MemberOfEmpty DEF Fresh, InQueue, Changing, Waiting, Queued,
             Has, HasId
<1>2. ASSUME NEW u \in Endpoint \ Ble, NEW x \in Link(u)
      PROVE  state[x] = state[u]
  <2>1. PICK v \in State, s \in Link(u) :
          /\ \A z \in Link(u) \ Ble : ZigbeeOk(z, s, v)
          /\ Stirred(u) \/ \A b \in Link(u) \cap Ble : BleOk(b, v)
    BY DEF Agreeing, LinksOk, LinkOk
  <2>2. Link(u) \subseteq Endpoint /\ u \in Link(u)
    BY TargetsType
  <2>3. ~ Stirred(u)
    BY <1>1, <2>2 DEF Stirred
  <2>4. ASSUME NEW z \in Link(u) PROVE state[z] = v
    <3>1. CASE z \in Ble
      <4>1. BleOk(z, v) /\ ~ Newest(z)
        BY <1>1, <2>1, <2>2, <2>3, <3>1, NewestFresh
      <4> QED BY <1>1, <2>2, <4>1 DEF BleOk
    <3>2. CASE z \notin Ble
      BY <1>1, <2>1, <2>2, <3>2 DEF ZigbeeOk, Dest
    <3> QED BY <3>1, <3>2
  <2> QED BY <2>2, <2>4
<1>3. t \in Endpoint /\ Link(t) = Link(e) /\ e \in Link(t)
  BY SameLink, TargetsType
<1>4. CASE e \notin Ble
  BY <1>2, <1>4
<1>5. CASE t \notin Ble
  BY <1>2, <1>3, <1>5
<1>6. CASE e \in Ble /\ t \in Ble
  BY <1>6 DEF Calm, OneBle
<1> QED BY <1>4, <1>5, <1>6

\* However presses overlap, the buttons of a link agree when the traffic has
\* died out: a Zigbee button reports what it is switched to and so corrects
\* the rest, and a BLE button among them ends up with the last command.
THEOREM LinksAgree == Spec => []LinkedAgree
<1>1. Init => Types /\ AgreeInv
  BY TypesInit, AgreeingInit DEF AgreeInv
<1>2. Types /\ AgreeInv /\ [Next]_vars => Types' /\ AgreeInv'
  BY TypesStep, AgreeingStep
<1>3. Types /\ AgreeInv => LinkedAgree
  BY SettledAgree DEF LinkedAgree, Calm, AgreeInv
<1> QED BY <1>1, <1>2, <1>3, PTL DEF Spec

=============================================================================
