--------------------------- MODULE Commands_proofs ---------------------------
(***************************************************************************)
(* What holds of the commands, for any number of messages, upgrades and    *)
(* devices.  The invariant has a part for each thing that is shared:       *)
(* SharedInv the message that three tasks fill in, RingInv the ring buffer *)
(* against the commands it accepted, OtaInv the variable that a new        *)
(* upgrade reads its address from, and the update partition.               *)
(***************************************************************************)
EXTENDS Commands, TLAPS

Steps == {"idle", "value", "message", "parameters", "send"}
CallType == [pc : Steps, dest : Address, onoff : {0, 1}, overtaken : BOOLEAN]

StackTypes ==
  stack \in {"down", "meshed", "keyed", "ready"} /\ bound \subseteq Clients

CallTypes ==
  /\ stateButtonBLE \in {0, 1} /\ common \in Address /\ set_state \in {0, 1}
  /\ call \in [Caller -> CallType]

RequestTypes ==
  /\ btc \in Seq(Request) /\ pending \subseteq Request
  /\ \A p, q \in pending : p.dest = q.dest => p = q

JoinTypes ==
  /\ joining = <<>> \/ joining \in [{1} -> [node : Node, asked : BOOLEAN,
                                            endpoint : Nat]]
  /\ Asking => joining[1].endpoint \in 1 .. Elements[joining[1].node]

QueueTypes ==
  /\ queueIdButton \in Seq({0, 1}) /\ Len(queueIdButton) <= IdCap
  /\ queueGetStateOnoffBLE \in Seq(Address)
  /\ Len(queueGetStateOnoffBLE) <= StateCap

BleTypes ==
  StackTypes /\ CallTypes /\ RequestTypes /\ JoinTypes /\ QueueTypes

\* Only who was overtaken may find the message changed, and the task of the
\* highest priority never is.
SharedInv ==
  /\ \A c \in Caller : ~ call[c].overtaken =>
       /\ call[c].pc \in {"parameters", "send"} => common = call[c].dest
       /\ call[c].pc = "send" => set_state = call[c].onoff
  /\ ~ call["sendCommandBLE"].overtaken
  /\ SentAsGiven

Member(s) == {s[x] : x \in 1 .. Len(s)}

BleInv == BleTypes /\ SharedInv

SystemTypes ==
  /\ {running, derailed, damaged, overlapped} \subseteq BOOLEAN
  /\ boots \in 0 .. MaxBoots /\ events \in 0 .. MaxEvents
  /\ at \in {"poll", "execute", "locking", "link", "return"}
  /\ provision_status \in {0, 1}

RingInv ==
  /\ ring \in Seq([msg : Messages, whole : BOOLEAN]) /\ Len(ring) <= RingCap
  /\ accepted \in Seq(Messages)
  /\ IF derailed
     THEN at = "poll" /\ damaged /\ taken \in 0 .. Len(ring)
     ELSE /\ taken = IF at = "poll" THEN 0 ELSE 1
          /\ Len(ring) = Len(accepted) + taken
          /\ \A x \in 1 .. Len(accepted) : accepted[x] = ring[taken + x].msg
  /\ ~ damaged => \A x \in 1 .. Len(ring) : ring[x].whole

CommandInv ==
  \/ executed = <<>> /\ command_set = Cleared
  \/ \E m \in Messages :
       executed = <<m>> /\ command_set = Parsed(m) /\ ~ Crashes(m)

Urls == {"", URL_OTA}
          \cup {m.url : m \in {m \in Messages : "url" \in DOMAIN m}}

UpgradeType ==
  [pc : {"none", "created", "begin", "loading", "booting"}, given : BOOLEAN,
   url : Urls, asked : Urls, written : 0 .. Blocks]

OtaInv ==
  /\ upgrade \in [Upgrades -> UpgradeType]
  /\ update \in [1 .. Blocks -> Urls \cup {"old"}]
  /\ boot \in {"running", "update"}
  /\ \A t \in Upgrades : upgrade[t].pc = "created" =>
       /\ upgrade[t].asked = command_set.url
       /\ upgrade[t].given <=> command_set.url # ""
  /\ boot = "update" => \E t \in Upgrades : upgrade[t].pc = "booting"
  /\ ~ overlapped =>
       \A s, t \in Upgrades : Writing(s) /\ Writing(t) => s = t
  /\ UpgradeAsAsked

Inv == BleInv /\ SystemTypes /\ RingInv /\ CommandInv /\ OtaInv

-----------------------------------------------------------------------------
(* Sequences                                                                *)

LEMMA MemberEmpty == Member(<<>>) = {}
BY DEF Member

LEMMA MemberOf ==
  ASSUME NEW S, NEW s \in Seq(S)
  PROVE  Member(s) \subseteq S
BY DEF Member

LEMMA MemberAppended ==
  ASSUME NEW S, NEW s \in Seq(S), NEW x \in S
  PROVE  /\ Append(s, x) \in Seq(S)
         /\ Member(Append(s, x)) = Member(s) \cup {x}
<1>1. /\ Len(s) \in Nat /\ Len(Append(s, x)) = Len(s) + 1
      /\ \A k \in 1 .. Len(s) : Append(s, x)[k] = s[k]
      /\ Append(s, x)[Len(s) + 1] = x
  OBVIOUS
<1>2. Member(Append(s, x)) \subseteq Member(s) \cup {x}
  BY <1>1 DEF Member
<1>3. Member(s) \cup {x} \subseteq Member(Append(s, x))
  BY <1>1 DEF Member
<1> QED
  BY <1>2, <1>3

LEMMA MemberTaken ==
  ASSUME NEW S, NEW s \in Seq(S), s # <<>>
  PROVE  /\ Head(s) \in Member(s) /\ Head(s) \in S
         /\ Tail(s) \in Seq(S) /\ Len(Tail(s)) = Len(s) - 1
         /\ Member(Tail(s)) \subseteq Member(s)
<1>1. /\ Len(s) \in Nat \ {0} /\ Head(s) = s[1] /\ Tail(s) \in Seq(S)
      /\ Len(Tail(s)) = Len(s) - 1
      /\ \A k \in 1 .. Len(s) - 1 : Tail(s)[k] = s[k + 1]
  OBVIOUS
<1>2. Member(Tail(s)) \subseteq Member(s)
  BY <1>1 DEF Member
<1> QED
  BY <1>1, <1>2 DEF Member

LEMMA MemberReplaced ==
  ASSUME NEW S, NEW s \in Seq(S), NEW k \in DOMAIN s, NEW x \in S
  PROVE  /\ [s EXCEPT ![k] = x] \in Seq(S)
         /\ Len([s EXCEPT ![k] = x]) = Len(s)
         /\ \A j \in 1 .. Len(s) :
              [s EXCEPT ![k] = x][j] = IF j = k THEN x ELSE s[j]
OBVIOUS

LEMMA Single ==
  ASSUME NEW S, NEW x \in S
  PROVE  <<x>> \in [{1} -> S] /\ <<x>>[1] = x /\ <<x>> # <<>>
OBVIOUS

LEMMA AddressesAre ==
  /\ MaxAddress \in Nat
  /\ \A x : x \in Address <=> x \in Nat /\ x <= MaxAddress
<1>1. MaxAddress \in Nat
  BY SMT DEF MaxAddress
<1>2. \A x : x \in Address <=> x \in Nat /\ x <= MaxAddress
  BY <1>1, SMT DEF Address
<1> QED
  BY <1>1, <1>2

\* The buttons of a device are those its addresses name.
LEMMA ElementIsButton ==
  ASSUME NEW n \in Node, NEW k \in 1 .. Elements[n]
  PROVE  ElementAddr(n, k) \in Buttons(n) /\ ElementAddr(n, k) \in Address
<1>1. n \in Nat \ {0} /\ Elements[n] \in Nat \ {0} /\ k \in Nat \ {0}
  BY DeviceAssumption
<1>2. n + k - 1 \in Buttons(n)
  BY <1>1 DEF Buttons
<1>3. n + k - 1 \in Nat /\ n + k - 1 <= MaxAddress
  BY <1>2, DeviceAssumption, AddressesAre
<1>4. ElementAddr(n, k) = n + k - 1
  BY <1>1, <1>3, SMT DEF ElementAddr, MaxAddress
<1> QED
  BY <1>2, <1>3, <1>4, AddressesAre

LEMMA AddressOf ==
  ASSUME NEW n \in Nat, NEW k \in Nat
  PROVE  /\ ElementAddr(n, k) \in Address
         /\ n % (MaxAddress + 1) \in Address
<1>1. ASSUME NEW x \in Nat PROVE x % (MaxAddress + 1) \in Address
  <2>1. x % (MaxAddress + 1) \in Nat /\ x % (MaxAddress + 1) <= MaxAddress
    BY SMT DEF MaxAddress
  <2> QED
    BY <2>1, AddressesAre
<1>2. n + k + MaxAddress \in Nat
  BY AddressesAre
<1> QED
  BY <1>1, <1>2 DEF ElementAddr

LEMMA ButtonOfOne ==
  ASSUME NEW m \in Node, NEW n \in Node, NEW a,
         a \in Buttons(m), a \in Buttons(n)
  PROVE  m = n
BY DeviceAssumption

\* The button whose state is asked for is one of the device that is joining.
LEMMA ButtonAsked ==
  ASSUME BleTypes, Asking
  PROVE  /\ joining[1].node \in Node
         /\ AskedButton \in Buttons(joining[1].node) /\ AskedButton \in Address
<1>1. /\ joining[1].node \in Node
      /\ joining[1].endpoint \in 1 .. Elements[joining[1].node]
  BY DEF BleTypes, JoinTypes, Asking
<1> QED
  BY <1>1, ElementIsButton DEF AskedButton

-----------------------------------------------------------------------------
(* The types of the on-off client                                          *)

LEMMA TypesAre == BleTypes => BleTypeOK
<1> SUFFICES ASSUME BleTypes PROVE BleTypeOK
  OBVIOUS
<1>1. /\ Asking => AskedButton \in Buttons(joining[1].node)
  BY ButtonAsked
<1> QED
  BY <1>1 DEF BleTypes, BleTypeOK, StackTypes, CallTypes, RequestTypes,
              JoinTypes, QueueTypes, CallType, Steps

LEMMA TypesInit == BleStart => BleTypes
<1> SUFFICES ASSUME BleStart PROVE BleTypes
  OBVIOUS
<1> USE DEF BleStart
<1>1. CallTypes
  BY AddressesAre DEF CallTypes, CallType, Steps, Idle
<1>2. StackTypes /\ RequestTypes /\ JoinTypes
  BY DEF StackTypes, RequestTypes, JoinTypes, Asking
<1>3. QueueTypes
  BY BoundAssumption DEF QueueTypes
<1> QED
  BY <1>1, <1>2, <1>3 DEF BleTypes

\* What a step leaves alone keeps its type.
LEMMA TypesFramed ==
  ASSUME BleTypes
  PROVE  /\ UNCHANGED <<stack, bound>> => StackTypes'
         /\ UNCHANGED <<stateButtonBLE, common, set_state, call>> => CallTypes'
         /\ UNCHANGED <<btc, pending>> => RequestTypes'
         /\ UNCHANGED <<joining>> => JoinTypes'
         /\ UNCHANGED <<queueIdButton, queueGetStateOnoffBLE>> => QueueTypes'
BY DEF BleTypes, StackTypes, CallTypes, RequestTypes, JoinTypes, QueueTypes,
       Asking

LEMMA TypesReset ==
  ASSUME BleTypes, BleReset
  PROVE  BleTypes'
<1> USE DEF BleReset
<1>1. CallTypes'
  BY AddressesAre DEF CallTypes, CallType, Steps, Idle
<1>2. StackTypes' /\ RequestTypes' /\ JoinTypes'
  BY DEF StackTypes, RequestTypes, JoinTypes, Asking, BleTypes
<1>3. QueueTypes'
  BY BoundAssumption DEF QueueTypes
<1> QED
  BY <1>1, <1>2, <1>3 DEF BleTypes

LEMMA CallTyped ==
  ASSUME CallTypes, NEW c \in Caller, NEW a \in Address, NEW v \in {0, 1},
         Call(c, a, v), UNCHANGED <<stateButtonBLE, common, set_state>>
  PROVE  CallTypes'
BY DEF CallTypes, CallType, Steps, Call

LEMMA TypesCalled ==
  ASSUME BleTypes, NEW c \in Caller, NEW a \in Address, NEW v \in {0, 1},
         Call(c, a, v), UNCHANGED <<stateButtonBLE, common, set_state>>,
         UNCHANGED <<stack, bound, btc, pending, joining, queues>>
  PROVE  BleTypes'
BY CallTyped, TypesFramed DEF BleTypes, queues

LEMMA TypesPosted ==
  ASSUME BleTypes, NEW r \in Request, btc' = Append(btc, r),
         UNCHANGED <<stack, bound, statics, pending, joining, queues>>
  PROVE  BleTypes'
<1>1. RequestTypes'
  BY MemberAppended DEF BleTypes, RequestTypes
<1> QED
  BY <1>1, TypesFramed DEF BleTypes, queues, statics

LEMMA TypesPassed ==
  ASSUME BleTypes, NEW v \in {0, 1}, Len(queueIdButton) < IdCap,
         queueIdButton' = Append(queueIdButton, v),
         UNCHANGED <<stack, bound, statics, btc, pending, joining,
                     queueGetStateOnoffBLE>>
  PROVE  BleTypes'
<1>1. QueueTypes'
  BY BoundAssumption DEF BleTypes, QueueTypes
<1> QED
  BY <1>1, TypesFramed DEF BleTypes, statics

LEMMA TypesStacked ==
  ASSUME BleTypes, StackTypes',
         pending' \subseteq pending,
         UNCHANGED <<statics, btc, joining, queues>>
  PROVE  BleTypes'
<1>1. RequestTypes'
  BY DEF BleTypes, RequestTypes
<1> QED
  BY <1>1, TypesFramed DEF BleTypes, queues, statics

LEMMA TypesWritten ==
  ASSUME BleTypes, NEW c \in Caller, ble_mesh_command_set(c)
  PROVE  BleTypes'
<1>1. UNCHANGED <<stack, bound, pending, joining, queueIdButton,
                  queueGetStateOnoffBLE>>
  BY DEF ble_mesh_command_set, queues
<1>2. CallTypes
  BY DEF BleTypes
<1>3. CallTypes' /\ (UNCHANGED btc \/ btc' = Append(btc, [op |-> "set",
                                       dest |-> common, onoff |-> set_state]))
  <2> USE <1>2 DEF CallTypes, CallType, Steps
  <2>1. CASE KeepValue(c)
    <3>1. UNCHANGED btc
      BY <2>1 DEF ble_mesh_command_set, KeepValue, SendMessage
    <3> QED
      BY <2>1, <3>1 DEF KeepValue, Goto
  <2>2. CASE FillMessage(c)
    <3>1. UNCHANGED btc
      BY <2>2 DEF ble_mesh_command_set, FillMessage, SendMessage
    <3> QED
      BY ZenonT(30), <2>2, <3>1 DEF FillMessage, Overtake
  <2>3. CASE FillParameters(c)
    <3>1. UNCHANGED btc
      BY <2>3 DEF ble_mesh_command_set, FillParameters, SendMessage
    <3> QED
      BY ZenonT(30), <2>3, <3>1 DEF FillParameters, Overtake
  <2>4. CASE SendMessage(c)
    BY SMTT(30), <2>4, AddressesAre DEF SendMessage, Post, Idle
  <2> QED
    BY <2>1, <2>2, <2>3, <2>4 DEF ble_mesh_command_set
<1>4. RequestTypes'
  <2>1. [op |-> "set", dest |-> common, onoff |-> set_state] \in Request
    BY <1>2 DEF CallTypes, Request
  <2> QED
    BY <1>1, <1>3, <2>1, MemberAppended DEF BleTypes, RequestTypes
<1> QED
  BY <1>1, <1>3, <1>4, TypesFramed DEF BleTypes

LEMMA TypesTaken ==
  ASSUME BleTypes, TakeRequest
  PROVE  BleTypes'
<1>1. /\ Head(btc) \in Request /\ btc' \in Seq(Request)
  BY MemberTaken DEF TakeRequest, BleTypes, RequestTypes
<1>2. RequestTypes'
  BY <1>1 DEF TakeRequest, BleTypes, RequestTypes, Outstanding
<1>3. UNCHANGED <<stack, bound, stateButtonBLE, common, set_state, call,
                  joining, queueIdButton, queueGetStateOnoffBLE>>
  BY DEF TakeRequest, statics, queues
<1> QED
  BY <1>2, <1>3, TypesFramed DEF BleTypes

LEMMA ToAskTyped ==
  ASSUME NEW n \in Node,
         NEW k \in 1 .. Elements[n], joining' = ToAsk(n, k)
  PROVE  JoinTypes' /\ joining'[1].node = n
<1>1. n \in Node /\ Elements[n] \in Nat /\ k \in Nat
  BY DeviceAssumption
<1>2. joining' = <<[node |-> n, endpoint |-> k, asked |-> FALSE]>>
  BY DEF ToAsk
<1>3. [node |-> n, endpoint |-> k, asked |-> FALSE]
        \in [node : Node, asked : BOOLEAN, endpoint : Nat]
  BY <1>1
<1>4. /\ joining' \in [{1} -> [node : Node, asked : BOOLEAN,
                               endpoint : Nat]]
      /\ joining'[1] = [node |-> n, endpoint |-> k, asked |-> FALSE]
  BY <1>2, <1>3, Single
<1> QED
  BY <1>4 DEF JoinTypes

LEMMA TypesEvents ==
  ASSUME BleTypes, BleEvents
  PROVE  BleTypes'
<1>1. CASE AppKeyAdded
  BY <1>1, TypesStacked DEF AppKeyAdded, StackTypes
<1>2. CASE TakeRequest
  BY <1>2, TypesTaken
<1>3. CASE SetAnswered
  BY <1>3, TypesStacked DEF SetAnswered, StackTypes, BleTypes
<1>4. CASE GetAnswered
  <2>1. PICK p \in pending :
          /\ pending' = pending \ {p}
          /\ queueGetStateOnoffBLE' =
               IF Len(queueGetStateOnoffBLE) < StateCap
               THEN Append(queueGetStateOnoffBLE, p.dest)
               ELSE queueGetStateOnoffBLE
    BY <1>4 DEF GetAnswered
  <2>2. RequestTypes' /\ p.dest \in Address
    BY <1>4, <2>1 DEF GetAnswered, BleTypes, RequestTypes, Request
  <2>3. QueueTypes'
    BY <1>4, <2>1, <2>2, BoundAssumption
    DEF GetAnswered, BleTypes, QueueTypes
  <2>4. UNCHANGED <<stack, bound, stateButtonBLE, common, set_state, call,
                    joining>>
    BY <1>4 DEF GetAnswered, statics
  <2> QED
    BY <2>2, <2>3, <2>4, TypesFramed DEF BleTypes
<1>5. CASE TimedOut
  <2>1. PICK p \in pending :
          /\ pending' = pending \ {p}
          /\ UNCHANGED call \/ Call("bluetooth", p.dest, stateButtonBLE)
    BY <1>5 DEF TimedOut
  <2>2. /\ UNCHANGED <<stack, bound, joining, queueIdButton,
                       queueGetStateOnoffBLE, btc>>
        /\ UNCHANGED <<stateButtonBLE, common, set_state>>
    BY <1>5 DEF TimedOut, queues
  <2>3. RequestTypes' /\ p.dest \in Address
    BY <2>1, <2>2 DEF BleTypes, RequestTypes, Request
  <2>4. CallTypes'
    <3>1. CallTypes /\ stateButtonBLE \in {0, 1}
      BY DEF BleTypes, CallTypes
    <3>2. CASE Call("bluetooth", p.dest, stateButtonBLE)
      BY <2>2, <2>3, <3>1, <3>2, CallTyped DEF Caller
    <3> QED
      BY <2>1, <2>2, <3>2, TypesFramed
  <2> QED
    BY <2>2, <2>3, <2>4, TypesFramed DEF BleTypes
<1>6. ASSUME NEW n \in Node, StartAsking(n)
      PROVE  BleTypes'
  <2>1. /\ joining' = ToAsk(n, 1)
        /\ UNCHANGED <<stack, bound, stateButtonBLE, common, set_state, call,
                       btc, pending, queueIdButton, queueGetStateOnoffBLE>>
    BY <1>6 DEF StartAsking, statics, queues
  <2>2. JoinTypes'
    <3>1. 1 \in 1 .. Elements[n]
      BY DeviceAssumption
    <3> QED
      BY <2>1, <3>1, ToAskTyped
  <2> QED
    BY <2>1, <2>2, TypesFramed DEF BleTypes
<1>7. CASE AskState
  <2>1. /\ Asking /\ joining' = [joining EXCEPT ![1].asked = TRUE]
        /\ btc' = Append(btc, [op |-> "get", dest |-> AskedButton,
                              onoff |-> 0])
        /\ UNCHANGED <<stack, bound, stateButtonBLE, common, set_state, call,
                       pending, queueIdButton, queueGetStateOnoffBLE>>
    BY <1>7 DEF AskState, Post, statics, queues
  <2>2. [op |-> "get", dest |-> AskedButton, onoff |-> 0] \in Request
    BY <2>1, ButtonAsked DEF Request
  <2>3. RequestTypes'
    BY <2>1, <2>2, MemberAppended DEF BleTypes, RequestTypes
  <2>4. JoinTypes'
    BY <2>1 DEF BleTypes, JoinTypes, Asking
  <2> QED
    BY <2>1, <2>3, <2>4, TypesFramed DEF BleTypes
<1>8. CASE ShowState
  <2>1. /\ Asking /\ NextButton
        /\ UNCHANGED <<stack, bound, stateButtonBLE, common, set_state, call,
                       btc, pending, queueIdButton>>
    BY <1>8 DEF ShowState, statics
  <2>2. JoinTypes'
    <3>1. /\ joining \in [{1} -> [node : Node, asked : BOOLEAN,
                                  endpoint : Nat]]
          /\ joining[1].endpoint \in 1 .. Elements[joining[1].node]
          /\ Elements[joining[1].node] \in Nat
      BY <2>1, DeviceAssumption DEF BleTypes, JoinTypes, Asking
    <3>2. CASE joining[1].endpoint = Elements[joining[1].node]
      BY <2>1, <3>1, <3>2 DEF JoinTypes, NextButton, Asking
    <3>3. CASE joining[1].endpoint # Elements[joining[1].node]
      <4>1. joining' = ToAsk(joining[1].node, joining[1].endpoint + 1)
        BY <2>1, <3>3 DEF NextButton
      <4>2. /\ joining[1].endpoint + 1 \in 1 .. Elements[joining[1].node]
            /\ joining[1].node \in Node
        BY <2>1, <3>1, <3>3
      <4> QED
        BY <4>1, <4>2, ToAskTyped
    <3> QED
      BY <3>2, <3>3
  <2>3. QueueTypes'
    <3>1. CASE queueGetStateOnoffBLE = <<>>
      BY <1>8, <2>1, <3>1, TypesFramed DEF ShowState
    <3>2. CASE queueGetStateOnoffBLE # <<>>
      BY SMTT(30), <1>8, <2>1, <3>2, MemberTaken, BoundAssumption
      DEF ShowState, BleTypes, QueueTypes
    <3> QED
      BY <3>1, <3>2
  <2> QED
    BY <2>1, <2>2, <2>3, TypesFramed DEF BleTypes
<1> QED
  BY <1>1, <1>2, <1>3, <1>4, <1>5, <1>6, <1>7, <1>8 DEF BleEvents

LEMMA TypesStep ==
  ASSUME BleTypes, BleNext
  PROVE  BleTypes'
<1>1. ASSUME NEW c \in Caller, ble_mesh_command_set(c) PROVE BleTypes'
  BY <1>1, TypesWritten
<1>2. CASE ReportElsewhere
  BY <1>2, TypesPassed DEF ReportElsewhere
<1>3. CASE LinkCommand
  <2>1. PICK a \in Linked : Call("sendCommandBLE", a, Head(queueIdButton))
    BY <1>3 DEF LinkCommand
  <2>2. /\ queueIdButton # <<>> /\ queueIdButton' = Tail(queueIdButton)
        /\ UNCHANGED <<stack, bound, stateButtonBLE, common, set_state, btc,
                       pending, joining, queueGetStateOnoffBLE>>
    BY <1>3 DEF LinkCommand
  <2>3. a \in Address /\ Head(queueIdButton) \in {0, 1}
    BY <2>2, DeviceAssumption, MemberTaken DEF BleTypes, QueueTypes
  <2>4. CallTypes'
    BY <2>1, <2>2, <2>3, CallTyped DEF BleTypes, Caller
  <2>5. QueueTypes'
    BY <2>2, MemberTaken, BoundAssumption DEF BleTypes, QueueTypes
  <2> QED
    BY <2>2, <2>4, <2>5, TypesFramed DEF BleTypes
<1>4. CASE BleEvents
  BY <1>4, TypesEvents
<1> QED
  BY <1>1, <1>2, <1>3, <1>4 DEF BleNext

-----------------------------------------------------------------------------
(* Sharing the message                                                      *)

LEMMA SharedInit == BleStart => SharedInv
BY DEF BleStart, SharedInv, SentAsGiven, Idle, Caller

LEMMA SharedFramed ==
  ASSUME SharedInv, UNCHANGED <<common, set_state, call, astray>>
  PROVE  SharedInv'
BY DEF SharedInv, SentAsGiven

LEMMA SharedReset ==
  ASSUME SharedInv, BleReset, UNCHANGED astray
  PROVE  SharedInv'
BY DEF SharedInv, SentAsGiven, BleReset, Idle, Caller

LEMMA SharedCall ==
  ASSUME SharedInv, BleTypes, NEW c \in Caller, NEW a, NEW v, Call(c, a, v),
         UNCHANGED <<common, set_state, astray>>
  PROVE  SharedInv'
<1>1. call' = [call EXCEPT ![c] = [pc |-> "value", dest |-> a, onoff |-> v,
                                   overtaken |-> FALSE]]
  BY DEF Call
<1>2. DOMAIN call = Caller
  BY DEF BleTypes, CallTypes
<1> QED
  BY <1>1, <1>2 DEF SharedInv, SentAsGiven, Caller

\* While the task of the highest priority has a message under way, no other
\* writes one.
LEMMA Undisturbed ==
  ASSUME NEW c \in Caller, Runs(c), c # "sendCommandBLE"
  PROVE  call["sendCommandBLE"].pc = "idle"
BY DEF Runs, Ready, Priority, Caller

LEMMA SharedWritten ==
  ASSUME SharedInv, BleTypes, NEW c \in Caller, ble_mesh_command_set(c)
  PROVE  SharedInv'
<1> USE DEF SharedInv, SentAsGiven
<1>1. call \in [Caller -> CallType]
  BY DEF BleTypes, CallTypes
<1>2. CASE KeepValue(c)
  <2>1. /\ call' = [call EXCEPT ![c].pc = "message"]
        /\ UNCHANGED <<common, set_state>>
    BY <1>2 DEF KeepValue, Goto
  <2>2. UNCHANGED astray
    BY <1>2 DEF KeepValue, ble_mesh_command_set, SendMessage
  <2>3. \A d \in Caller : /\ call'[d].overtaken = call[d].overtaken
                          /\ d # c => call'[d] = call[d]
                          /\ call'[c].pc = "message"
    BY <1>1, <2>1 DEF CallType
  <2> QED
    BY <2>1, <2>2, <2>3 DEF Caller
<1>3. CASE FillMessage(c)
  <2>1. /\ common' = call[c].dest /\ Runs(c)
        /\ Overtake(c, "parameters") /\ UNCHANGED set_state
    BY <1>3 DEF FillMessage
  <2>2. UNCHANGED astray
    BY <1>3 DEF FillMessage, ble_mesh_command_set, SendMessage
  <2>3. /\ call'[c].pc = "parameters" /\ call'[c].dest = call[c].dest
        /\ call'[c].overtaken = call[c].overtaken
        /\ \A d \in Caller \ {c} :
             /\ call'[d].pc = call[d].pc
             /\ call'[d].overtaken =
                  (call[d].overtaken \/ call[d].pc \in {"parameters", "send"})
    BY <1>1, <2>1 DEF Overtake, CallType
  <2>4. ~ call'["sendCommandBLE"].overtaken
    BY <2>1, <2>3, Undisturbed DEF Caller
  <2>5. ASSUME NEW d \in Caller, ~ call'[d].overtaken
        PROVE  /\ call'[d].pc \in {"parameters", "send"} =>
                    common' = call'[d].dest
               /\ call'[d].pc = "send" => set_state' = call'[d].onoff
    BY <2>1, <2>3, <2>5
  <2> QED
    BY <2>2, <2>4, <2>5
<1>4. CASE FillParameters(c)
  <2>1. /\ set_state' = call[c].onoff /\ Runs(c) /\ call[c].pc = "parameters"
        /\ Overtake(c, "send") /\ UNCHANGED common
    BY <1>4 DEF FillParameters
  <2>2. UNCHANGED astray
    BY <1>4 DEF FillParameters, ble_mesh_command_set, SendMessage
  <2>3. /\ call'[c].pc = "send" /\ call'[c].dest = call[c].dest
        /\ call'[c].onoff = call[c].onoff
        /\ call'[c].overtaken = call[c].overtaken
        /\ \A d \in Caller \ {c} :
             /\ call'[d].pc = call[d].pc
             /\ call'[d].overtaken =
                  (call[d].overtaken \/ call[d].pc \in {"parameters", "send"})
    BY <1>1, <2>1 DEF Overtake, CallType
  <2>4. ~ call'["sendCommandBLE"].overtaken
    BY <2>1, <2>3, Undisturbed DEF Caller
  <2>5. ASSUME NEW d \in Caller, ~ call'[d].overtaken
        PROVE  /\ call'[d].pc \in {"parameters", "send"} =>
                    common' = call'[d].dest
               /\ call'[d].pc = "send" => set_state' = call'[d].onoff
    BY <2>1, <2>3, <2>5
  <2> QED
    BY <2>2, <2>4, <2>5
<1>5. CASE SendMessage(c)
  <2>1. /\ call[c].pc = "send" /\ UNCHANGED <<common, set_state>>
        /\ call' = [call EXCEPT ![c] = Idle]
    BY <1>5 DEF SendMessage
  <2>2. \A d \in Caller : call'[d] = IF d = c THEN Idle ELSE call[d]
    BY <1>1, <2>1
  <2>3. \A w \in astray' :
          w \in astray \/ (w.overtaken /\ w.by # "sendCommandBLE")
    <3>1. CASE common # call[c].dest \/ set_state # call[c].onoff
      <4>1. call[c].overtaken /\ c # "sendCommandBLE"
        BY <2>1, <3>1 DEF Caller
      <4>2. astray' = astray \cup {[by |-> c, overtaken |-> call[c].overtaken]}
        BY <1>5, <3>1 DEF SendMessage
      <4> QED
        BY <4>1, <4>2
    <3>2. CASE ~ (common # call[c].dest \/ set_state # call[c].onoff)
      BY <1>5, <3>2 DEF SendMessage
    <3> QED
      BY <3>1, <3>2
  <2> QED
    BY <2>1, <2>2, <2>3 DEF Idle, Caller
<1> QED
  BY <1>2, <1>3, <1>4, <1>5 DEF ble_mesh_command_set

-----------------------------------------------------------------------------
(* The on-off client                                                        *)

LEMMA SharedEvents ==
  ASSUME SharedInv, BleTypes, BleEvents
  PROVE  SharedInv'
<1>1. CASE TimedOut
  <2>1. /\ UNCHANGED <<common, set_state, astray>>
        /\ \/ UNCHANGED call
           \/ \E p \in pending : Call("bluetooth", p.dest, stateButtonBLE)
    BY <1>1 DEF TimedOut, history
  <2>2. CASE UNCHANGED call
    BY <2>1, <2>2, SharedFramed
  <2>3. ASSUME NEW p \in pending, Call("bluetooth", p.dest, stateButtonBLE)
        PROVE  SharedInv'
    BY <2>1, <2>3, SharedCall DEF Caller
  <2> QED
    BY <2>1, <2>2, <2>3
<1>2. CASE ~ TimedOut
  <2>1. UNCHANGED <<common, set_state, call, astray>>
    BY <1>2 DEF BleEvents, AppKeyAdded, TakeRequest, SetAnswered, GetAnswered,
                StartAsking, AskState, ShowState, statics, history
  <2> QED
    BY <2>1, SharedFramed
<1> QED
  BY <1>1, <1>2

LEMMA BleStep ==
  ASSUME BleInv, BleNext
  PROVE  BleInv' /\ (UNCHANGED events \/ Happens)
<1>1. BleTypes'
  BY TypesStep DEF BleInv
<1>2. SharedInv'
  <2>1. CASE ReportElsewhere
    BY <2>1, SharedFramed DEF ReportElsewhere, BleInv, statics, history
  <2>2. CASE LinkCommand
    BY <2>2, SharedCall DEF LinkCommand, BleInv, history, Caller
  <2>3. ASSUME NEW c \in Caller, ble_mesh_command_set(c) PROVE SharedInv'
    BY <2>3, SharedWritten DEF BleInv
  <2> QED
    BY <2>1, <2>2, <2>3, SharedEvents DEF BleNext, BleInv
<1>3. UNCHANGED events \/ Happens
  BY DEF BleNext, BleEvents, ble_mesh_command_set, ReportElsewhere, LinkCommand,
         AppKeyAdded, TakeRequest, SetAnswered, GetAnswered, TimedOut,
         StartAsking, AskState, ShowState
<1> QED
  BY <1>1, <1>2, <1>3 DEF BleInv

LEMMA BleUnchanged ==
  ASSUME BleInv, UNCHANGED mesh
  PROVE  BleInv'
<1>1. UNCHANGED <<stack, bound, stateButtonBLE, common, set_state, call, btc,
                  pending, joining, queueIdButton,
                  queueGetStateOnoffBLE, shown, astray>>
  BY DEF mesh, statics, queues, history
<1>2. BleTypes'
  BY <1>1, TypesFramed DEF BleInv, BleTypes
<1> QED
  BY <1>1, <1>2, SharedFramed DEF BleInv

\* The gateway starts over; the mesh is started or stopped.
LEMMA BleStarted ==
  ASSUME BleInv, BleReset, UNCHANGED history
  PROVE  BleInv'
<1>1. UNCHANGED <<shown, astray>>
  BY DEF history
<1> QED
  BY <1>1, TypesReset, SharedReset DEF BleInv

LEMMA BleStacked ==
  ASSUME BleInv, (BleInit /\ UNCHANGED <<bound, pending>>) \/ BleDeinit,
         UNCHANGED <<statics, btc, joining, queues, history>>
  PROVE  BleInv'
<1>1. StackTypes' /\ pending' \subseteq pending
  BY DEF BleInv, BleTypes, StackTypes, BleInit, BleDeinit, bluetooth_init,
         ble_mesh_init
<1>2. BleTypes'
  BY <1>1, TypesStacked DEF BleInv
<1>3. SharedInv'
  BY SharedFramed DEF BleInv, statics, history
<1> QED
  BY <1>2, <1>3 DEF BleInv

-----------------------------------------------------------------------------
(* The other parts of the invariant                                         *)

\* The fields of the command in command_set.
LEMMA CommandTyped ==
  ASSUME CommandInv
  PROVE  /\ command_set.nodeId \in Nat /\ command_set.endpoint \in Nat
         /\ command_set.url \in Urls
<1>1. CASE command_set = Cleared
  BY <1>1 DEF Cleared, Urls
<1>2. ASSUME NEW m \in Messages, command_set = Parsed(m), ~ Crashes(m)
      PROVE  /\ command_set.nodeId \in Nat /\ command_set.endpoint \in Nat
             /\ command_set.url \in Urls
  <2>a. command_set.nodeId = IF "nodeId" \in DOMAIN m THEN m.nodeId ELSE 0
    BY <1>2 DEF Parsed, JSON_analyze_SUB_MQTT, Cleared
  <2>b. command_set.endpoint =
          IF "endpoint" \in DOMAIN m THEN m.endpoint ELSE 0
    BY <1>2 DEF Parsed, JSON_analyze_SUB_MQTT, Cleared
  <2>c. command_set.url = IF "url" \in DOMAIN m THEN m.url ELSE ""
    BY <1>2 DEF Parsed, JSON_analyze_SUB_MQTT, Cleared
  <2>2. "nodeId" \in DOMAIN m => m.nodeId \in Nat
    BY <1>2, CommandAssumption DEF Crashes, Text
  <2>3. "endpoint" \in DOMAIN m => m.endpoint \in Nat
    BY CommandAssumption
  <2>4. "url" \in DOMAIN m => m.url \in Urls
    BY DEF Urls
  <2>5. "" \in Urls
    BY DEF Urls
  <2>6. command_set.nodeId \in Nat
    BY <2>a, <2>2
  <2>7. command_set.endpoint \in Nat
    BY <2>b, <2>3
  <2>8. command_set.url \in Urls
    BY <2>c, <2>4, <2>5
  <2> QED
    BY <2>6, <2>7, <2>8
<1> QED
  BY <1>1, <1>2 DEF CommandInv

\* The fields of the message mqtt_handle has received.
LEMMA CommandReceived ==
  ASSUME NEW m \in Messages, ~ Crashes(m), executed' = <<m>>,
         command_set' = Parsed(m)
  PROVE  CommandInv'
BY DEF CommandInv, Parsed, JSON_analyze_SUB_MQTT, Crashes, Text, Cleared

LEMMA CommandFramed ==
  ASSUME CommandInv, UNCHANGED <<command_set, executed>>
  PROVE  CommandInv'
BY DEF CommandInv

\* The buffer is left alone, and mqtt_handle neither receives nor returns.
LEMMA RingFramed ==
  ASSUME RingInv, UNCHANGED input, at = "poll" <=> at' = "poll"
  PROVE  RingInv'
BY DEF RingInv, input

LEMMA OtaFramed ==
  ASSUME OtaInv, UNCHANGED ota,
         \/ UNCHANGED command_set
         \/ \A t \in Upgrades : upgrade[t].pc # "created"
  PROVE  OtaInv'
<1>1. UNCHANGED <<upgrade, update, boot, overlapped>>
  BY DEF ota
<1>2. UNCHANGED OneImage /\ \A t \in Upgrades : UNCHANGED Writing(t)
  BY <1>1 DEF OneImage, Writing
<1> QED
  BY <1>1, <1>2 DEF OtaInv, UpgradeAsAsked

LEMMA NoUpgradeTyped == NoUpgrade \in UpgradeType /\ NoUpgrade.pc = "none"
BY CommandAssumption DEF NoUpgrade, UpgradeType, Urls

LEMMA OtaReset ==
  ASSUME OtaInv, Restart
  PROVE  OtaInv'
<1>1. /\ upgrade' = [t \in Upgrades |-> NoUpgrade] /\ boot' = "running"
      /\ update' \in [1 .. Blocks -> Urls \cup {"old"}]
      /\ UNCHANGED overlapped
  BY DEF Restart, RamCleared, OtaInv
<1>2. /\ upgrade' \in [Upgrades -> UpgradeType]
      /\ \A t \in Upgrades : upgrade'[t].pc = "none"
  BY <1>1, NoUpgradeTyped
<1> QED
  BY <1>1, <1>2 DEF OtaInv, UpgradeAsAsked, Writing

\* A task is created for the command that is being executed.
LEMMA OtaCreated ==
  ASSUME OtaInv, CommandInv, ExecuteUpgrade
  PROVE  OtaInv'
<1>1. UNCHANGED <<command_set, update, boot, overlapped>>
  BY DEF ExecuteUpgrade, mqttFrame
<1>2. CASE UNCHANGED upgrade
  BY <1>1, <1>2, OtaFramed DEF ota
<1>3. ASSUME NEW t \in Upgrades, upgrade[t].pc = "none",
             upgrade' = [upgrade EXCEPT ![t] = NewUpgrade(command_set.url)]
      PROVE  OtaInv'
  <2> DEFINE u == NewUpgrade(command_set.url)
  <2>1. /\ u \in UpgradeType /\ u.pc = "created" /\ u.asked = command_set.url
        /\ u.given <=> command_set.url # ""
    <3>1. command_set.url \in Urls /\ "" \in Urls
      BY CommandTyped DEF Urls
    <3>2. 0 \in 0 .. Blocks
      BY CommandAssumption
    <3> QED
      BY <3>1, <3>2 DEF UpgradeType, NewUpgrade
  <2> HIDE DEF u
  <2>2. /\ upgrade' \in [Upgrades -> UpgradeType] /\ upgrade'[t] = u
        /\ \A s \in Upgrades \ {t} : upgrade'[s] = upgrade[s]
    BY <1>3, <2>1 DEF OtaInv, u
  <2>3. \A s \in Upgrades : Writing(s)' => Writing(s) /\ s # t
    BY <2>1, <2>2 DEF Writing
  <2>4. UNCHANGED OneImage
    BY <1>1 DEF OneImage
  <2> QED
    BY <1>1, <1>3, <2>1, <2>2, <2>3, <2>4 DEF OtaInv, UpgradeAsAsked
<1> QED
  BY <1>2, <1>3 DEF ExecuteUpgrade

\* An upgrade takes the step from u to v; no other does, and none is created.
LEMMA OtaMoved ==
  ASSUME OtaInv, NEW t \in Upgrades, NEW v \in UpgradeType,
         upgrade' = [upgrade EXCEPT ![t] = v], v.pc # "created",
         UNCHANGED command_set
  PROVE  /\ upgrade' \in [Upgrades -> UpgradeType] /\ upgrade'[t] = v
         /\ \A s \in Upgrades \ {t} :
              upgrade'[s] = upgrade[s] /\ UNCHANGED Writing(s)
         /\ \A s \in Upgrades : upgrade'[s].pc = "created" =>
              /\ upgrade'[s].asked = command_set'.url
              /\ upgrade'[s].given <=> command_set'.url # ""
<1>1. /\ upgrade' \in [Upgrades -> UpgradeType] /\ upgrade'[t] = v
      /\ \A s \in Upgrades \ {t} : upgrade'[s] = upgrade[s]
  BY DEF OtaInv
<1> QED
  BY <1>1 DEF OtaInv, Writing

\* The task has ended, or has not begun to write.
LEMMA OtaEnded ==
  ASSUME OtaInv, NEW t \in Upgrades, upgrade[t].pc # "booting",
         upgrade' = [upgrade EXCEPT ![t] = NoUpgrade],
         UNCHANGED <<command_set, update, boot, overlapped>>
  PROVE  OtaInv'
<1>1. NoUpgrade \in UpgradeType /\ NoUpgrade.pc = "none"
  BY NoUpgradeTyped
<1>2. /\ upgrade' \in [Upgrades -> UpgradeType] /\ upgrade'[t].pc = "none"
      /\ \A s \in Upgrades \ {t} :
           upgrade'[s] = upgrade[s] /\ UNCHANGED Writing(s)
      /\ \A s \in Upgrades : upgrade'[s].pc = "created" =>
           /\ upgrade'[s].asked = command_set'.url
           /\ upgrade'[s].given <=> command_set'.url # ""
  BY <1>1, OtaMoved
<1>3. ~ Writing(t)' /\ UNCHANGED OneImage
  BY ZenonT(30), <1>2 DEF Writing, OneImage
<1> QED
  BY <1>2, <1>3 DEF OtaInv, UpgradeAsAsked

LEMMA OtaRead ==
  ASSUME OtaInv, CommandInv, NEW t \in Upgrades, ReadAddress(t)
  PROVE  OtaInv'
<1> DEFINE a == IF upgrade[t].given THEN command_set.url ELSE URL_OTA
           v == [upgrade[t] EXCEPT !.pc = "begin", !.url = a]
<1>1. /\ upgrade' = [upgrade EXCEPT ![t] = v] /\ upgrade[t] \in UpgradeType
      /\ upgrade[t].pc = "created"
      /\ UNCHANGED <<command_set, update, boot, overlapped>>
  BY DEF ReadAddress, otaFrame, OtaInv
<1>2. /\ a \in Urls
      /\ a = IF upgrade[t].asked = "" THEN URL_OTA ELSE upgrade[t].asked
  <2>1. /\ upgrade[t].given <=> command_set.url # ""
        /\ upgrade[t].asked = command_set.url
    BY <1>1 DEF OtaInv
  <2>2. command_set.url \in Urls /\ URL_OTA \in Urls
    BY CommandTyped DEF Urls
  <2> QED
    BY <2>1, <2>2
<1>3. /\ v \in UpgradeType /\ v.pc = "begin" /\ v.url = a
      /\ v.asked = upgrade[t].asked
  BY <1>1, <1>2 DEF UpgradeType
<1> HIDE DEF a, v
<1>4. /\ upgrade' \in [Upgrades -> UpgradeType] /\ upgrade'[t] = v
      /\ \A s \in Upgrades \ {t} :
           upgrade'[s] = upgrade[s] /\ UNCHANGED Writing(s)
      /\ \A s \in Upgrades : upgrade'[s].pc = "created" =>
           /\ upgrade'[s].asked = command_set'.url
           /\ upgrade'[s].given <=> command_set'.url # ""
  BY <1>1, <1>3, OtaMoved
<1>5. ~ Writing(t)' /\ UNCHANGED OneImage
  <2>1. ~ Writing(t)'
    BY <1>3, <1>4 DEF Writing
  <2>2. update' = update
    BY <1>1
  <2> QED
    BY <2>1, <2>2 DEF OneImage
<1> QED
  BY ZenonT(30), <1>1, <1>2, <1>3, <1>4, <1>5 DEF OtaInv, UpgradeAsAsked

LEMMA OtaBegun ==
  ASSUME OtaInv, NEW t \in Upgrades, Begin(t)
  PROVE  OtaInv'
<1>1. /\ upgrade[t].pc = "begin" /\ upgrade[t] \in UpgradeType
      /\ UNCHANGED <<command_set, update, boot>>
  BY DEF Begin, otaFrame, OtaInv
<1>2. CASE upgrade' = [upgrade EXCEPT ![t] = NoUpgrade] /\ UNCHANGED overlapped
  BY <1>1, <1>2, OtaEnded
<1>3. CASE Moves(t, "loading") /\ overlapped' = (overlapped \/
                                 \E o \in Upgrades \ {t} : Writing(o))
  <2> DEFINE v == [upgrade[t] EXCEPT !.pc = "loading"]
  <2>1. upgrade' = [upgrade EXCEPT ![t] = v]
    BY <1>3 DEF Moves
  <2>2. /\ v \in UpgradeType /\ v.pc = "loading" /\ v.url = upgrade[t].url
        /\ v.asked = upgrade[t].asked
    BY <1>1 DEF UpgradeType
  <2> HIDE DEF v
  <2>3. /\ upgrade' \in [Upgrades -> UpgradeType] /\ upgrade'[t] = v
        /\ \A s \in Upgrades \ {t} :
             upgrade'[s] = upgrade[s] /\ UNCHANGED Writing(s)
        /\ \A s \in Upgrades : upgrade'[s].pc = "created" =>
             /\ upgrade'[s].asked = command_set'.url
             /\ upgrade'[s].given <=> command_set'.url # ""
    BY <1>1, <2>1, <2>2, OtaMoved
  <2>4. UNCHANGED OneImage
    BY <1>1 DEF OneImage
  <2>5. ~ overlapped' =>
          ~ overlapped /\ \A s \in Upgrades : Writing(s)' => s = t
    BY <1>3, <2>3
  <2>a. boot' = "update" => \E s \in Upgrades : upgrade'[s].pc = "booting"
    BY <1>1, <2>2, <2>3, <2>4, <2>5 DEF OtaInv
  <2>b. ~ overlapped' =>
          \A r, s \in Upgrades : Writing(r)' /\ Writing(s)' => r = s
    BY <1>1, <2>2, <2>3, <2>4, <2>5 DEF OtaInv
  <2>c. UpgradeAsAsked'
    <3>1. ASSUME NEW s \in Upgrades,
                 upgrade'[s].pc \in {"begin", "loading", "booting"}
          PROVE  upgrade'[s].url = IF upgrade'[s].asked = "" THEN URL_OTA
                                                         ELSE upgrade'[s].asked
      <4>1. /\ upgrade[s].pc \in {"begin", "loading", "booting"}
            /\ upgrade'[s].url = upgrade[s].url
            /\ upgrade'[s].asked = upgrade[s].asked
        BY <1>1, <2>2, <2>3, <3>1
      <4> QED
        BY <4>1 DEF OtaInv, UpgradeAsAsked
    <3>2. boot' = "update" /\ ~ overlapped' => OneImage'
      BY <1>1, <2>2, <2>3, <2>4, <2>5 DEF OtaInv, UpgradeAsAsked
    <3> QED
      BY <3>1, <3>2 DEF UpgradeAsAsked
  <2> QED
    BY <1>1, <2>2, <2>3, <2>4, <2>5, <2>a, <2>b, <2>c DEF OtaInv
<1> QED
  BY <1>2, <1>3 DEF Begin

LEMMA OtaStored ==
  ASSUME OtaInv, NEW t \in Upgrades, Perform(t)
  PROVE  OtaInv'
<1>1. /\ upgrade[t].pc = "loading" /\ upgrade[t] \in UpgradeType
      /\ upgrade[t].written < Blocks
      /\ UNCHANGED <<command_set, boot, overlapped>>
  BY DEF Perform, otaFrame, OtaInv
<1>2. CASE upgrade' = [upgrade EXCEPT ![t] = NoUpgrade] /\ UNCHANGED update
  BY <1>1, <1>2, OtaEnded
<1>3. CASE /\ upgrade' = [upgrade EXCEPT ![t].written = @ + 1]
           /\ update' = [update EXCEPT ![upgrade[t].written + 1] =
                           upgrade[t].url]
  <2> DEFINE v == [upgrade[t] EXCEPT !.written = @ + 1]
  <2>1. upgrade' = [upgrade EXCEPT ![t] = v]
    BY <1>3
  <2>2. /\ v \in UpgradeType /\ v.pc = "loading" /\ v.url = upgrade[t].url
        /\ v.asked = upgrade[t].asked
    BY <1>1, CommandAssumption DEF UpgradeType
  <2> HIDE DEF v
  <2>3. /\ upgrade' \in [Upgrades -> UpgradeType] /\ upgrade'[t] = v
        /\ \A s \in Upgrades \ {t} :
             upgrade'[s] = upgrade[s] /\ UNCHANGED Writing(s)
        /\ \A s \in Upgrades : upgrade'[s].pc = "created" =>
             /\ upgrade'[s].asked = command_set'.url
             /\ upgrade'[s].given <=> command_set'.url # ""
    BY <1>1, <2>1, <2>2, OtaMoved
  <2>4. Writing(t) /\ Writing(t)'
    BY <1>1, <2>2, <2>3 DEF Writing
  <2>5. update' \in [1 .. Blocks -> Urls \cup {"old"}]
    BY <1>1, <1>3 DEF OtaInv, UpgradeType
  <2>6. boot = "update" => overlapped
    BY <1>1, <2>4 DEF OtaInv, Writing
  <2>a. boot' = "update" => \E s \in Upgrades : upgrade'[s].pc = "booting"
    BY <1>1, <2>2, <2>3, <2>4, <2>5, <2>6 DEF OtaInv
  <2>b. ~ overlapped' =>
          \A r, s \in Upgrades : Writing(r)' /\ Writing(s)' => r = s
    BY ZenonT(30), <1>1, <2>2, <2>3, <2>4, <2>5, <2>6 DEF OtaInv
  <2>c. UpgradeAsAsked'
    <3>1. ASSUME NEW s \in Upgrades,
                 upgrade'[s].pc \in {"begin", "loading", "booting"}
          PROVE  upgrade'[s].url = IF upgrade'[s].asked = "" THEN URL_OTA
                                                         ELSE upgrade'[s].asked
      <4>1. /\ upgrade[s].pc \in {"begin", "loading", "booting"}
            /\ upgrade'[s].url = upgrade[s].url
            /\ upgrade'[s].asked = upgrade[s].asked
        BY <1>1, <2>2, <2>3, <3>1
      <4> QED
        BY <4>1 DEF OtaInv, UpgradeAsAsked
    <3>2. boot' = "update" /\ ~ overlapped' => OneImage'
      BY <1>1, <2>2, <2>3, <2>4, <2>5, <2>6 DEF OtaInv, UpgradeAsAsked
    <3> QED
      BY <3>1, <3>2 DEF UpgradeAsAsked
  <2> QED
    BY <1>1, <2>2, <2>3, <2>4, <2>5, <2>6, <2>a, <2>b, <2>c DEF OtaInv
<1> QED
  BY <1>2, <1>3 DEF Perform

LEMMA OtaFinished ==
  ASSUME OtaInv, NEW t \in Upgrades, Finish(t)
  PROVE  OtaInv'
<1>1. /\ upgrade[t].pc = "loading" /\ upgrade[t] \in UpgradeType
      /\ UNCHANGED <<command_set, update, overlapped>>
  BY DEF Finish, otaFrame, OtaInv
<1>2. CASE ~ OneImage
  BY <1>1, <1>2, OtaEnded DEF Finish
<1>3. CASE OneImage
  <2> DEFINE v == [upgrade[t] EXCEPT !.pc = "booting"]
  <2>1. upgrade' = [upgrade EXCEPT ![t] = v] /\ boot' = "update"
    BY <1>3 DEF Finish, Moves
  <2>2. /\ v \in UpgradeType /\ v.pc = "booting" /\ v.url = upgrade[t].url
        /\ v.asked = upgrade[t].asked
    BY <1>1 DEF UpgradeType
  <2> HIDE DEF v
  <2>3. /\ upgrade' \in [Upgrades -> UpgradeType] /\ upgrade'[t] = v
        /\ \A s \in Upgrades \ {t} :
             upgrade'[s] = upgrade[s] /\ UNCHANGED Writing(s)
        /\ \A s \in Upgrades : upgrade'[s].pc = "created" =>
             /\ upgrade'[s].asked = command_set'.url
             /\ upgrade'[s].given <=> command_set'.url # ""
    BY <1>1, <2>1, <2>2, OtaMoved
  <2>4. Writing(t) /\ OneImage'
    BY <1>1, <1>3 DEF Writing, OneImage
  <2>a. boot' = "update" => \E s \in Upgrades : upgrade'[s].pc = "booting"
    BY <1>1, <2>1, <2>2, <2>3, <2>4 DEF OtaInv
  <2>b. ~ overlapped' =>
          \A r, s \in Upgrades : Writing(r)' /\ Writing(s)' => r = s
    BY ZenonT(30), <1>1, <2>1, <2>2, <2>3, <2>4 DEF OtaInv
  <2>c. UpgradeAsAsked'
    <3>1. ASSUME NEW s \in Upgrades,
                 upgrade'[s].pc \in {"begin", "loading", "booting"}
          PROVE  upgrade'[s].url = IF upgrade'[s].asked = "" THEN URL_OTA
                                                         ELSE upgrade'[s].asked
      <4>1. /\ upgrade[s].pc \in {"begin", "loading", "booting"}
            /\ upgrade'[s].url = upgrade[s].url
            /\ upgrade'[s].asked = upgrade[s].asked
        BY <1>1, <2>2, <2>3, <3>1
      <4> QED
        BY <4>1 DEF OtaInv, UpgradeAsAsked
    <3> QED
      BY <2>4, <3>1 DEF UpgradeAsAsked
  <2> QED
    BY <1>1, <2>1, <2>2, <2>3, <2>4, <2>a, <2>b, <2>c DEF OtaInv
<1> QED
  BY <1>2, <1>3

LEMMA OtaStep ==
  ASSUME OtaInv, CommandInv, NEW t \in Upgrades, esp_ota_task(t)
  PROVE  OtaInv'
BY OtaRead, OtaBegun, OtaStored, OtaFinished, OtaReset
DEF esp_ota_task, RestartInto

-----------------------------------------------------------------------------
(* The ring buffer                                                          *)

Item == [msg : Messages, whole : BOOLEAN]

LEMMA RingArrived ==
  ASSUME RingInv, NEW m \in Messages, Arrive(m)
  PROVE  RingInv'
<1>1. UNCHANGED <<taken, derailed, damaged, at>>
  BY DEF Arrive
<1>2. CASE Len(ring) < RingCap
  <2> DEFINE i == [msg |-> m, whole |-> TRUE]
  <2>1. ring' = Append(ring, i) /\ accepted' = Append(accepted, m)
    BY <1>2 DEF Arrive
  <2>2. i \in Item /\ i.msg = m /\ i.whole
    BY DEF Item
  <2> HIDE DEF i
  <2>3. /\ ring \in Seq(Item) /\ accepted \in Seq(Messages)
        /\ RingCap \in Nat
    BY CommandAssumption DEF RingInv, Item
  <2>4. /\ ring' \in Seq(Item) /\ accepted' \in Seq(Messages)
        /\ Len(ring') = Len(ring) + 1 /\ Len(accepted') = Len(accepted) + 1
        /\ \A x \in 1 .. Len(ring) : ring'[x] = ring[x]
        /\ ring'[Len(ring) + 1] = i
        /\ \A x \in 1 .. Len(accepted) : accepted'[x] = accepted[x]
        /\ accepted'[Len(accepted) + 1] = m
    BY <2>1, <2>2, <2>3
  <2>5. CASE derailed
    <3>1. at = "poll" /\ damaged /\ taken \in 0 .. Len(ring')
      BY <2>3, <2>4, <2>5 DEF RingInv
    <3> QED
      BY <1>1, <1>2, <2>3, <2>4, <2>5, <3>1 DEF RingInv, Item
  <2>6. CASE ~ derailed
    <3>1. /\ taken = IF at = "poll" THEN 0 ELSE 1
          /\ Len(ring) = Len(accepted) + taken
          /\ \A x \in 1 .. Len(accepted) : accepted[x] = ring[taken + x].msg
      BY <2>6 DEF RingInv
    <3>2. ASSUME NEW x \in 1 .. Len(accepted')
          PROVE  accepted'[x] = ring'[taken + x].msg
      <4>1. CASE x = Len(accepted) + 1
        BY <2>2, <2>3, <2>4, <3>1, <4>1
      <4>2. CASE x \in 1 .. Len(accepted)
        <5>1. taken + x \in 1 .. Len(ring)
          BY <2>3, <3>1, <4>2
        <5> QED
          BY <2>4, <3>1, <4>2, <5>1
      <4> QED
        BY <2>3, <2>4, <4>1, <4>2
    <3>3. Len(ring') = Len(accepted') + taken
      BY <2>3, <2>4, <3>1
    <3>4. ~ damaged => \A x \in 1 .. Len(ring') : ring'[x].whole
      <4>1. ASSUME ~ damaged, NEW x \in 1 .. Len(ring') PROVE ring'[x].whole
        BY <2>2, <2>3, <2>4, <4>1 DEF RingInv
      <4> QED
        BY <4>1
    <3>5. Len(ring') <= RingCap
      BY <1>2, <2>3, <2>4
    <3> QED
      BY <1>1, <2>4, <2>6, <3>1, <3>2, <3>3, <3>4, <3>5 DEF RingInv, Item
  <2> QED
    BY <2>5, <2>6
<1>3. CASE ~ (Len(ring) < RingCap)
  BY <1>1, <1>3 DEF Arrive, RingInv
<1> QED
  BY <1>2, <1>3

\* The oldest command of the buffer is the oldest of those it accepted; a
\* command it damages is damaged by its zero.
LEMMA RingReceived ==
  ASSUME RingInv, Receive
  PROVE  /\ RingInv'
         /\ executed' = <<Oldest.msg>> /\ Oldest.msg \in Messages
<1>1. /\ at = "poll" /\ ~ derailed /\ taken < Len(ring) /\ ~ derailed'
      /\ at' = "execute" /\ taken' = taken + 1 /\ Terminate
      /\ damaged' = (damaged \/ ring' # ring)
      /\ executed' = <<Head(accepted)>> /\ accepted' = Tail(accepted)
  BY DEF Receive, Polls
<1>2. /\ ring \in Seq(Item) /\ Len(ring) <= RingCap
      /\ accepted \in Seq(Messages) /\ RingCap \in Nat
      /\ taken = 0 /\ Len(ring) = Len(accepted)
      /\ \A x \in 1 .. Len(accepted) : accepted[x] = ring[x].msg
      /\ ~ damaged => \A x \in 1 .. Len(ring) : ring[x].whole
  BY <1>1, CommandAssumption DEF RingInv, Item
<1>3. accepted # <<>> /\ Len(accepted) \in Nat \ {0}
  BY <1>1, <1>2
<1>4. /\ Head(accepted) = Oldest.msg /\ Oldest.msg \in Messages
  BY <1>2, <1>3 DEF Oldest
<1>5. /\ accepted' \in Seq(Messages) /\ Len(accepted') = Len(accepted) - 1
      /\ \A x \in 1 .. Len(accepted') : accepted'[x] = accepted[x + 1]
  BY <1>1, <1>2, <1>3
<1>6. /\ ring' \in Seq(Item) /\ Len(ring') = Len(ring)
      /\ \A x \in 1 .. Len(ring) : ring'[x].msg = ring[x].msg
  <2>1. CASE UNCHANGED ring
    BY <1>2, <2>1
  <2>2. CASE /\ 2 \in DOMAIN ring
             /\ ring' = [ring EXCEPT ![2].whole = FALSE]
    <3>1. ring[2] \in Item
      BY <1>2, <2>2
    <3>2. [ring[2] EXCEPT !.whole = FALSE] \in Item
          /\ [ring[2] EXCEPT !.whole = FALSE].msg = ring[2].msg
      BY <3>1 DEF Item
    <3>3. PICK i \in Item : /\ i.msg = ring[2].msg
                            /\ ring' = [ring EXCEPT ![2] = i]
      BY <2>2, <3>2
    <3> QED
      <4>1. /\ ring' \in Seq(Item) /\ Len(ring') = Len(ring)
            /\ \A x \in 1 .. Len(ring) :
                 ring'[x] = IF x = 2 THEN i ELSE ring[x]
        <5>1. ring \in Seq(Item) /\ 2 \in DOMAIN ring
          BY <1>2, <2>2
        <5>2. /\ [ring EXCEPT ![2] = i] \in Seq(Item)
              /\ Len([ring EXCEPT ![2] = i]) = Len(ring)
              /\ \A x \in 1 .. Len(ring) :
                   [ring EXCEPT ![2] = i][x] = IF x = 2 THEN i ELSE ring[x]
          BY <5>1, MemberReplaced
        <5> QED
          BY <3>3, <5>2
      <4> QED
        BY <3>3, <4>1
  <2> QED
    BY <1>1, <1>2, <2>1, <2>2 DEF Terminate
<1>7. ~ damaged' => \A x \in 1 .. Len(ring') : ring'[x].whole
  BY <1>1, <1>2
<1>8. \A x \in 1 .. Len(accepted') : accepted'[x] = ring'[taken' + x].msg
  BY <1>1, <1>2, <1>3, <1>5, <1>6
<1>9. /\ taken' = 1 /\ Len(ring') = Len(accepted') + taken'
      /\ Len(ring') <= RingCap
  BY <1>1, <1>2, <1>3, <1>5, <1>6
<1> QED
  BY <1>1, <1>4, <1>5, <1>6, <1>7, <1>8, <1>9 DEF RingInv, Item

\* Only a damaged item looks empty.
LEMMA RingEmpty ==
  ASSUME RingInv, ReceiveEmpty
  PROVE  RingInv'
<1>1. /\ at = "poll" /\ ~ derailed /\ taken < Len(ring) /\ derailed'
      /\ taken' = taken + 1 /\ ~ Oldest.whole
      /\ UNCHANGED <<ring, accepted, damaged, at>>
  BY DEF ReceiveEmpty, Polls
<1>2. /\ taken = 0 /\ Len(ring) \in Nat /\ Len(ring) >= 1
  BY <1>1 DEF RingInv
<1>3. damaged
  BY <1>1, <1>2 DEF RingInv, Oldest
<1> QED
  BY <1>1, <1>2, <1>3 DEF RingInv

LEMMA RingReturned ==
  ASSUME RingInv, Return
  PROVE  RingInv'
<1>1. /\ at = "return" /\ at' = "poll" /\ ring' = Tail(ring)
      /\ taken' = taken - 1
      /\ UNCHANGED <<accepted, damaged, derailed>>
  BY DEF Return
<1>2. /\ ~ derailed /\ taken = 1 /\ Len(ring) = Len(accepted) + 1
      /\ ring \in Seq(Item) /\ accepted \in Seq(Messages)
      /\ Len(ring) <= RingCap /\ RingCap \in Nat
      /\ \A x \in 1 .. Len(accepted) : accepted[x] = ring[1 + x].msg
      /\ ~ damaged => \A x \in 1 .. Len(ring) : ring[x].whole
  BY <1>1, CommandAssumption DEF RingInv, Item
<1>3. /\ ring' \in Seq(Item) /\ Len(ring') = Len(ring) - 1
      /\ \A x \in 1 .. Len(ring') : ring'[x] = ring[x + 1]
  BY <1>1, <1>2
<1>4. \A x \in 1 .. Len(accepted') : accepted'[x] = ring'[taken' + x].msg
  BY <1>1, <1>2, <1>3
<1>5. ~ damaged' => \A x \in 1 .. Len(ring') : ring'[x].whole
  BY <1>1, <1>2, <1>3
<1>6. /\ taken' = 0 /\ Len(ring') = Len(accepted') + taken'
      /\ Len(ring') <= RingCap
  BY <1>1, <1>2, <1>3
<1> QED
  BY <1>1, <1>2, <1>3, <1>4, <1>5, <1>6 DEF RingInv, Item

LEMMA RingEmptied ==
  ASSUME ring' = <<>>, taken' = 0, ~ derailed', accepted' = <<>>, at' = "poll"
  PROVE  RingInv'
BY CommandAssumption DEF RingInv

-----------------------------------------------------------------------------
(* The steps                                                                *)

LEMMA HappensOnce ==
  ASSUME SystemTypes, UNCHANGED events \/ Happens
  PROVE  events' \in 0 .. MaxEvents
BY BoundAssumption DEF SystemTypes, Happens

LEMMA CountsFramed ==
  ASSUME SystemTypes, UNCHANGED <<system, events>>,
         {derailed', damaged', overlapped'} \subseteq BOOLEAN,
         at' \in {"poll", "execute", "locking", "link", "return"},
         provision_status' \in {0, 1}
  PROVE  SystemTypes'
BY DEF SystemTypes, system

LEMMA InitHolds == Init => Inv
<1> SUFFICES ASSUME Init PROVE Inv
  OBVIOUS
<1> USE DEF Init
<1>1. BleInv
  BY TypesInit, SharedInit DEF BleInv
<1>2. SystemTypes
  <2>1. {running, derailed, damaged, overlapped} \subseteq BOOLEAN
    OBVIOUS
  <2>2. boots \in 0 .. MaxBoots /\ events \in 0 .. MaxEvents
    <3>1. boots = 0 /\ events = 0
      BY DEF BleStart
    <3> HIDE DEF Init
    <3> QED
      BY <3>1, BoundAssumption, CommandAssumption
  <2> QED
    BY <2>1, <2>2 DEF SystemTypes
<1>3. RingInv
  <2>1. /\ ring = <<>> /\ taken = 0 /\ ~ derailed /\ accepted = <<>>
        /\ at = "poll" /\ RingCap \in Nat
    BY CommandAssumption
  <2> HIDE DEF Init
  <2> QED
    BY <2>1 DEF RingInv
<1>4. CommandInv
  BY DEF CommandInv
<1>5. OtaInv
  <2>1. /\ upgrade \in [Upgrades -> UpgradeType]
        /\ \A t \in Upgrades : upgrade[t].pc = "none"
    BY NoUpgradeTyped
  <2>2. update \in [1 .. Blocks -> Urls \cup {"old"}] /\ boot = "running"
    OBVIOUS
  <2> QED
    BY <2>1, <2>2 DEF OtaInv, UpgradeAsAsked, Writing
<1> QED
  BY <1>1, <1>2, <1>3, <1>4, <1>5 DEF Inv

LEMMA RestartKeeps ==
  ASSUME Inv, Restart
  PROVE  Inv'
<1>1. BleInv'
  BY BleStarted DEF Inv, Restart, RamCleared
<1>2. SystemTypes'
  BY DEF Inv, SystemTypes, Restart, RamCleared
<1>3. RingInv'
  BY RingEmptied DEF Restart, RamCleared
<1>4. CommandInv'
  BY DEF CommandInv, Restart, RamCleared
<1> QED
  BY <1>1, <1>2, <1>3, <1>4, OtaReset DEF Inv

LEMMA StartKeeps ==
  ASSUME Inv, Start
  PROVE  Inv'
<1>1. BleInv'
  BY BleStacked DEF Inv, Start
<1>2. SystemTypes'
  BY CommandAssumption DEF Inv, SystemTypes, Start, input, ota
<1>3. RingInv'
  BY RingFramed DEF Inv, Start
<1>4. CommandInv'
  BY CommandFramed DEF Inv, Start
<1>5. OtaInv'
  BY OtaFramed DEF Inv, Start
<1> QED
  BY <1>1, <1>2, <1>3, <1>4, <1>5 DEF Inv

LEMMA ArriveKeeps ==
  ASSUME Inv, NEW m \in Messages, Arrive(m)
  PROVE  Inv'
<1>1. BleInv'
  BY BleUnchanged DEF Inv, Arrive
<1>2. SystemTypes'
  <2>1. events' \in 0 .. MaxEvents
    BY HappensOnce DEF Inv, Arrive
  <2> QED
    BY <2>1 DEF Inv, Arrive, SystemTypes, system, ota
<1>3. RingInv'
  BY RingArrived DEF Inv
<1>4. CommandInv'
  BY CommandFramed DEF Inv, Arrive
<1>5. OtaInv'
  BY OtaFramed DEF Inv, Arrive
<1> QED
  BY <1>1, <1>2, <1>3, <1>4, <1>5 DEF Inv

\* mqtt_handle does not run before a task that has been created, so that task
\* has read its address when the next command is received.
LEMMA ReceiveKeeps ==
  ASSUME Inv, Receive
  PROVE  Inv'
<1>1. BleInv'
  BY BleUnchanged DEF Inv, Receive, ble
<1>2. SystemTypes'
  <2>1. {derailed', damaged', overlapped'} \subseteq BOOLEAN
    BY DEF Inv, Receive, SystemTypes, ota
  <2> QED
    BY <2>1, CountsFramed DEF Inv, Receive, SystemTypes, ble
<1>3. RingInv' /\ executed' = <<Oldest.msg>> /\ Oldest.msg \in Messages
  BY RingReceived DEF Inv
<1>4. CommandInv'
  BY <1>3, CommandReceived DEF Receive
<1>5. OtaInv'
  <2>1. \A t \in Upgrades : upgrade[t].pc # "created"
    BY DEF Receive, Polls, Scheduled, OtaPriority
  <2> QED
    BY <2>1, OtaFramed DEF Inv, Receive
<1> QED
  BY <1>1, <1>2, <1>3, <1>4, <1>5 DEF Inv

LEMMA EmptyKeeps ==
  ASSUME Inv, ReceiveEmpty
  PROVE  Inv'
<1>1. BleInv'
  BY BleUnchanged DEF Inv, ReceiveEmpty, ble
<1>2. SystemTypes'
  BY CountsFramed DEF Inv, ReceiveEmpty, SystemTypes, ble, ota
<1>3. RingInv'
  BY RingEmpty DEF Inv
<1>4. CommandInv' /\ OtaInv'
  BY CommandFramed, OtaFramed DEF Inv, ReceiveEmpty
<1> QED
  BY <1>1, <1>2, <1>3, <1>4 DEF Inv

LEMMA ReturnKeeps ==
  ASSUME Inv, Return
  PROVE  Inv'
<1>1. BleInv'
  BY BleUnchanged DEF Inv, Return, ble
<1>2. SystemTypes'
  BY CountsFramed DEF Inv, Return, SystemTypes, ble, ota
<1>3. RingInv'
  BY RingReturned DEF Inv
<1>4. CommandInv' /\ OtaInv'
  BY CommandFramed, OtaFramed DEF Inv, Return
<1> QED
  BY <1>1, <1>2, <1>3, <1>4 DEF Inv

Executing ==
  \/ ExecuteUpgrade \/ ExecuteZigbeeUpgrade \/ ExecuteBleReset \/ ExecuteRadio
  \/ ExecuteOther \/ ExecuteLock \/ SendLock
  \/ ExecuteOnOffBle \/ ExecuteOnOffZigbee \/ PassOn

LEMMA ExecutingBle ==
  ASSUME Inv, Executing
  PROVE  BleInv'
<1>0. /\ command_set.nodeId \in Nat /\ command_set.endpoint \in Nat
      /\ OnOff \in {0, 1}
  BY CommandTyped DEF Inv, OnOff
<1>1. CASE ExecuteUpgrade
  BY <1>1, BleStacked DEF ExecuteUpgrade, Inv
<1>2. CASE ExecuteZigbeeUpgrade
  BY <1>2, BleStacked DEF ExecuteZigbeeUpgrade, Inv
<1>3. CASE ExecuteBleReset
  <2> DEFINE r == [op |-> "reset",
                   dest |-> command_set.nodeId % (MaxAddress + 1), onoff |-> 0]
  <2>1. r \in Request /\ r.op # "get"
    BY <1>0, AddressOf DEF Request
  <2>2. UNCHANGED <<stack, bound, statics, pending, joining, queues,
                    history>>
    BY <1>3 DEF ExecuteBleReset
  <2>3. CASE btc' = Append(btc, r)
    BY <2>1, <2>2, <2>3, TypesPosted, SharedFramed
    DEF Inv, BleInv, statics, queues, history
  <2>4. CASE UNCHANGED btc
    BY <2>2, <2>4, BleUnchanged DEF Inv, mesh
  <2> QED
    BY <1>3, <2>3, <2>4 DEF ExecuteBleReset, ble_mesh_node_reset, Post
<1>4. CASE ExecuteOnOffBle
  <2> DEFINE a == ElementAddr(command_set.nodeId, Endpoint)
  <2>1. a \in Address
    BY <1>0, AddressOf DEF Endpoint
  <2>2. /\ Call("mqtt_handle", a, OnOff)
        /\ UNCHANGED <<stack, bound, stateButtonBLE, common, set_state, btc,
                       pending, joining, queues, history>>
    BY <1>4 DEF ExecuteOnOffBle
  <2>3. BleTypes'
    BY <1>0, <2>1, <2>2, TypesCalled DEF Inv, BleInv, Caller
  <2>4. SharedInv'
    BY <2>2, SharedCall DEF Inv, BleInv, Caller, history
  <2> QED
    BY <2>3, <2>4 DEF BleInv
<1>5. CASE PassOn
  <2>1. UNCHANGED <<stack, bound, statics, btc, pending, joining,
                    queueGetStateOnoffBLE, history>>
    BY <1>5 DEF PassOn
  <2>2. BleTypes'
    <3>1. CASE Len(queueIdButton) < IdCap
      BY <1>0, <1>5, <2>1, <3>1, TypesPassed DEF PassOn, Inv, BleInv
    <3>2. CASE ~ (Len(queueIdButton) < IdCap)
      BY <1>5, <2>1, <3>2, TypesFramed
      DEF PassOn, Inv, BleInv, BleTypes, statics
    <3> QED
      BY <3>1, <3>2
  <2> QED
    BY <2>1, <2>2, SharedFramed
    DEF Inv, BleInv, statics, history
<1>6. CASE ExecuteRadio \/ ExecuteOther \/ ExecuteLock \/ SendLock
             \/ ExecuteOnOffZigbee
  <2>1. UNCHANGED mesh
    BY <1>6 DEF ExecuteRadio, ExecuteOther, ExecuteLock, SendLock,
                ExecuteOnOffZigbee, ble
  <2> QED
    BY <2>1, BleUnchanged DEF Inv
<1> QED
  BY <1>1, <1>2, <1>3, <1>4, <1>5, <1>6 DEF Executing

LEMMA ExecutingKeeps ==
  ASSUME Inv, Executing
  PROVE  Inv'
<1> USE DEF Executing, ExecuteUpgrade, ExecuteZigbeeUpgrade, ExecuteBleReset,
            ExecuteRadio, ExecuteOther, ExecuteLock, SendLock, ExecuteOnOffBle,
            ExecuteOnOffZigbee, PassOn, Executes
<1>1. UNCHANGED mqttFrame /\ at # "poll" /\ at' # "poll"
  OBVIOUS
<1>2. SystemTypes'
  <2>1. at' \in {"poll", "execute", "locking", "link", "return"}
    OBVIOUS
  <2>2. UNCHANGED events
    BY DEF ble
  <2>3. provision_status' \in {0, 1}
    BY DEF Inv, SystemTypes
  <2>4. {derailed', damaged', overlapped'} \subseteq BOOLEAN
    BY <1>1 DEF Inv, SystemTypes, mqttFrame, input, ota
  <2> QED
    BY <1>1, <2>1, <2>2, <2>3, <2>4, CountsFramed DEF Inv, mqttFrame
<1>3. RingInv' /\ CommandInv'
  BY <1>1, RingFramed, CommandFramed DEF Inv, mqttFrame
<1>4. OtaInv'
  <2>1. CASE ExecuteUpgrade
    BY <2>1, OtaCreated DEF Inv
  <2>2. CASE ~ ExecuteUpgrade
    <3>1. UNCHANGED ota /\ UNCHANGED command_set
      BY <1>1, <2>2 DEF mqttFrame
    <3> QED
      BY <3>1, OtaFramed DEF Inv
  <2> QED
    BY <2>1, <2>2
<1> QED
  BY <1>2, <1>3, <1>4, ExecutingBle DEF Inv

LEMMA OtaKeeps ==
  ASSUME Inv, NEW t \in Upgrades, esp_ota_task(t)
  PROVE  Inv'
<1>1. CASE RestartInto(t)
  BY <1>1, RestartKeeps DEF RestartInto
<1>2. CASE ReadAddress(t) \/ Begin(t) \/ Perform(t) \/ Finish(t)
  <2>1. UNCHANGED otaFrame
    BY <1>2 DEF ReadAddress, Begin, Perform, Finish
  <2>2. BleInv' /\ UNCHANGED events
    BY <2>1, BleUnchanged DEF Inv, otaFrame, ble
  <2>3. SystemTypes'
    <3>1. overlapped' \in BOOLEAN
      BY <1>2 DEF Inv, SystemTypes, ReadAddress, Begin, Perform, Finish
    <3> QED
      BY <2>1, <2>2, <3>1, CountsFramed
      DEF Inv, SystemTypes, otaFrame, input
  <2>4. RingInv' /\ CommandInv'
    BY <2>1, RingFramed, CommandFramed DEF Inv, otaFrame
  <2>5. OtaInv'
    BY OtaStep DEF Inv
  <2> QED
    BY <2>2, <2>3, <2>4, <2>5 DEF Inv
<1> QED
  BY <1>1, <1>2 DEF esp_ota_task

LEMMA MeshKeeps ==
  ASSUME Inv, BleNext,
         UNCHANGED <<system, input, command_set, at, provision_status, uart,
                     ota, executed>>
  PROVE  Inv'
<1>1. BleInv' /\ (UNCHANGED events \/ Happens)
  BY BleStep DEF Inv
<1>2. SystemTypes'
  <2>1. events' \in 0 .. MaxEvents
    BY <1>1, HappensOnce DEF Inv
  <2> QED
    BY <2>1 DEF Inv, SystemTypes, system, input, ota
<1>3. RingInv' /\ CommandInv' /\ OtaInv'
  BY RingFramed, CommandFramed, OtaFramed DEF Inv
<1> QED
  BY <1>1, <1>2, <1>3 DEF Inv

LEMMA StutterKeeps ==
  ASSUME Inv, UNCHANGED vars
  PROVE  Inv'
<1>1. BleInv' /\ UNCHANGED events
  BY BleUnchanged DEF Inv, vars, ble
<1>2. SystemTypes'
  BY <1>1 DEF Inv, SystemTypes, vars, system, input, ota
<1>3. RingInv' /\ CommandInv' /\ OtaInv'
  BY RingFramed, CommandFramed, OtaFramed DEF Inv, vars
<1> QED
  BY <1>1, <1>2, <1>3 DEF Inv

LEMMA StepKeeps == Inv /\ [Next]_vars => Inv'
<1> SUFFICES ASSUME Inv, [Next]_vars PROVE Inv'
  OBVIOUS
<1>1. CASE Start
  BY <1>1, StartKeeps
<1>2. ASSUME NEW m \in Messages, Arrive(m) PROVE Inv'
  BY <1>2, ArriveKeeps
<1>3. CASE mqtt_handle
  <2>1. CASE ReceiveCrashes \/ ReceiveDerailed \/ ExecuteRestart
    BY <2>1, RestartKeeps DEF ReceiveCrashes, ReceiveDerailed, ExecuteRestart
  <2>2. CASE Executing
    BY <2>2, ExecutingKeeps
  <2> QED
    BY <1>3, <2>1, <2>2, ReceiveKeeps, EmptyKeeps, ReturnKeeps
    DEF mqtt_handle, Executing
<1>4. ASSUME NEW t \in Upgrades, esp_ota_task(t) PROVE Inv'
  BY <1>4, OtaKeeps
<1>5. CASE /\ running /\ BleNext
           /\ UNCHANGED <<system, input, command_set, at, provision_status,
                          uart, ota, executed>>
  BY <1>5, MeshKeeps
<1>6. CASE UNCHANGED vars
  BY <1>6, StutterKeeps
<1> QED
  BY <1>1, <1>2, <1>3, <1>4, <1>5, <1>6 DEF Next

-----------------------------------------------------------------------------
(* Theorems                                                                 *)

\* In every reachable state the message the tasks share belongs to who is
\* filling it in unless he was overtaken, the ring buffer holds what was
\* accepted, and a new upgrade task finds the address its command named.
THEOREM Invariant == Spec => []Inv
BY InitHolds, StepKeeps, PTL DEF Spec

LEMMA KeptHolds == Inv => CommandsKept
<1> SUFFICES ASSUME Inv PROVE CommandsKept
  OBVIOUS
<1>1. ASSUME NEW x \in DOMAIN executed, NEW f \in DOMAIN Cleared
      PROVE  command_set[f] = IF f \in DOMAIN executed[x] THEN executed[x][f]
                                                          ELSE Cleared[f]
  <2>1. executed # <<>>
    BY <1>1
  <2>2. PICK m \in Messages : executed = <<m>> /\ command_set = Parsed(m)
    BY <2>1 DEF Inv, CommandInv
  <2>3. executed[x] = m
    BY <1>1, <2>2
  <2> QED
    BY <2>2, <2>3 DEF Parsed, JSON_analyze_SUB_MQTT
<1>2. ASSUME ~ damaged PROVE Len(accepted) = Len(ring) - taken /\ taken <= 1
  BY <1>2 DEF Inv, RingInv
<1> QED
  BY <1>1, <1>2 DEF CommandsKept

LEMMA TypesHold == Inv => TypeOK
<1> SUFFICES ASSUME Inv PROVE TypeOK
  OBVIOUS
<1>1. BleTypeOK
  BY TypesAre DEF Inv, BleInv
<1>2. /\ {running, derailed, damaged, overlapped} \subseteq BOOLEAN
      /\ boots \in 0 .. MaxBoots /\ events \in 0 .. MaxEvents
      /\ at \in {"poll", "execute", "locking", "link", "return"}
      /\ provision_status \in {0, 1} /\ boot \in {"running", "update"}
  BY DEF Inv, SystemTypes, OtaInv
<1>3. /\ ring \in Seq([msg : Messages, whole : BOOLEAN])
      /\ Len(ring) <= RingCap /\ taken \in 0 .. Len(ring)
      /\ at # "poll" => taken > 0
  BY DEF Inv, RingInv
<1>4. \A t \in Upgrades : upgrade[t].written \in 0 .. Blocks
  BY DEF Inv, OtaInv, UpgradeType
<1> QED
  BY <1>1, <1>2, <1>3, <1>4 DEF TypeOK

\* Every variable keeps its type: no queue and no buffer outgrows its room, a
\* device has one request outstanding at most, and only buttons of the device
\* that has joined are asked for their states.
THEOREM TypeCorrect == Spec => []TypeOK
BY Invariant, TypesHold, PTL

\* The commands that the ring buffer took are executed in order, once each, as
\* they were sent and with nothing of the one before (mqtt_handle), for any
\* number of commands, buffer and upgrade.
THEOREM CommandsAreKept == Spec => []CommandsKept
BY Invariant, KeptHolds, PTL

\* An upgrade loads from where its own command says, although esp_ota_task is
\* given a pointer to the variable that the next command overwrites: the task
\* has a higher priority than mqtt_handle and copies it first.  And what is
\* marked for booting is one image, unless two upgrades wrote at a time.
THEOREM UpgradesAreAsAsked == Spec => []UpgradeAsAsked
<1>1. Inv => UpgradeAsAsked
  BY DEF Inv, OtaInv
<1> QED
  BY <1>1, Invariant, PTL

\* A message of ble_mesh_command_set, which keeps it in static variables, is
\* sent as it was given by the task that sends the commands of links, whatever
\* the other tasks do, and by another unless it was overtaken.
THEOREM LinksAreSentAsGiven == Spec => []SentAsGiven
<1>1. Inv => SentAsGiven
  BY DEF Inv, BleInv, SharedInv
<1> QED
  BY <1>1, Invariant, PTL

=============================================================================
