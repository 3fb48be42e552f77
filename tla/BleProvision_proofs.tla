------------------------ MODULE BleProvision_proofs ------------------------
(***************************************************************************)
(* Proofs about the provisioner for every set of devices, every            *)
(* composition that fits the tables and every setting of the bounds: first *)
(* for chains that overlap, then for devices added one at a time.          *)
(***************************************************************************)
EXTENDS BleProvision, TLAPS

(***************************************************************************)
(* CursorInBounds is not inductive: that the next row is terminated must   *)
(* be known before the cursor enters it, for every row below element_num,  *)
(* and the first bind needs at least one such row.                         *)
(***************************************************************************)
RowsTerminated ==
  \A e \in ElemIdx : e < element_num =>
    \E c \in ColIdx : c >= 1 /\ models[e][c].id = EndId

ParsedBeforeKey ==
  \A n \in Node : pending[n] \in {"key", "bind"} => element_num >= 1

CursorInv == TypeOK /\ RowsTerminated /\ ParsedBeforeKey /\ CursorInBounds

LEMMA Constants ==
  /\ MaxElem \in Nat /\ MaxElem >= 1 /\ MaxModel \in Nat /\ MaxModel >= 2
  /\ 0 \in ElemIdx /\ 0 \in ColIdx /\ 1 \in ColIdx
  /\ Zero \in Model /\ Terminator \in Model /\ OnOffSrv \in Model
  /\ Terminator.id = EndId
  /\ SendOutcome \subseteq BOOLEAN
  /\ \A n \in Node : Elems[n] \in 1 .. MaxElem
  /\ \A n \in Node, e \in ElemIdx : Rows[n][e] \in 1 .. MaxModel - 1
  /\ \A n \in Node, e \in ElemIdx, c \in ColIdx : ModelAt[n][e][c] \in Model
<1>1. /\ MaxElem \in Nat /\ MaxElem >= 1 /\ MaxModel \in Nat /\ MaxModel >= 2
      /\ 0 \in ElemIdx /\ 0 \in ColIdx /\ 1 \in ColIdx
  BY CompositionAssumption DEF ElemIdx, ColIdx
<1>2. /\ Zero \in Model /\ Terminator \in Model /\ OnOffSrv \in Model
      /\ Terminator.id = EndId
  BY DEF Zero, Terminator, OnOffSrv, Model, EndId
<1>3. SendOutcome \subseteq BOOLEAN
  BY DEF SendOutcome
<1>4. \A n \in Node : Elems[n] \in 1 .. MaxElem
  BY CompositionAssumption
<1>5. \A n \in Node, e \in ElemIdx : Rows[n][e] \in 1 .. MaxModel - 1
  BY CompositionAssumption
<1>6. \A n \in Node, e \in ElemIdx, c \in ColIdx : ModelAt[n][e][c] \in Model
  BY CompositionAssumption
<1> QED BY <1>1, <1>2, <1>3, <1>4, <1>5, <1>6

\* Parsing a composition keeps the table well-typed, terminates every row of
\* the device after its first model, and never removes the last terminator
\* at or after a column: if there was one, there is one.
LEMMA ParseKeepsTerminators ==
  ASSUME TypeOK, NEW n \in Node
  PROVE  /\ ParsedTable(n) \in [ElemIdx -> [ColIdx -> Model]]
         /\ \A e \in ElemIdx : e < Elems[n] =>
              \E c \in ColIdx : c >= 1 /\ ParsedTable(n)[e][c].id = EndId
         /\ \A e \in ElemIdx, c0 \in ColIdx : models[e][c0].id = EndId =>
              \E c \in ColIdx : c >= c0 /\ ParsedTable(n)[e][c].id = EndId
<1>1. \A e \in ElemIdx, c \in ColIdx : ParsedCell(n, e, c) \in Model
  BY Constants, Zenon DEF TypeOK, ParsedCell
<1>2. \A e \in ElemIdx, c \in ColIdx : ParsedTable(n)[e][c] = ParsedCell(n, e, c)
  BY DEF ParsedTable
<1>3. ParsedTable(n) \in [ElemIdx -> [ColIdx -> Model]]
  BY <1>1 DEF ParsedTable
<1>4. \A e \in ElemIdx : e < Elems[n] =>
        /\ Rows[n][e] \in ColIdx /\ Rows[n][e] >= 1
        /\ ParsedCell(n, e, Rows[n][e]) = Terminator
  BY Constants DEF ParsedCell, ColIdx
<1>5. ASSUME NEW e \in ElemIdx, NEW c0 \in ColIdx, models[e][c0].id = EndId
      PROVE  \E c \in ColIdx : c >= c0 /\ ParsedCell(n, e, c).id = EndId
  <2>1. CASE e < Elems[n] /\ c0 <= Rows[n][e]
    BY <2>1, <1>4, Constants DEF ColIdx
  <2>2. CASE ~ (e < Elems[n] /\ c0 <= Rows[n][e])
    <3>1. ParsedCell(n, e, c0) = models[e][c0]
      BY <2>2, Constants DEF ParsedCell, ElemIdx, ColIdx
    <3> QED BY <3>1, <1>5 DEF ColIdx
  <2> QED BY <2>1, <2>2
<1> QED BY <1>2, <1>3, <1>4, <1>5, Constants

\* What sending, and not sending, leaves outstanding and on the air.
LEMMA SendEffect ==
  ASSUME TypeOK, NEW r \in Message, NEW ok \in BOOLEAN, Send(ok, r)
  PROVE  /\ pending' \in [Node -> Op \cup {"none"}]
         /\ requests' \subseteq Message
         /\ \A n \in Node : n # r.node => pending'[n] = pending[n]
         /\ pending'[r.node] \in {r.op, "none"}
         /\ pending'[r.node] = "none" \/ ok
BY Zenon DEF TypeOK, Send, Message

LEMMA SendNothingEffect ==
  ASSUME TypeOK, NEW n0 \in Node, SendNothing(n0)
  PROVE  /\ pending' \in [Node -> Op \cup {"none"}]
         /\ requests' \subseteq Message
         /\ \A n \in Node : pending'[n] \in {pending[n], "none"}
BY DEF TypeOK, SendNothing

LEMMA RequestType ==
  \A o \in Op, n \in Node, e \in ElemIdx, m \in Model :
    /\ Request(o, n, e, m) \in Message
    /\ Request(o, n, e, m).node = n /\ Request(o, n, e, m).op = o
BY DEF Request, Message

\* Whether it accepts or refuses, a device keeps the types of what it holds,
\* and after a bind the model is bound or was refused.
LEMMA DeviceTypes ==
  ASSUME TypeOK, NEW r \in requests, DeviceAccepts(r) \/ DeviceRefuses(r)
  PROVE  /\ keyed' \subseteq Node /\ bound' \in [Node -> SUBSET (ElemIdx \X Model)]
         /\ refused' \in [Node -> SUBSET (ElemIdx \X Model)]
         /\ subscribed' \in [Node -> SUBSET ElemIdx]
<1>1. r.node \in Node /\ r.elem \in ElemIdx /\ Slot(r) \in ElemIdx \X Model
  BY DEF TypeOK, Message, Slot
<1>2. CASE DeviceAccepts(r)
  <2>1. keyed' \subseteq Node /\ subscribed' \in [Node -> SUBSET ElemIdx]
    BY <1>1, <1>2 DEF DeviceAccepts, TypeOK
  <2>2. CASE r.op = "bind"
    <3>1. bound[r.node] \cup {Slot(r)} \in SUBSET (ElemIdx \X Model)
      BY <1>1 DEF TypeOK
    <3>2. refused[r.node] \ {Slot(r)} \in SUBSET (ElemIdx \X Model)
      BY <1>1 DEF TypeOK
    <3>3. /\ bound' = [bound EXCEPT ![r.node] = bound[r.node] \cup {Slot(r)}]
          /\ refused' = [refused EXCEPT ![r.node] = refused[r.node] \ {Slot(r)}]
      BY <1>2, <2>2 DEF DeviceAccepts
    <3>4. /\ bound \in [Node -> SUBSET (ElemIdx \X Model)]
          /\ refused \in [Node -> SUBSET (ElemIdx \X Model)]
      BY DEF TypeOK
    <3> QED BY <2>1, <3>1, <3>2, <3>3, <3>4
  <2>3. CASE r.op # "bind"
    BY <1>1, <1>2, <2>1, <2>3 DEF DeviceAccepts, TypeOK
  <2> QED BY <2>2, <2>3
<1>3. CASE DeviceRefuses(r)
  BY <1>1, <1>3 DEF DeviceRefuses, TypeOK
<1> QED BY <1>2, <1>3

LEMMA DeviceAsked ==
  ASSUME TypeOK, NEW r \in requests, DeviceAccepts(r) \/ DeviceRefuses(r)
  PROVE  /\ \A n \in Node : Asked(n) \subseteq Asked(n)'
         /\ r.op = "bind" => Slot(r) \in Asked(r.node)'
<1>1. r.node \in Node
  BY DEF TypeOK, Message
<1>2. CASE DeviceAccepts(r)
  BY <1>1, <1>2 DEF DeviceAccepts, TypeOK, Asked
<1>3. CASE DeviceRefuses(r)
  BY <1>1, <1>3 DEF DeviceRefuses, TypeOK, Asked
<1> QED BY <1>2, <1>3

LEMMA CursorInvInit == Init => CursorInv
<1> SUFFICES ASSUME Init PROVE CursorInv
  OBVIOUS
<1>1. TypeOK
  BY Constants, ModeAssumption, EnvironmentAssumption
  DEF Init, TypeOK, ZeroedTable, EnvironmentType
<1>2. RowsTerminated
  BY DEF Init, RowsTerminated, ElemIdx
<1>3. ParsedBeforeKey /\ CursorInBounds
  BY DEF Init, ParsedBeforeKey, CursorInBounds
<1> QED BY <1>1, <1>2, <1>3 DEF CursorInv

\* The request BindAt sends is for a cell of the table, so the cursor and
\* what it remembers stay well-typed; the cursor ends one column past it.
LEMMA BindAtEffect ==
  ASSUME TypeOK, NEW n \in Node, NEW r \in ElemIdx, NEW c \in ColIdx,
         BindAt(n, r, c)
  PROVE  /\ j' = r /\ i' \in {c, c + 1}
         /\ temp' \in Nat /\ wait' \in Model
         /\ pending' \in [Node -> Op \cup {"none"}]
         /\ requests' \subseteq Message
         /\ \A n1 \in Node : pending'[n1] \in {pending[n1], "bind", "none"}
<1>1. models[r][c] \in Model
  BY DEF TypeOK
<1>2. PICK ok \in SendOutcome :
         /\ Send(ok, Request("bind", n, r, models[r][c]))
         /\ wait' = IF ok THEN models[r][c] ELSE wait
         /\ i' = IF ok THEN c + 1 ELSE c
  BY DEF BindAt
<1>3. Request("bind", n, r, models[r][c]) \in Message
  BY <1>1, RequestType DEF Op
<1>4. Request("bind", n, r, models[r][c]).node = n
      /\ Request("bind", n, r, models[r][c]).op = "bind"
  BY <1>1, RequestType DEF Op
<1>5. ok \in BOOLEAN
  BY <1>2, Constants
<1>6. /\ pending' \in [Node -> Op \cup {"none"}]
      /\ requests' \subseteq Message
      /\ \A n1 \in Node : n1 # n => pending'[n1] = pending[n1]
      /\ pending'[n] \in {"bind", "none"}
  BY <1>2, <1>3, <1>4, <1>5, SendEffect
<1>7. temp' \in Nat /\ wait' \in Model /\ j' = r
  BY <1>1, <1>2 DEF BindAt, Model, TypeOK
<1> QED BY <1>2, <1>6, <1>7

\* An action that keeps the table and the cursor and starts neither an
\* AppKey Add nor a bind keeps the three facts about the cursor.
LEMMA CursorKept ==
  ASSUME CursorInv, UNCHANGED <<element_num, models, i, j>>,
         \A n \in Node : pending'[n] \in {"key", "bind"} => pending'[n] = pending[n]
  PROVE  RowsTerminated' /\ ParsedBeforeKey' /\ CursorInBounds'
<1>1. RowsTerminated'
  BY DEF CursorInv, RowsTerminated
<1>2. ParsedBeforeKey'
  BY Zenon DEF CursorInv, ParsedBeforeKey
<1>3. CursorInBounds'
  BY Zenon DEF CursorInv, CursorInBounds
<1> QED BY <1>1, <1>2, <1>3

LEMMA CursorInvStep == CursorInv /\ [Next]_vars => CursorInv'
<1> SUFFICES ASSUME CursorInv, [Next]_vars PROVE CursorInv'
  OBVIOUS
<1> TypeOK /\ RowsTerminated /\ ParsedBeforeKey /\ CursorInBounds
  BY DEF CursorInv
<1> USE Constants
<1>1. CASE UNCHANGED vars
  <2>1. TypeOK'
    BY <1>1 DEF vars, gateway, global_node, device, TypeOK
  <2>2. RowsTerminated' /\ ParsedBeforeKey' /\ CursorInBounds'
    BY <1>1, CursorKept DEF vars, gateway, global_node
  <2> QED BY <2>1, <2>2 DEF CursorInv
<1>2. CASE BleOpen \/ BleClose
  <2>1. TypeOK'
    BY <1>2 DEF BleOpen, BleClose, global_node, device, TypeOK
  <2>2. RowsTerminated' /\ ParsedBeforeKey' /\ CursorInBounds'
    BY <1>2, CursorKept DEF BleOpen, BleClose, global_node
  <2> QED BY <2>1, <2>2 DEF CursorInv
<1>3. ASSUME NEW n \in Node, RecvUnprovAdv(n) \/ LinkClose(n)
      PROVE  CursorInv'
  <2>1. TypeOK'
    BY <1>3 DEF RecvUnprovAdv, LinkClose, gateway, global_node, device, TypeOK
  <2>2. RowsTerminated' /\ ParsedBeforeKey' /\ CursorInBounds'
    BY <1>3, CursorKept DEF RecvUnprovAdv, LinkClose, gateway, global_node
  <2> QED BY <2>1, <2>2 DEF CursorInv
<1>4. ASSUME NEW n \in Node, ProvComplete(n)
      PROVE  CursorInv'
  <2>1. PICK ok \in SendOutcome : Send(ok, Request("comp", n, 0, Zero))
    BY <1>4 DEF ProvComplete
  <2>2. /\ Request("comp", n, 0, Zero) \in Message
        /\ Request("comp", n, 0, Zero).node = n /\ Request("comp", n, 0, Zero).op = "comp"
        /\ ok \in BOOLEAN
    BY RequestType DEF Op
  <2>3. /\ pending' \in [Node -> Op \cup {"none"}] /\ requests' \subseteq Message
        /\ \A m \in Node : pending'[m] \in {pending[m], "comp", "none"}
    BY <2>1, <2>2, SendEffect
  <2>4. TypeOK'
    BY <1>4, <2>3 DEF ProvComplete, device, TypeOK
  <2>5. RowsTerminated' /\ ParsedBeforeKey' /\ CursorInBounds'
    BY <1>4, <2>3, CursorKept DEF ProvComplete
  <2> QED BY <2>4, <2>5 DEF CursorInv
<1>5. ASSUME NEW a \in answers, IgnorePublish(a)
      PROVE  CursorInv'
  <2>1. TypeOK'
    BY <1>5 DEF IgnorePublish, gateway, global_node, device, TypeOK
  <2>2. RowsTerminated' /\ ParsedBeforeKey' /\ CursorInBounds'
    BY <1>5, CursorKept DEF IgnorePublish, gateway, global_node
  <2> QED BY <2>1, <2>2 DEF CursorInv
<1> \A a \in answers : /\ a \in Message /\ a.node \in Node /\ a.op \in Op
                       /\ a.elem \in ElemIdx /\ a.model \in Model
  BY DEF TypeOK, Message
<1>6. ASSUME NEW a \in answers, OnCompositionStatus(a)
      PROVE  CursorInv'
  <2>1. PICK ok \in SendOutcome : Send(ok, Request("key", a.node, 0, Zero))
    BY <1>6 DEF OnCompositionStatus
  <2>2. /\ Request("key", a.node, 0, Zero) \in Message
        /\ Request("key", a.node, 0, Zero).node = a.node
        /\ Request("key", a.node, 0, Zero).op = "key"
        /\ ok \in BOOLEAN
    BY RequestType DEF Op
  <2>3. /\ pending' \in [Node -> Op \cup {"none"}] /\ requests' \subseteq Message
        /\ \A m \in Node : pending'[m] \in {pending[m], "key", "none"}
    BY <2>1, <2>2, SendEffect
  <2>4. models' = ParsedTable(a.node) /\ element_num' = Elems[a.node]
        /\ i' = i /\ j' = j
    BY <1>6 DEF OnCompositionStatus
  <2>5. TypeOK'
    BY <1>6, <2>3, <2>4, ParseKeepsTerminators
    DEF OnCompositionStatus, Answered, device, TypeOK
  <2>6. RowsTerminated'
    BY <2>4, ParseKeepsTerminators DEF RowsTerminated
  <2>7. ParsedBeforeKey'
    BY <2>4 DEF ParsedBeforeKey
  <2>8. CursorInBounds'
    <3> SUFFICES ASSUME NEW m \in Node, pending'[m] = "bind"
                 PROVE  \E c \in ColIdx : c >= i /\ models'[j][c].id = EndId
      BY <2>4 DEF CursorInBounds
    <3>1. pending[m] = "bind"
      BY <2>3
    <3>2. PICK c0 \in ColIdx : c0 >= i /\ models[j][c0].id = EndId
      BY <3>1 DEF CursorInBounds
    <3>3. PICK c \in ColIdx : c >= c0 /\ ParsedTable(a.node)[j][c].id = EndId
      BY <3>2, ParseKeepsTerminators DEF TypeOK
    <3> QED BY <3>2, <3>3, <2>4 DEF ColIdx, TypeOK
  <2> QED BY <2>5, <2>6, <2>7, <2>8 DEF CursorInv
<1>7. ASSUME NEW a \in answers, OnAppKeyStatus(a)
      PROVE  CursorInv'
  <2> DEFINE r == Request("bind", a.node, 0, models[0][0])
  <2>1. PICK ok \in SendOutcome :
          /\ Send(ok, r)
          /\ wait' = IF ok THEN models[0][0] ELSE wait
          /\ i' = IF ok THEN 1 ELSE 0
    BY <1>7 DEF OnAppKeyStatus
  <2>2. models[0][0] \in Model
    BY DEF TypeOK
  <2>3. r \in Message /\ r.node = a.node /\ r.op = "bind" /\ ok \in BOOLEAN
    BY <2>2, RequestType DEF Op
  <2>4. /\ pending' \in [Node -> Op \cup {"none"}] /\ requests' \subseteq Message
        /\ \A m \in Node : pending'[m] \in {pending[m], "bind", "none"}
    <3> HIDE DEF r
    <3> QED BY <2>1, <2>3, SendEffect
  <2>5. /\ j' = 0 /\ i' \in {0, 1} /\ temp' \in Nat /\ wait' \in Model
        /\ UNCHANGED <<element_num, models>>
    BY <1>7, <2>1, <2>2 DEF OnAppKeyStatus, Model, TypeOK, global_node
  <2>6. TypeOK'
    BY <1>7, <2>4, <2>5 DEF OnAppKeyStatus, Answered, global_node, device, TypeOK
  <2>7. element_num >= 1
    BY <1>7 DEF OnAppKeyStatus, Answered, ParsedBeforeKey
  <2>8. RowsTerminated' /\ ParsedBeforeKey'
    BY <2>5, <2>7 DEF RowsTerminated, ParsedBeforeKey
  <2>9. PICK c \in ColIdx : c >= 1 /\ models[0][c].id = EndId
    BY <2>7 DEF RowsTerminated, TypeOK
  <2>10. CursorInBounds'
    BY <2>5, <2>9 DEF CursorInBounds, ColIdx
  <2> QED BY <2>6, <2>8, <2>10 DEF CursorInv
<1>8. ASSUME NEW a \in answers, OnBindMismatch(a)
      PROVE  CursorInv'
  <2>1. /\ pending' \in [Node -> Op \cup {"none"}] /\ requests' \subseteq Message
        /\ \A n \in Node : pending'[n] \in {pending[n], "none"}
    BY <1>8, SendNothingEffect DEF OnBindMismatch
  <2>2. TypeOK'
    BY <1>8, <2>1 DEF OnBindMismatch, Answered, gateway, global_node, device, TypeOK
  <2>3. RowsTerminated' /\ ParsedBeforeKey' /\ CursorInBounds'
    BY <1>8, <2>1, CursorKept DEF OnBindMismatch, gateway, global_node
  <2> QED BY <2>2, <2>3 DEF CursorInv
<1>9. ASSUME NEW a \in answers, OnBindNextModel(a)
      PROVE  CursorInv'
  <2>1. PICK c0 \in ColIdx : c0 >= i /\ models[j][c0].id = EndId
    BY <1>9 DEF OnBindNextModel, Answered, CursorInBounds
  <2>2. i \in ColIdx /\ c0 >= i + 1
    BY <1>9, <2>1 DEF OnBindNextModel, TypeOK, ColIdx
  <2>3. BindAt(a.node, j, i)
    BY <1>9 DEF OnBindNextModel
  <2>4. /\ j' = j /\ i' \in {i, i + 1} /\ temp' \in Nat /\ wait' \in Model
        /\ pending' \in [Node -> Op \cup {"none"}]
        /\ requests' \subseteq Message
        /\ \A m \in Node : pending'[m] \in {pending[m], "bind", "none"}
    BY <2>2, <2>3, BindAtEffect DEF TypeOK
  <2>5. UNCHANGED <<element_num, models>>
    BY <1>9 DEF OnBindNextModel, global_node
  <2>6. TypeOK'
    <3>1. i' \in 0 .. MaxModel
      BY <2>2, <2>4 DEF ColIdx, TypeOK
    <3> QED BY <1>9, <2>4, <3>1 DEF OnBindNextModel, Answered, global_node, device, TypeOK
  <2>7. RowsTerminated' /\ ParsedBeforeKey'
    BY <1>9, <2>4, <2>5 DEF RowsTerminated, ParsedBeforeKey, OnBindNextModel, Answered
  <2>8. CursorInBounds'
    BY <2>1, <2>2, <2>4, <2>5 DEF CursorInBounds, ColIdx
  <2> QED BY <2>6, <2>7, <2>8 DEF CursorInv
<1>10. ASSUME NEW a \in answers, OnBindNextElement(a)
       PROVE  CursorInv'
  <2>1. j + 1 \in ElemIdx /\ j + 1 < element_num
    BY <1>10 DEF OnBindNextElement, LastRow, TypeOK, ElemIdx
  <2>2. BindAt(a.node, j + 1, 0)
    BY <1>10 DEF OnBindNextElement
  <2>3. /\ j' = j + 1 /\ i' \in {0, 1} /\ temp' \in Nat /\ wait' \in Model
        /\ pending' \in [Node -> Op \cup {"none"}]
        /\ requests' \subseteq Message
        /\ \A m \in Node : pending'[m] \in {pending[m], "bind", "none"}
    BY <2>1, <2>2, BindAtEffect
  <2>4. UNCHANGED <<element_num, models>>
    BY <1>10 DEF OnBindNextElement, global_node
  <2>5. TypeOK'
    BY <1>10, <2>1, <2>3 DEF OnBindNextElement, Answered, global_node, device, TypeOK
  <2>6. RowsTerminated' /\ ParsedBeforeKey'
    BY <1>10, <2>3, <2>4 DEF RowsTerminated, ParsedBeforeKey, OnBindNextElement, Answered
  <2>7. PICK c \in ColIdx : c >= 1 /\ models[j + 1][c].id = EndId
    BY <2>1 DEF RowsTerminated
  <2>8. CursorInBounds'
    BY <2>3, <2>4, <2>7 DEF CursorInBounds, ColIdx
  <2> QED BY <2>5, <2>6, <2>8 DEF CursorInv
<1>11. ASSUME NEW a \in answers, OnBindLast(a)
       PROVE  CursorInv'
  <2>1. /\ pending' \in [Node -> Op \cup {"none"}] /\ requests' \subseteq Message
        /\ \A m \in Node : pending'[m] \in {pending[m], "sub", "none"}
    <3>1. CASE unicast_addr \in WallSwitch
      <4> DEFINE r == Request("sub", a.node, 0, OnOffSrv)
      <4>1. PICK ok \in SendOutcome : Send(ok, r)
        BY <1>11, <3>1 DEF OnBindLast, AfterJoin
      <4>2. r \in Message /\ r.node = a.node /\ r.op = "sub" /\ ok \in BOOLEAN
        BY RequestType DEF Op
      <4> HIDE DEF r
      <4> QED BY <4>1, <4>2, SendEffect
    <3>2. CASE unicast_addr \notin WallSwitch
      BY <1>11, <3>2, SendNothingEffect DEF OnBindLast, AfterJoin
    <3> QED BY <3>1, <3>2
  <2>2. i' = 0 /\ j' = 0 /\ temp' = EndId /\ UNCHANGED <<element_num, models>>
    BY <1>11 DEF OnBindLast, global_node
  <2>3. joined' \in Seq(Announcement)
    BY <1>11 DEF OnBindLast, Announce, Announcement, TypeOK
  <2>4. TypeOK'
    BY <1>11, <2>1, <2>2, <2>3 DEF OnBindLast, Answered, global_node, device, TypeOK, EndId
  <2>5. element_num >= 1
    BY <1>11 DEF OnBindLast, Answered, ParsedBeforeKey
  <2>6. RowsTerminated' /\ ParsedBeforeKey'
    BY <2>2, <2>5 DEF RowsTerminated, ParsedBeforeKey
  <2>7. PICK c \in ColIdx : c >= 1 /\ models[0][c].id = EndId
    <3>1. 0 \in ElemIdx /\ 0 < element_num
      BY <2>5 DEF TypeOK
    <3> QED BY <3>1, Zenon DEF RowsTerminated
  <2>8. CursorInBounds'
    BY <2>2, <2>7 DEF CursorInBounds, ColIdx
  <2> QED BY <2>4, <2>6, <2>8 DEF CursorInv
<1>12. ASSUME NEW a \in answers, OnSubStatus(a)
       PROVE  CursorInv'
  <2>1. /\ pending' \in [Node -> Op \cup {"none"}] /\ requests' \subseteq Message
        /\ \A m \in Node : pending'[m] \in {pending[m], "sub", "none"}
        /\ k' \in ElemIdx
    <3>1. CASE a.elem = k /\ ~ (k + 1 >= element_num)
      <4> DEFINE r == Request("sub", a.node, k + 1, OnOffSrv)
      <4>1. PICK ok \in SendOutcome : Send(ok, r)
        BY <1>12, <3>1 DEF OnSubStatus, LastElement
      <4>2. k + 1 \in ElemIdx
        BY <3>1 DEF TypeOK, ElemIdx
      <4>3. r \in Message /\ r.node = a.node /\ r.op = "sub" /\ ok \in BOOLEAN
        BY <4>2, RequestType DEF Op
      <4>4. k' \in ElemIdx
        BY <1>12, <3>1, <4>2 DEF OnSubStatus, LastElement
      <4> HIDE DEF r
      <4> QED BY <4>1, <4>3, <4>4, SendEffect
    <3>2. CASE ~ (a.elem = k /\ ~ (k + 1 >= element_num))
      <4>1. SendNothing(a.node) /\ k' \in {0, k}
        BY <1>12, <3>2 DEF OnSubStatus, LastElement
      <4> QED BY <4>1, SendNothingEffect DEF TypeOK
    <3> QED BY <3>1, <3>2
  <2>2. TypeOK'
    BY <1>12, <2>1 DEF OnSubStatus, Answered, global_node, device, TypeOK
  <2>3. RowsTerminated' /\ ParsedBeforeKey' /\ CursorInBounds'
    BY <1>12, <2>1, CursorKept DEF OnSubStatus, global_node
  <2> QED BY <2>2, <2>3 DEF CursorInv
<1>13. ASSUME NEW n \in Node, Timeout(n)
       PROVE  CursorInv'
  <2>1. /\ pending' \in [Node -> Op \cup {"none"}] /\ requests' \subseteq Message
        /\ \A m \in Node : pending'[m] \in {pending[m], "none"}
    <3>1. CASE pending[n] = "sub"
      BY <1>13, <3>1, SendNothingEffect DEF Timeout
    <3>2. CASE pending[n] # "sub"
      <4> DEFINE r == Resent(n)
      <4>1. PICK ok \in SendOutcome : Send(ok, r)
        BY <1>13, <3>2 DEF Timeout
      <4>2. pending[n] \in Op
        BY <1>13 DEF Timeout, TypeOK
      <4>3. r \in Message /\ r.node = n /\ r.op = pending[n]
        BY <4>2, RequestType DEF Resent, TypeOK
      <4>4. ok \in BOOLEAN
        BY <4>1
      <4> HIDE DEF r
      <4> QED BY <4>1, <4>3, <4>4, SendEffect
    <3> QED BY <3>1, <3>2
  <2>2. env' = env /\ env.maxLate \in Nat /\ late' \in 0 .. env.maxLate
    BY <1>13, EnvironmentAssumption DEF Timeout, TypeOK, EnvironmentType
  <2>3. TypeOK'
    BY <1>13, <2>1, <2>2 DEF Timeout, gateway, global_node, device, TypeOK
  <2>4. RowsTerminated' /\ ParsedBeforeKey' /\ CursorInBounds'
    BY <1>13, <2>1, CursorKept DEF Timeout, gateway, global_node
  <2> QED BY <2>3, <2>4 DEF CursorInv
<1>14. ASSUME NEW r \in requests, DeviceHandles(r)
       PROVE  CursorInv'
  <2>1. r \in Message /\ r.node \in Node /\ r.elem \in ElemIdx /\ r.model \in Model
    BY DEF TypeOK, Message
  <2>2. /\ keyed' \subseteq Node /\ bound' \in [Node -> SUBSET (ElemIdx \X Model)]
        /\ refused' \in [Node -> SUBSET (ElemIdx \X Model)]
        /\ subscribed' \in [Node -> SUBSET ElemIdx]
    BY <1>14, DeviceTypes DEF DeviceHandles
  <2>4. TypeOK'
    BY <1>14, <2>1, <2>2 DEF DeviceHandles, gateway, global_node, TypeOK
  <2>5. RowsTerminated' /\ ParsedBeforeKey' /\ CursorInBounds'
    BY <1>14, CursorKept DEF DeviceHandles, gateway, global_node
  <2> QED BY <2>4, <2>5 DEF CursorInv
<1>15. ASSUME NEW m \in requests \cup answers, Lose(m)
       PROVE  CursorInv'
  <2>1. TypeOK'
    BY <1>15 DEF Lose, gateway, global_node, device, TypeOK
  <2>2. RowsTerminated' /\ ParsedBeforeKey' /\ CursorInBounds'
    BY <1>15, CursorKept DEF Lose, gateway, global_node
  <2> QED BY <2>1, <2>2 DEF CursorInv
<1>16. CASE Restart
  <2>1. TypeOK'
    BY <1>16, EnvironmentAssumption
    DEF Restart, device, TypeOK, ZeroedTable, EnvironmentType
  <2>2. RowsTerminated'
    BY <1>16 DEF Restart, RowsTerminated, ElemIdx
  <2>3. ParsedBeforeKey' /\ CursorInBounds'
    BY <1>16 DEF Restart, ParsedBeforeKey, CursorInBounds
  <2> QED BY <2>1, <2>2, <2>3 DEF CursorInv
<1> QED
  BY <1>1, <1>2, <1>3, <1>4, <1>5, <1>6, <1>7, <1>8, <1>9, <1>10, <1>11, <1>12,
     <1>13, <1>14, <1>15, <1>16
  DEF Next, OnConfigAnswer

\* Every variable keeps its type, for any number of devices at once.
THEOREM TypeCorrect == Spec => []TypeOK
<1>1. Init => CursorInv
  BY CursorInvInit
<1>2. CursorInv /\ [Next]_vars => CursorInv'
  BY CursorInvStep
<1>3. CursorInv => TypeOK
  BY DEF CursorInv
<1> QED BY <1>1, <1>2, <1>3, PTL DEF Spec

\* The scan for 0xffff in ble_mesh_config_client_cb stays inside the row it
\* is in, whatever other node's composition is parsed meanwhile.
THEOREM CursorSafe == Spec => []CursorInBounds
<1>1. Init => CursorInv
  BY CursorInvInit
<1>2. CursorInv /\ [Next]_vars => CursorInv'
  BY CursorInvStep
<1>3. CursorInv => CursorInBounds
  BY DEF CursorInv
<1> QED BY <1>1, <1>2, <1>3, PTL DEF Spec

-----------------------------------------------------------------------------
(***************************************************************************)
(* What an announcement promises, when devices are added one at a time.    *)
(* The invariant says whose the shared state is: at most one device is     *)
(* being let in or configured, the last MAC heard and the last address     *)
(* provisioned are its own, the table holds its composition, and every     *)
(* model before the one the cursor waits for is bound or was refused.  A   *)
(* status on the air is evidence of a bind the device took or refused,     *)
(* however late it is.                                                     *)
(***************************************************************************)

SoleDevice ==
  /\ \A m, n \in link : m = n
  /\ \A n \in link : n \notin prov /\ MAC = n
  /\ \A n \in Node : pending[n] # "none" =>
       link = {} /\ n = unicast_addr /\ MAC = n /\ n \in prov

AnswersBound ==
  \A a \in answers : a.op = "bind" => <<a.elem, a.model>> \in Asked(a.node)

TableOf(n) ==
  /\ element_num = Elems[n]
  /\ \A e \in ElemIdx, c \in ColIdx : e < Elems[n] =>
       /\ c < Rows[n][e] => models[e][c] = ModelAt[n][e][c]
       /\ c = Rows[n][e] => models[e][c] = Terminator

BoundBefore(n, r, c) ==
  \A e \in ElemIdx, d \in ColIdx :
    /\ e < Elems[n] /\ d < Rows[n][e]
    /\ e < r \/ (e = r /\ d < c)
    => <<e, ModelAt[n][e][d]>> \in Asked(n)

CursorAt(n) ==
  /\ j < Elems[n] /\ 1 <= i /\ i <= Rows[n][j]
  /\ wait = ModelAt[n][j][i - 1] /\ temp = wait.id
  /\ BoundBefore(n, j, i - 1)

ChainInv ==
  \A n \in Node :
    /\ pending[n] \in {"key", "bind"} => TableOf(n)
    /\ pending[n] = "bind" => CursorAt(n)

JoinedInv ==
  \A x \in DOMAIN joined :
    /\ joined[x].node \in prov
    /\ pending[joined[x].node] \in {"sub", "none"}
    /\ joined[x].mac = joined[x].node
    /\ joined[x].endpointCount = Elems[joined[x].node]
    /\ BoundBefore(joined[x].node, Elems[joined[x].node], 0)
    /\ \A y \in DOMAIN joined : joined[x].node = joined[y].node => x = y

ConfigInv == SoleDevice /\ AnswersBound /\ ChainInv /\ JoinedInv

JoinInv == CursorInv /\ (OneAtATime => ConfigInv)

LEMMA BoundGrows ==
  ASSUME NEW n \in Node, NEW r, NEW c, BoundBefore(n, r, c),
         Asked(n) \subseteq Asked(n)'
  PROVE  \A e \in ElemIdx, d \in ColIdx :
           /\ e < Elems[n] /\ d < Rows[n][e]
           /\ e < r \/ (e = r /\ d < c)
           => <<e, ModelAt[n][e][d]>> \in Asked(n)'
BY DEF BoundBefore

LEMMA SoleKept ==
  ASSUME SoleDevice, UNCHANGED <<link, unicast_addr, MAC, prov>>,
         \A n \in Node : pending'[n] # "none" => pending[n] # "none"
  PROVE  SoleDevice'
BY DEF SoleDevice

LEMMA AnswersKept ==
  ASSUME TypeOK, AnswersBound, answers' \subseteq answers,
         \A n \in Node : Asked(n) \subseteq Asked(n)'
  PROVE  AnswersBound'
<1>1. \A a \in answers : a.node \in Node
  BY DEF TypeOK, Message
<1> QED BY <1>1, Zenon DEF AnswersBound

LEMMA ChainKept ==
  ASSUME ChainInv, UNCHANGED <<element_num, models, i, j, temp, wait>>,
         \A n \in Node : Asked(n) \subseteq Asked(n)',
         \A n \in Node : pending'[n] \in {"key", "bind"} => pending'[n] = pending[n]
  PROVE  ChainInv'
<1> SUFFICES ASSUME NEW n \in Node
             PROVE  /\ pending'[n] \in {"key", "bind"} => TableOf(n)'
                    /\ pending'[n] = "bind" => CursorAt(n)'
  BY DEF ChainInv
<1>1. TableOf(n) => TableOf(n)'
  BY DEF TableOf
<1>2. ASSUME CursorAt(n) PROVE CursorAt(n)'
  <2>1. BoundBefore(n, j, i - 1)
    BY <1>2 DEF CursorAt
  <2>2. BoundBefore(n, j, i - 1)'
    BY <2>1, BoundGrows DEF BoundBefore
  <2> QED BY <1>2, <2>2 DEF CursorAt
<1> QED BY <1>1, <1>2 DEF ChainInv

LEMMA JoinedKept ==
  ASSUME TypeOK, JoinedInv, UNCHANGED joined, prov \subseteq prov',
         \A n \in Node : Asked(n) \subseteq Asked(n)',
         \A n \in prov : pending[n] \in {"sub", "none"} => pending'[n] \in {"sub", "none"}
  PROVE  JoinedInv'
<1> SUFFICES ASSUME NEW x \in DOMAIN joined
             PROVE  /\ joined[x].node \in prov'
                    /\ pending'[joined[x].node] \in {"sub", "none"}
                    /\ joined[x].mac = joined[x].node
                    /\ joined[x].endpointCount = Elems[joined[x].node]
                    /\ BoundBefore(joined[x].node, Elems[joined[x].node], 0)'
                    /\ \A y \in DOMAIN joined : joined[x].node = joined[y].node => x = y
  BY DEF JoinedInv
<1> DEFINE n == joined[x].node
<1>1. /\ n \in prov /\ pending[n] \in {"sub", "none"}
      /\ joined[x].mac = n /\ joined[x].endpointCount = Elems[n]
      /\ BoundBefore(n, Elems[n], 0)
      /\ \A y \in DOMAIN joined : n = joined[y].node => x = y
  BY DEF JoinedInv
<1>2. n \in Node
  BY <1>1 DEF TypeOK
<1>3. ASSUME NEW m \in Node, m = joined[x].node
      PROVE  BoundBefore(m, Elems[m], 0)'
  <2>1. BoundBefore(m, Elems[m], 0)
    BY <1>1, <1>3
  <2> QED BY <2>1, BoundGrows DEF BoundBefore
<1>4. BoundBefore(joined[x].node, Elems[joined[x].node], 0)'
  <2>1. joined'[x].node = joined[x].node
    OBVIOUS
  <2> QED BY <1>2, <1>3, <2>1 DEF BoundBefore
<1> QED BY <1>1, <1>2, <1>4

\* A callback for a status that answers a request is about the sole device;
\* whatever it sends goes to that device.
LEMMA AnswerStep ==
  ASSUME TypeOK, ConfigInv, NEW a \in answers, Answered(a),
         UNCHANGED <<link, prov, unicast_addr, MAC, bound, refused>>,
         \A n \in Node : n # a.node => pending'[n] = pending[n]
  PROVE  /\ a \in Message /\ a.node \in Node
         /\ pending[a.node] = a.op /\ a.op # "none"
         /\ a.node = unicast_addr /\ MAC = a.node /\ a.node \in prov
         /\ \A n \in Node : n # a.node => pending'[n] = "none"
         /\ SoleDevice' /\ AnswersBound'
<1>1. /\ a \in Message /\ a.node \in Node /\ a.op \in Op
  BY DEF TypeOK, Message
<1>2. pending[a.node] = a.op /\ a.op # "none"
  BY <1>1 DEF Answered, Op
<1>3. a.node = unicast_addr /\ MAC = a.node /\ a.node \in prov
  BY <1>1, <1>2 DEF ConfigInv, SoleDevice
<1>4. \A n \in Node : n # a.node => pending[n] = "none"
  BY <1>3 DEF ConfigInv, SoleDevice
<1>5. \A n \in Node : pending'[n] # "none" => pending[n] # "none"
  BY <1>1, <1>2, <1>4
<1>6. SoleDevice'
  BY <1>5, SoleKept DEF ConfigInv
<1>7. AnswersBound'
  BY AnswersKept DEF Answered, ConfigInv, Asked
<1> QED BY <1>1, <1>2, <1>3, <1>4, <1>6, <1>7

\* A status that matches is for the cell the cursor waits for, so that cell
\* and all those before it are bound or were refused.
LEMMA MatchMeansBound ==
  ASSUME TypeOK, ConfigInv, NEW a \in answers,
         a.op = "bind", Answered(a), BindMatches(a)
  PROVE  /\ a.node \in Node /\ TableOf(a.node) /\ CursorAt(a.node)
         /\ BoundBefore(a.node, j, i)
<1>1. /\ a.node \in Node /\ a.model \in Model /\ a.elem \in ElemIdx
  BY DEF TypeOK, Message
<1>2. TableOf(a.node) /\ CursorAt(a.node)
  BY <1>1 DEF ConfigInv, ChainInv, Answered
<1>3. a.model = wait
  <2>1. a.model.id = wait.id /\ a.model.cid = wait.cid
    BY <1>2 DEF BindMatches, CursorAt
  <2>2. \A m \in Model : m = [id |-> m.id, cid |-> m.cid]
    BY DEF Model
  <2>3. wait \in Model
    BY DEF TypeOK
  <2> QED BY <2>1, <2>2, <2>3, <1>1
<1>4. <<j, wait>> \in Asked(a.node)
  BY <1>3 DEF ConfigInv, AnswersBound, BindMatches
<1>5. BoundBefore(a.node, j, i)
  <2> SUFFICES ASSUME NEW e \in ElemIdx, NEW d \in ColIdx,
                      e < Elems[a.node], d < Rows[a.node][e],
                      e < j \/ (e = j /\ d < i)
               PROVE  <<e, ModelAt[a.node][e][d]>> \in Asked(a.node)
    BY DEF BoundBefore
  <2>1. CASE e = j /\ d = i - 1
    BY <2>1, <1>2, <1>4 DEF CursorAt
  <2>2. CASE ~ (e = j /\ d = i - 1)
    <3>1. e < j \/ (e = j /\ d < i - 1)
      BY <2>2 DEF TypeOK, ElemIdx, ColIdx
    <3> QED BY <3>1, <1>2 DEF CursorAt, BoundBefore
  <2> QED BY <2>1, <2>2
<1> QED BY <1>1, <1>2, <1>5

\* Asking for the cell after those that were asked for moves the cursor to it.
LEMMA BindAtChain ==
  ASSUME TypeOK, ConfigInv, NEW n \in Node, NEW r \in ElemIdx, NEW c \in ColIdx,
         r < Elems[n], c < Rows[n][r], TableOf(n), BoundBefore(n, r, c),
         BindAt(n, r, c), UNCHANGED <<element_num, models, bound, refused>>,
         \A m \in Node : m # n => pending[m] = "none"
  PROVE  /\ ChainInv'
         /\ \A m \in Node : m # n => pending'[m] = pending[m]
<1>1. models[r][c] = ModelAt[n][r][c] /\ models[r][c] \in Model
  BY DEF TableOf, TypeOK
<1>2. PICK ok \in SendOutcome :
         /\ Send(ok, Request("bind", n, r, models[r][c]))
         /\ wait' = IF ok THEN models[r][c] ELSE wait
         /\ i' = IF ok THEN c + 1 ELSE c
  BY DEF BindAt
<1>3. /\ Request("bind", n, r, models[r][c]) \in Message
      /\ Request("bind", n, r, models[r][c]).node = n
      /\ Request("bind", n, r, models[r][c]).op = "bind"
      /\ ok \in BOOLEAN
  BY <1>1, Constants, RequestType DEF Op
<1>4. /\ \A m \in Node : m # n => pending'[m] = pending[m]
      /\ pending'[n] \in {"bind", "none"} /\ (pending'[n] = "none" \/ ok)
  BY <1>2, <1>3, SendEffect
<1>5. TableOf(n)'
  BY DEF TableOf
<1>6. ASSUME ok PROVE CursorAt(n)'
  <2>1. i' = c + 1 /\ j' = r /\ wait' = models[r][c] /\ temp' = models[r][c].id
    BY <1>2, <1>6 DEF BindAt
  <2>2. BoundBefore(n, j, i - 1)'
    BY <2>1 DEF BoundBefore, ColIdx, Asked
  <2> QED BY <2>1, <2>2, <1>1, Constants DEF CursorAt, ColIdx
<1>7. ChainInv'
  BY <1>4, <1>5, <1>6 DEF ChainInv
<1> QED BY <1>4, <1>7

LEMMA JoinInvInit == Init => JoinInv
<1> SUFFICES ASSUME Init PROVE ConfigInv
  BY CursorInvInit DEF JoinInv
<1>1. SoleDevice /\ AnswersBound
  BY DEF Init, SoleDevice, AnswersBound
<1>2. ChainInv
  BY DEF Init, ChainInv
<1>3. JoinedInv
  BY DEF Init, JoinedInv
<1> QED BY <1>1, <1>2, <1>3 DEF ConfigInv

\* No step changes the environment.
LEMMA EnvironmentKept == [Next]_vars => OneAtATime' = OneAtATime
<1> SUFFICES ASSUME [Next]_vars PROVE env' = env
  BY DEF OneAtATime
<1>1. CASE UNCHANGED vars
  BY <1>1 DEF vars
<1>2. CASE BleOpen \/ BleClose \/ Restart
  BY <1>2 DEF BleOpen, BleClose, Restart
<1>3. CASE \E n \in Node : RecvUnprovAdv(n) \/ LinkClose(n) \/ ProvComplete(n) \/ Timeout(n)
  BY <1>3, Zenon DEF RecvUnprovAdv, LinkClose, ProvComplete, Timeout
<1>4. CASE \E a \in answers : OnConfigAnswer(a)
  BY <1>4, Zenon
  DEF OnConfigAnswer, IgnorePublish, OnCompositionStatus, OnAppKeyStatus, OnBindMismatch,
      OnBindNextModel, OnBindNextElement, OnBindLast, OnSubStatus
<1>5. CASE \E m \in requests \cup answers : Lose(m)
  BY <1>5, Zenon DEF Lose
<1>6. CASE \E r \in requests : DeviceHandles(r)
  BY <1>6, Zenon DEF DeviceHandles
<1> QED BY <1>1, <1>2, <1>3, <1>4, <1>5, <1>6 DEF Next

LEMMA JoinInvStep == JoinInv /\ [Next]_vars => JoinInv'
<1> SUFFICES ASSUME CursorInv, OneAtATime, ConfigInv, [Next]_vars
             PROVE  ConfigInv'
  BY CursorInvStep, EnvironmentKept DEF JoinInv
<1>2. TypeOK
  BY DEF CursorInv
<1>3. SoleDevice /\ AnswersBound /\ ChainInv /\ JoinedInv
  BY DEF ConfigInv
<1>4. \A a \in answers : a \in Message /\ a.node \in Node /\ a.op \in Op
  BY <1>2 DEF TypeOK, Message
<1>5. CASE UNCHANGED vars
  <2>1. SoleDevice' /\ AnswersBound'
    BY <1>2, <1>3, <1>5, SoleKept, AnswersKept DEF vars, gateway, global_node, device, Asked
  <2>2. ChainInv' /\ JoinedInv'
    BY <1>2, <1>3, <1>5, ChainKept, JoinedKept DEF vars, gateway, global_node, device, Asked
  <2> QED BY <2>1, <2>2 DEF ConfigInv
<1>6. CASE BleOpen \/ BleClose
  <2>1. SoleDevice' /\ AnswersBound'
    BY <1>2, <1>3, <1>6, SoleKept, AnswersKept DEF BleOpen, BleClose, global_node, device, Asked
  <2>2. ChainInv' /\ JoinedInv'
    BY <1>2, <1>3, <1>6, ChainKept, JoinedKept DEF BleOpen, BleClose, global_node, device, Asked
  <2> QED BY <2>1, <2>2 DEF ConfigInv
<1>7. ASSUME NEW n \in Node, RecvUnprovAdv(n)
      PROVE  ConfigInv'
  <2>1. link \subseteq {n} /\ link' \subseteq {n} /\ n \notin prov /\ MAC' = n
        /\ \A m \in Node : pending'[m] = "none"
    BY <1>7 DEF RecvUnprovAdv, Idle
  <2>2. SoleDevice'
    BY <1>7, <2>1 DEF SoleDevice, RecvUnprovAdv
  <2>3. AnswersBound'
    BY <1>2, <1>3, <1>7, AnswersKept DEF RecvUnprovAdv, device, Asked
  <2>4. ChainInv' /\ JoinedInv'
    BY <1>2, <1>3, <1>7, ChainKept, JoinedKept DEF RecvUnprovAdv, device, Asked
  <2> QED BY <2>2, <2>3, <2>4 DEF ConfigInv
<1>8. ASSUME NEW n \in Node, LinkClose(n)
      PROVE  ConfigInv'
  <2>1. SoleDevice'
    BY <1>3, <1>8 DEF SoleDevice, LinkClose, gateway, global_node
  <2>2. AnswersBound'
    BY <1>2, <1>3, <1>8, AnswersKept DEF LinkClose, device, Asked
  <2>3. ChainInv' /\ JoinedInv'
    BY <1>2, <1>3, <1>8, ChainKept, JoinedKept
    DEF LinkClose, gateway, global_node, device, Asked
  <2> QED BY <2>1, <2>2, <2>3 DEF ConfigInv
<1>9. ASSUME NEW n \in Node, ProvComplete(n)
      PROVE  ConfigInv'
  <2>1. PICK ok \in SendOutcome : Send(ok, Request("comp", n, 0, Zero))
    BY <1>9 DEF ProvComplete
  <2>2. /\ Request("comp", n, 0, Zero) \in Message
        /\ Request("comp", n, 0, Zero).node = n /\ Request("comp", n, 0, Zero).op = "comp"
        /\ ok \in BOOLEAN
    BY Constants, RequestType DEF Op
  <2>3. /\ \A m \in Node : m # n => pending'[m] = pending[m]
        /\ pending'[n] \in {"comp", "none"}
    BY <1>2, <2>1, <2>2, SendEffect
  <2>4. /\ link' = {} /\ unicast_addr' = n /\ MAC' = n /\ n \notin prov
        /\ prov' = prov \cup {n} /\ \A m \in Node : pending[m] = "none"
    BY <1>3, <1>9 DEF ProvComplete, SoleDevice
  <2>5. SoleDevice'
    BY <2>3, <2>4 DEF SoleDevice
  <2>6. AnswersBound'
    BY <1>2, <1>3, <1>9, AnswersKept DEF ProvComplete, device, Asked
  <2>7. ChainInv'
    BY <1>3, <1>9, <2>3, ChainKept DEF ProvComplete, device, Asked
  <2>8. JoinedInv'
    BY <1>2, <1>3, <1>9, <2>3, <2>4, JoinedKept DEF ProvComplete, device, TypeOK, Asked
  <2> QED BY <2>5, <2>6, <2>7, <2>8 DEF ConfigInv
<1>10. ASSUME NEW a \in answers, IgnorePublish(a)
       PROVE  ConfigInv'
  <2>1. SoleDevice' /\ AnswersBound'
    BY <1>2, <1>3, <1>10, SoleKept, AnswersKept DEF IgnorePublish, gateway, global_node, device, Asked
  <2>2. ChainInv' /\ JoinedInv'
    BY <1>2, <1>3, <1>10, ChainKept, JoinedKept DEF IgnorePublish, gateway, global_node, device, Asked
  <2> QED BY <2>1, <2>2 DEF ConfigInv
<1>11. ASSUME NEW a \in answers, OnCompositionStatus(a)
       PROVE  ConfigInv'
  <2>1. PICK ok \in SendOutcome : Send(ok, Request("key", a.node, 0, Zero))
    BY <1>11 DEF OnCompositionStatus
  <2>2. /\ Request("key", a.node, 0, Zero) \in Message
        /\ Request("key", a.node, 0, Zero).node = a.node
        /\ Request("key", a.node, 0, Zero).op = "key"
        /\ ok \in BOOLEAN
    BY <1>4, Constants, RequestType DEF Op
  <2>3. /\ \A m \in Node : m # a.node => pending'[m] = pending[m]
        /\ pending'[a.node] \in {"key", "none"}
    BY <1>2, <2>1, <2>2, SendEffect
  <2>4. /\ pending[a.node] = "comp" /\ \A m \in Node : m # a.node => pending'[m] = "none"
        /\ SoleDevice' /\ AnswersBound'
    BY <1>2, <1>11, <2>3, AnswerStep DEF OnCompositionStatus, device
  <2>5. element_num' = Elems[a.node] /\ models' = ParsedTable(a.node)
    BY <1>11 DEF OnCompositionStatus
  <2>6. TableOf(a.node)'
    BY <1>4, <2>5, Constants DEF TableOf, ParsedTable, ParsedCell
  <2>7. ChainInv'
    BY <2>3, <2>4, <2>6 DEF ChainInv
  <2>8. JoinedInv'
    BY <1>2, <1>3, <1>11, <2>3, <2>4, JoinedKept DEF OnCompositionStatus, device, TypeOK, Asked
  <2> QED BY <2>4, <2>7, <2>8 DEF ConfigInv
<1>12. ASSUME NEW a \in answers, OnAppKeyStatus(a)
       PROVE  ConfigInv'
  <2> DEFINE r == Request("bind", a.node, 0, models[0][0])
  <2>1. PICK ok \in SendOutcome :
          /\ Send(ok, r)
          /\ wait' = IF ok THEN models[0][0] ELSE wait
          /\ i' = IF ok THEN 1 ELSE 0
    BY <1>12 DEF OnAppKeyStatus
  <2>2. models[0][0] \in Model
    BY <1>2, Constants DEF TypeOK
  <2>3. r \in Message /\ r.node = a.node /\ r.op = "bind" /\ ok \in BOOLEAN
    BY <1>4, <2>2, Constants, RequestType DEF Op
  <2>4. /\ \A m \in Node : m # a.node => pending'[m] = pending[m]
        /\ pending'[a.node] \in {"bind", "none"}
        /\ pending'[a.node] = "none" \/ ok
    <3> HIDE DEF r
    <3> QED BY <1>2, <2>1, <2>3, SendEffect
  <2>5. /\ pending[a.node] = "key" /\ \A m \in Node : m # a.node => pending'[m] = "none"
        /\ SoleDevice' /\ AnswersBound'
    BY <1>2, <1>12, <2>4, AnswerStep DEF OnAppKeyStatus, device, global_node
  <2>6. j' = 0 /\ temp' = models[0][0].id /\ UNCHANGED <<element_num, models, bound, refused>>
    BY <1>12 DEF OnAppKeyStatus, global_node, device
  <2>7. TableOf(a.node)
    BY <1>3, <1>4, <2>5 DEF ChainInv
  <2>8. TableOf(a.node)'
    BY <2>6, <2>7 DEF TableOf
  <2>9. ASSUME ok PROVE CursorAt(a.node)'
    <3>1. i' = 1 /\ wait' = models[0][0]
      BY <2>1, <2>9
    <3>2. models[0][0] = ModelAt[a.node][0][0]
      BY <1>4, <2>7, Constants DEF TableOf
    <3>3. BoundBefore(a.node, j, i - 1)'
      BY <2>6, <3>1 DEF BoundBefore, ElemIdx, ColIdx
    <3> QED BY <1>4, <2>6, <3>1, <3>2, <3>3, Constants DEF CursorAt
  <2>10. ChainInv'
    BY <2>4, <2>5, <2>8, <2>9 DEF ChainInv
  <2>11. JoinedInv'
    BY <1>2, <1>3, <1>12, <2>4, <2>5, JoinedKept DEF OnAppKeyStatus, device, TypeOK, Asked
  <2> QED BY <2>5, <2>10, <2>11 DEF ConfigInv
<1>13. ASSUME NEW a \in answers, OnBindMismatch(a)
       PROVE  ConfigInv'
  <2>1. \A m \in Node : pending'[m] \in {pending[m], "none"}
    BY <1>2, <1>4, <1>13, SendNothingEffect DEF OnBindMismatch
  <2>2. SoleDevice' /\ AnswersBound'
    BY <1>2, <1>3, <1>13, <2>1, SoleKept, AnswersKept
    DEF OnBindMismatch, Answered, gateway, global_node, device, Asked
  <2>3. ChainInv' /\ JoinedInv'
    BY <1>2, <1>3, <1>13, <2>1, ChainKept, JoinedKept
    DEF OnBindMismatch, gateway, global_node, device, TypeOK, Asked
  <2> QED BY <2>2, <2>3 DEF ConfigInv
<1>14. ASSUME NEW a \in answers, a.op = "bind", Answered(a), BindMatches(a)
       PROVE  /\ a.node \in Node /\ TableOf(a.node) /\ CursorAt(a.node)
              /\ BoundBefore(a.node, j, i)
              /\ pending[a.node] = "bind"
              /\ \A m \in Node : m # a.node => pending[m] = "none"
              /\ i \in ColIdx
              /\ models[j][i].id = EndId <=> i = Rows[a.node][j]
  <2>1. /\ a.node \in Node /\ TableOf(a.node) /\ CursorAt(a.node)
        /\ BoundBefore(a.node, j, i)
    BY <1>2, <1>14, MatchMeansBound
  <2>2. pending[a.node] = "bind" /\ \A m \in Node : m # a.node => pending[m] = "none"
    BY <1>3, <1>14, <2>1 DEF Answered, SoleDevice
  <2>3. i \in ColIdx /\ j \in ElemIdx /\ j < Elems[a.node] /\ i <= Rows[a.node][j]
    BY <1>2, <2>1, Constants DEF CursorAt, TypeOK, ColIdx
  <2>4. CASE i = Rows[a.node][j]
    BY <2>1, <2>2, <2>3, <2>4, Constants DEF TableOf
  <2>5. CASE i # Rows[a.node][j]
    <3>1. i < Rows[a.node][j]
      BY <1>2, <2>1, <2>3, <2>5, Constants DEF ColIdx
    <3>2. models[j][i] = ModelAt[a.node][j][i]
      BY <2>1, <2>3, <3>1 DEF TableOf
    <3> QED BY <2>1, <2>2, <2>3, <2>5, <3>2, CompositionAssumption
  <2> QED BY <2>4, <2>5
<1>15. ASSUME NEW a \in answers, OnBindNextModel(a)
       PROVE  ConfigInv'
  <2>1. /\ a.op = "bind" /\ Answered(a) /\ BindMatches(a)
        /\ models[j][i].id # EndId /\ BindAt(a.node, j, i)
        /\ UNCHANGED <<element_num, models, bound, refused, joined, link, prov, unicast_addr, MAC>>
    BY <1>15 DEF OnBindNextModel, global_node, device
  <2>2. i < Rows[a.node][j] /\ j < Elems[a.node] /\ j \in ElemIdx
    BY <1>2, <1>14, <2>1, Constants DEF CursorAt, TypeOK, ColIdx
  <2>3. ChainInv' /\ \A m \in Node : m # a.node => pending'[m] = pending[m]
    BY <1>2, <1>14, <2>1, <2>2, BindAtChain
  <2>4. SoleDevice' /\ AnswersBound'
    BY <1>2, <2>1, <2>3, AnswerStep
  <2>5. JoinedInv'
    BY <1>2, <1>3, <1>14, <2>1, <2>3, JoinedKept DEF TypeOK, Asked
  <2> QED BY <2>3, <2>4, <2>5 DEF ConfigInv
<1>16. ASSUME NEW a \in answers, OnBindNextElement(a)
       PROVE  ConfigInv'
  <2>1. /\ a.op = "bind" /\ Answered(a) /\ BindMatches(a)
        /\ models[j][i].id = EndId /\ ~ LastRow /\ BindAt(a.node, j + 1, 0)
        /\ UNCHANGED <<element_num, models, bound, refused, joined, link, prov, unicast_addr, MAC>>
    BY <1>16 DEF OnBindNextElement, global_node, device
  <2>2. j + 1 \in ElemIdx /\ j + 1 < Elems[a.node] /\ 0 < Rows[a.node][j + 1]
    <3>1. j + 1 < Elems[a.node]
      BY <1>2, <1>14, <2>1, Constants DEF LastRow, TableOf, TypeOK, ElemIdx
    <3>2. j + 1 \in ElemIdx
      <4>1. j \in Nat /\ Elems[a.node] \in Nat /\ Elems[a.node] <= MaxElem /\ MaxElem \in Nat
        BY <1>2, <1>14, <2>1, Constants DEF TypeOK, ElemIdx
      <4> QED BY <3>1, <4>1 DEF ElemIdx
    <3> QED BY <1>14, <2>1, <3>1, <3>2, Constants
  <2>3. BoundBefore(a.node, j + 1, 0)
    BY <1>2, <1>14, <2>1 DEF BoundBefore, TypeOK, ElemIdx, ColIdx, Asked
  <2>4. ChainInv' /\ \A m \in Node : m # a.node => pending'[m] = pending[m]
    BY <1>2, <1>14, <2>1, <2>2, <2>3, Constants, BindAtChain
  <2>5. SoleDevice' /\ AnswersBound'
    BY <1>2, <2>1, <2>4, AnswerStep
  <2>6. JoinedInv'
    BY <1>2, <1>3, <1>14, <2>1, <2>4, JoinedKept DEF TypeOK, Asked
  <2> QED BY <2>4, <2>5, <2>6 DEF ConfigInv
<1>17. ASSUME NEW a \in answers, OnBindLast(a)
       PROVE  ConfigInv'
  <2> DEFINE n == a.node
             new == [node |-> unicast_addr, mac |-> MAC, endpointCount |-> element_num]
  <2>1. /\ a.op = "bind" /\ Answered(a) /\ BindMatches(a)
        /\ models[j][i].id = EndId /\ LastRow /\ AfterJoin(n)
        /\ joined' = Append(joined, new)
        /\ UNCHANGED <<element_num, models, bound, refused, link, prov, unicast_addr, MAC>>
    BY <1>17 DEF OnBindLast, Announce, global_node, device
  <2>2. /\ \A m \in Node : m # n => pending'[m] = pending[m]
        /\ pending'[n] \in {"sub", "none"}
    <3>1. CASE unicast_addr \in WallSwitch
      <4> DEFINE r == Request("sub", n, 0, OnOffSrv)
      <4>1. PICK ok \in SendOutcome : Send(ok, r)
        BY <2>1, <3>1 DEF AfterJoin
      <4>2. r \in Message /\ r.node = n /\ r.op = "sub" /\ ok \in BOOLEAN
        BY <1>4, Constants, RequestType DEF Op
      <4> HIDE DEF r
      <4> QED BY <1>2, <4>1, <4>2, SendEffect
    <3>2. CASE unicast_addr \notin WallSwitch
      BY <1>2, <1>4, <2>1, <3>2 DEF AfterJoin, SendNothing, TypeOK
    <3> QED BY <3>1, <3>2
  <2>3. /\ SoleDevice' /\ AnswersBound'
        /\ \A m \in Node : m # n => pending'[m] = "none"
        /\ n = unicast_addr /\ MAC = n /\ n \in prov
    BY <1>2, <2>1, <2>2, AnswerStep
  <2>4. ChainInv'
    BY <1>4, <2>2, <2>3 DEF ChainInv
  <2>5. BoundBefore(n, Elems[n], 0) /\ element_num = Elems[n] /\ n \in Node
    <3>1. i = Rows[n][j] /\ j + 1 >= Elems[n] /\ element_num = Elems[n] /\ j < Elems[n]
      BY <1>14, <2>1 DEF LastRow, TableOf, CursorAt
    <3>2. BoundBefore(n, j, i) /\ n \in Node
      BY <1>14, <2>1
    <3> HIDE DEF n
    <3>3. ASSUME NEW e \in ElemIdx, NEW d \in ColIdx, e < Elems[n], d < Rows[n][e]
          PROVE  <<e, ModelAt[n][e][d]>> \in Asked(n)
      <4>1. e < j \/ (e = j /\ d < i)
        BY SMTT(30), <1>2, <3>1, <3>2, <3>3, Constants DEF TypeOK, ElemIdx, ColIdx
      <4> QED BY <3>2, <3>3, <4>1 DEF BoundBefore
    <3> QED BY <3>1, <3>2, <3>3 DEF BoundBefore
  <2>6. \A x \in DOMAIN joined : joined[x].node # n
    BY <1>3, <1>14, <2>1 DEF JoinedInv
  <2>7. /\ DOMAIN joined' = DOMAIN joined \cup {Len(joined) + 1}
        /\ Len(joined) + 1 \notin DOMAIN joined
        /\ joined'[Len(joined) + 1] = new
        /\ \A x \in DOMAIN joined : joined'[x] = joined[x]
    BY <1>2, <2>1 DEF TypeOK
  <2>8. ASSUME NEW x \in DOMAIN joined
        PROVE  /\ joined[x].node \in prov /\ joined[x].node \in Node
               /\ pending'[joined[x].node] \in {"sub", "none"}
               /\ joined[x].mac = joined[x].node
               /\ joined[x].endpointCount = Elems[joined[x].node]
               /\ BoundBefore(joined[x].node, Elems[joined[x].node], 0)
               /\ \A y \in DOMAIN joined : joined[x].node = joined[y].node => x = y
    <3>1. joined[x].node \in prov /\ joined[x].node \in Node
      BY <1>2, <1>3 DEF JoinedInv, TypeOK
    <3> QED BY <1>3, <2>2, <2>8, <3>1 DEF JoinedInv
  <2>9. new.node = n /\ new.mac = n /\ new.endpointCount = Elems[n]
    BY <2>3, <2>5
  <2>10. JoinedInv'
    <3> HIDE DEF n, new
    <3> SUFFICES ASSUME NEW x \in DOMAIN joined'
                 PROVE  /\ joined'[x].node \in prov
                        /\ pending'[joined'[x].node] \in {"sub", "none"}
                        /\ joined'[x].mac = joined'[x].node
                        /\ joined'[x].endpointCount = Elems[joined'[x].node]
                        /\ BoundBefore(joined'[x].node, Elems[joined'[x].node], 0)
                        /\ \A y \in DOMAIN joined' :
                             joined'[x].node = joined'[y].node => x = y
      BY <2>1 DEF JoinedInv, BoundBefore, Asked
    <3>1. CASE x \in DOMAIN joined
      BY <2>6, <2>7, <2>8, <2>9, <3>1
    <3>2. CASE x = Len(joined) + 1
      BY <2>2, <2>3, <2>5, <2>6, <2>7, <2>9, <3>2
    <3> QED BY <2>7, <3>1, <3>2
  <2> QED BY <2>3, <2>4, <2>10 DEF ConfigInv
<1>18. ASSUME NEW a \in answers, OnSubStatus(a)
       PROVE  ConfigInv'
  <2>1. /\ \A m \in Node : m # a.node => pending'[m] = pending[m]
        /\ pending'[a.node] \in {"sub", "none"}
    <3>1. CASE a.elem = k /\ ~ (k + 1 >= element_num)
      <4> DEFINE r == Request("sub", a.node, k + 1, OnOffSrv)
      <4>1. PICK ok \in SendOutcome : Send(ok, r)
        BY <1>18, <3>1 DEF OnSubStatus, LastElement
      <4>2. k + 1 \in ElemIdx
        BY <1>2, <3>1, Constants DEF TypeOK, ElemIdx
      <4>3. r \in Message /\ r.node = a.node /\ r.op = "sub" /\ ok \in BOOLEAN
        BY <1>4, <4>2, Constants, RequestType DEF Op
      <4> HIDE DEF r
      <4> QED BY <1>2, <4>1, <4>3, SendEffect
    <3>2. CASE ~ (a.elem = k /\ ~ (k + 1 >= element_num))
      <4>1. SendNothing(a.node)
        BY <1>18, <3>2 DEF OnSubStatus, LastElement
      <4> QED BY <1>2, <1>4, <4>1 DEF SendNothing, TypeOK
    <3> QED BY <3>1, <3>2
  <2>2. /\ SoleDevice' /\ AnswersBound'
    BY <1>2, <1>18, <2>1, AnswerStep DEF OnSubStatus, global_node, device
  <2>3. ChainInv' /\ JoinedInv'
    BY <1>2, <1>3, <1>18, <2>1, ChainKept, JoinedKept
    DEF OnSubStatus, global_node, device, TypeOK, Asked
  <2> QED BY <2>2, <2>3 DEF ConfigInv
<1>19. ASSUME NEW n \in Node, Timeout(n)
       PROVE  ConfigInv'
  <2>1. pending[n] \in Op
    BY <1>2, <1>19 DEF Timeout, TypeOK
  <2>2. \A m \in Node : pending'[m] \in {pending[m], "none"}
    <3>1. CASE pending[n] = "sub"
      BY <1>2, <1>19, <3>1, SendNothingEffect DEF Timeout
    <3>2. CASE pending[n] # "sub"
      <4> DEFINE r == Resent(n)
      <4>1. PICK ok \in SendOutcome : Send(ok, r)
        BY <1>19, <3>2 DEF Timeout
      <4>2. r \in Message /\ r.node = n /\ r.op = pending[n]
        BY <1>2, <2>1, Constants, RequestType DEF Resent, TypeOK
      <4>3. ok \in BOOLEAN
        BY <4>1, Constants
      <4> HIDE DEF r
      <4> QED BY <1>2, <4>1, <4>2, <4>3, SendEffect
    <3> QED BY <3>1, <3>2
  <2>3. SoleDevice' /\ AnswersBound'
    BY <1>2, <1>3, <1>19, <2>2, SoleKept, AnswersKept DEF Timeout, gateway, global_node, device, Asked
  <2>4. ChainInv' /\ JoinedInv'
    BY <1>2, <1>3, <1>19, <2>2, ChainKept, JoinedKept
    DEF Timeout, gateway, global_node, device, TypeOK, Asked
  <2> QED BY <2>3, <2>4 DEF ConfigInv
<1>20. ASSUME NEW r \in requests, DeviceHandles(r)
       PROVE  ConfigInv'
  <2>1. \A n \in Node : Asked(n) \subseteq Asked(n)'
    BY <1>2, <1>20, DeviceAsked DEF DeviceHandles
  <2>2. r.node \in Node
    BY <1>2 DEF TypeOK, Message
  <2>3. r.op = "bind" => <<r.elem, r.model>> \in Asked(r.node)'
    BY <1>2, <1>20, DeviceAsked DEF DeviceHandles, Slot
  <2>4. AnswersBound'
    BY <1>3, <1>4, <1>20, <2>1, <2>3 DEF DeviceHandles, AnswersBound
  <2>5. SoleDevice'
    BY <1>3, <1>20, SoleKept DEF DeviceHandles, gateway, global_node
  <2>6. ChainInv' /\ JoinedInv'
    BY <1>2, <1>3, <1>20, <2>1, ChainKept, JoinedKept DEF DeviceHandles, gateway, global_node
  <2> QED BY <2>4, <2>5, <2>6 DEF ConfigInv
<1>21. ASSUME NEW m \in requests \cup answers, Lose(m)
       PROVE  ConfigInv'
  <2>1. SoleDevice' /\ AnswersBound'
    BY <1>2, <1>3, <1>21, SoleKept, AnswersKept DEF Lose, gateway, global_node, device, Asked
  <2>2. ChainInv' /\ JoinedInv'
    BY <1>2, <1>3, <1>21, ChainKept, JoinedKept DEF Lose, gateway, global_node, device, Asked
  <2> QED BY <2>1, <2>2 DEF ConfigInv
<1>22. CASE Restart
  <2>1. link' = {} /\ \A n \in Node : pending'[n] = "none"
    BY <1>22 DEF Restart
  <2>2. SoleDevice' /\ ChainInv'
    BY <2>1 DEF SoleDevice, ChainInv
  <2>3. AnswersBound' /\ JoinedInv'
    BY <1>2, <1>3, <1>22, <2>1, AnswersKept, JoinedKept DEF Restart, device, TypeOK, Asked
  <2> QED BY <2>2, <2>3 DEF ConfigInv
<1> QED
  BY <1>5, <1>6, <1>7, <1>8, <1>9, <1>10, <1>11, <1>12, <1>13, <1>15, <1>16,
     <1>17, <1>18, <1>19, <1>20, <1>21, <1>22
  DEF Next, OnConfigAnswer

LEMMA JoinInvAlways == Spec => []JoinInv
BY JoinInvInit, JoinInvStep, PTL DEF Spec

\* Of a device that is announced every model is bound, or the device itself
\* refused each bind of it: whatever the radio lost, repeated or delayed, the
\* chain skips no model.
THEOREM AnnouncedIsConfigured == Spec => []AnnouncedConfigured
<1>1. TypeOK /\ JoinInv => AnnouncedConfigured
  BY CompositionAssumption
  DEF JoinInv, ConfigInv, JoinedInv, BoundBefore, AnnouncedConfigured, Slots
<1>2. JoinInv => TypeOK
  BY DEF JoinInv, CursorInv
<1> QED BY <1>1, <1>2, JoinInvAlways, PTL

\* The address, the MAC and the endpoint count of an announcement are those
\* of one and the same device.
THEOREM AnnouncedAccurately == Spec => []AnnouncementAccurate
<1>1. JoinInv => AnnouncementAccurate
  BY DEF JoinInv, ConfigInv, JoinedInv, AnnouncementAccurate
<1> QED BY <1>1, JoinInvAlways, PTL

\* No device is announced twice.
THEOREM AnnouncedAtMostOnce == Spec => []AnnouncedOnce
<1>1. JoinInv => AnnouncedOnce
  BY DEF JoinInv, ConfigInv, JoinedInv, AnnouncedOnce
<1> QED BY <1>1, JoinInvAlways, PTL
=============================================================================
