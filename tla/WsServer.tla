------------------------------ MODULE WsServer ------------------------------
(***************************************************************************)
(* The WebSocket server: websocket_server.c, websocket.c, websocketAPP.c.  *)
(* Tasks: server_task accepts, server_handle_task reads the request and    *)
(* adds the client, ws_server_task reads frames, out_msg (and any caller   *)
(* of the other functions) sends and removes, in_msg takes the texts; the  *)
(* TCP/IP task queues an event for each segment that arrives.              *)
(*                                                                         *)
(* A frame is a sequence of units, the first with the header; what a       *)
(* segment holds is any run of units, so frames are split and joined.      *)
(* lwIP hands segments that came out of order on together, as a chain of   *)
(* pbufs, of which ws_read looks at the first only.                        *)
(* A unit is <<f, n>>, the n-th unit of the connection's f-th frame.       *)
(***************************************************************************)
EXTENDS Integers, Sequences

CONSTANTS
  Conn,       \* struct netconn: the memory of a deleted one is used again
  NoConn,     \* a null pointer
  Clients,    \* WEBSOCKET_SERVER_MAX_CLIENTS
  Url,
  Frame,      \* frames that clients send: op, fin, len in units
  QueueSize,  \* WEBSOCKET_SERVER_QUEUE_SIZE
  RingRoom,   \* texts that socket_buf_rec has room for
  MaxFrames, MaxConnects, MaxCalls,  \* bounds, and one on their sum
  MaxEvents

Slot == 0 .. Clients - 1
Op == {"CONT", "TEXT", "BIN", "PING", "PONG", "CLOSE"}

ASSUME FrameAssumption == Frame \subseteq [op : Op, fin : BOOLEAN, len : Nat \ {0}]
ASSUME SizeAssumption == {Clients, QueueSize, RingRoom} \subseteq Nat \ {0}
ASSUME BoundAssumption == {MaxFrames, MaxConnects, MaxCalls, MaxEvents} \subseteq Nat
ASSUME ConnAssumption == Conn \subseteq Nat /\ NoConn \in Int \ Conn

VARIABLES
  net,          \* per connection: "unused", "accepted" or "open"
  sent,         \* per connection: the frames sent by the client,
  wire,         \* the units under way,
  inbox,        \* the segments that arrived and were not read,
  closed,       \* the client has closed its end
  client_queue, \* accepted connections
  adding,       \* the connection server_handle_task is adding
  queue,        \* xwebsocket_queue
  mutex,        \* xwebsocket_mutex: "free", "add" or "server"
  clients,
  server,       \* ws_server_task: "idle", "event", "recv", "piece" or "gone"
  conn,         \* its connection,
  num,          \* its client,
  header,       \* and in the middle of a frame: what the header says,
  read,         \* and what of the frame has been read
  ring,         \* number of texts in socket_buf_rec
  connects, frames, calls,  \* counters of the bounded events
  told,         \* history: per connection, the messages passed on,
  dropped,      \* history: no memory for a frame, or no room for its text,
  joined,       \* history: a segment had units of two frames, or a chain,
  late,         \* history: a recv ended before the rest of a frame came,
  lost          \* history: xwebsocket_queue had no room

network == <<net, sent, wire, inbox, closed>>
adder == <<client_queue, adding>>
frame == <<num, header, read>>
reader == <<server, conn, frame>>
counters == <<connects, frames, calls>>
outcome == <<ring, told, dropped>>
excuses == <<joined, late, lost>>
vars == <<network, adder, queue, mutex, clients, reader, counters, outcome,
          excuses>>

NoClient == [conn |-> NoConn, url |-> "none", ping |-> FALSE, last_opcode |-> "CONT",
             len |-> 0, unfinished |-> 0]
NoHeader == [op |-> "CONT", fin |-> TRUE, len |-> 0]

\* ws_server_task, server_task and websocket_start
Init ==
  /\ net = [c \in Conn |-> "unused"]
  /\ sent = [c \in Conn |-> <<>>] /\ wire = sent /\ inbox = sent
  /\ closed = [c \in Conn |-> FALSE]
  /\ client_queue = <<>> /\ adding = NoConn
  /\ queue = <<>> /\ mutex = "free"
  /\ clients = [s \in Slot |-> NoClient]
  /\ server = "idle" /\ conn = NoConn
  /\ num = 0 /\ header = NoHeader /\ read = <<>>
  /\ ring = 0 /\ connects = 0 /\ frames = 0 /\ calls = 0
  /\ told = sent /\ dropped = closed
  /\ joined = closed /\ late = closed /\ lost = closed

\* The bound on all that clients and other tasks start.
Happens == connects + frames + calls < MaxEvents

Listed(c) == \E s \in Slot : clients[s].conn = c

-----------------------------------------------------------------------------
(* The clients and the TCP/IP task *)

SendFrame(c, f) ==
  /\ net[c] = "open" /\ ~closed[c]
  /\ frames < MaxFrames /\ Happens /\ frames' = frames + 1
  /\ sent' = [sent EXCEPT ![c] = Append(@, f)]
  /\ wire' = [wire EXCEPT ![c] = @ \o [n \in 1 .. f.len |-> <<Len(sent[c]) + 1, n>>]]
  /\ UNCHANGED <<net, inbox, closed, adder, queue, mutex, clients, reader, connects,
                 calls, outcome, excuses>>

\* If the queue stays full, the event is lost.
background_callback(c) ==
  IF Len(queue) < QueueSize
    THEN queue' = Append(queue, c) /\ UNCHANGED lost
    ELSE lost' = [lost EXCEPT ![c] = TRUE] /\ UNCHANGED queue

\* What arrives, n units, has m of them in its first pbuf.  The others can not
\* be read: they are deleted with it.
Arrive(c) ==
  /\ net[c] = "open"
  /\ \E n \in 1 .. Len(wire[c]) : \E m \in 1 .. n :
       /\ wire' = [wire EXCEPT ![c] = SubSeq(@, n + 1, Len(@))]
       /\ inbox' = [inbox EXCEPT ![c] = Append(@, SubSeq(wire[c], 1, m))]
       /\ joined' = [joined EXCEPT ![c] =
                       @ \/ m # n \/ wire[c][1][1] # wire[c][n][1]]
  /\ background_callback(c)
  /\ UNCHANGED <<net, sent, closed, adder, mutex, clients, reader, counters, outcome,
                 late>>

ClientCloses(c) ==
  /\ net[c] = "open" /\ ~closed[c] /\ wire[c] = <<>>
  /\ closed' = [closed EXCEPT ![c] = TRUE]
  /\ background_callback(c)
  /\ UNCHANGED <<net, sent, wire, inbox, adder, mutex, clients, reader, counters,
                 outcome, joined, late>>

-----------------------------------------------------------------------------
(* server_task and server_handle_task *)

First(S) == CHOOSE s \in S : \A t \in S : s <= t

\* netconn_accept takes memory that is not in use, which may be that of a
\* connection that was deleted; the order of Conn stands for its choice.
Accept(c) ==
  /\ server # "gone" /\ net[c] = "unused" /\ \A d \in Conn : d < c => net[d] # "unused"
  /\ connects < MaxConnects /\ Happens /\ connects' = connects + 1
  /\ net' = [net EXCEPT ![c] = "accepted"]
  /\ client_queue' = Append(client_queue, c)
  /\ told' = [told EXCEPT ![c] = <<>>]
  /\ dropped' = [dropped EXCEPT ![c] = FALSE]
  /\ joined' = [joined EXCEPT ![c] = FALSE]
  /\ late' = [late EXCEPT ![c] = FALSE]
  /\ lost' = [lost EXCEPT ![c] = FALSE]
  /\ UNCHANGED <<sent, wire, inbox, closed, adding, queue, mutex, clients, reader, frames,
                 calls, ring>>

\* http_serve: no request within a second, another page, or no usable key.
ServeOther ==
  /\ adding = NoConn /\ client_queue # <<>>
  /\ client_queue' = Tail(client_queue)
  /\ net' = [net EXCEPT ![Head(client_queue)] = "unused"]
  /\ UNCHANGED <<sent, wire, inbox, closed, adding, queue, mutex, clients, reader,
                 counters, outcome, excuses>>

ServeWebsocket ==
  /\ adding = NoConn /\ client_queue # <<>>
  /\ client_queue' = Tail(client_queue) /\ adding' = Head(client_queue)
  /\ UNCHANGED <<network, queue, mutex, clients, reader, counters, outcome, excuses>>

\* ws_server_add_client_protocol: from here on the client may send, and the
\* callback queues its segments.
Answer ==
  /\ adding # NoConn /\ net[adding] = "accepted" /\ mutex = "free"
  /\ mutex' = "add"
  /\ net' = [net EXCEPT ![adding] = "open"]
  /\ UNCHANGED <<sent, wire, inbox, closed, adder, queue, clients, reader,
                 counters, outcome, excuses>>

Free == {s \in Slot : clients[s].conn = NoConn}
\* Without a free place the connection stays open, and nobody reads from it.
AddClient(url) ==
  /\ adding # NoConn /\ net[adding] = "open"
  /\ clients' = IF Free = {} THEN clients
                ELSE [clients EXCEPT ![First(Free)] =
                        [NoClient EXCEPT !.conn = adding, !.url = url]]
  /\ adding' = NoConn /\ mutex' = "free"
  /\ UNCHANGED <<network, client_queue, queue, reader, counters, outcome, excuses>>

-----------------------------------------------------------------------------
(* ws_disconnect_client *)

\* Mutant: the pointer to the deleted connection stays.
DisconnectedKeepsConn(client) ==
  [client EXCEPT !.url = "none", !.last_opcode = "CONT", !.len = 0]

Disconnected(client) ==
  [client EXCEPT !.conn = NoConn, !.url = "none", !.last_opcode = "CONT", !.len = 0]

CloseConns(closing) ==
  /\ net' = [c \in Conn |-> IF c \in closing THEN "unused" ELSE net[c]]
  /\ wire' = [c \in Conn |-> IF c \in closing THEN <<>> ELSE wire[c]]
  /\ inbox' = [c \in Conn |-> IF c \in closing THEN <<>> ELSE inbox[c]]
  /\ sent' = [c \in Conn |-> IF c \in closing THEN <<>> ELSE sent[c]]
  /\ closed' = [c \in Conn |-> closed[c] /\ c \notin closing]

-----------------------------------------------------------------------------
(* ws_server_task: handle_read, ws_read *)

TakeEvent ==
  /\ server = "idle" /\ queue # <<>>
  /\ conn' = Head(queue) /\ queue' = Tail(queue) /\ server' = "event"
  /\ UNCHANGED <<network, adder, mutex, clients, frame, counters, outcome, excuses>>

\* The event of a connection that is in no place, or has been removed.
SkipUnknown ==
  /\ server = "event" /\ mutex = "free" /\ ~Listed(conn)
  /\ server' = "idle" /\ conn' = NoConn
  /\ UNCHANGED <<network, adder, queue, mutex, clients, frame, counters, outcome,
                 excuses>>

ClientOf(c) == First({s \in Slot : clients[s].conn = c})

\* The segment was read together with those before it.
SkipRead ==
  /\ server = "event" /\ mutex = "free" /\ Listed(conn)
  /\ clients[ClientOf(conn)].unfinished > 0
  /\ clients' = [clients EXCEPT ![ClientOf(conn)].unfinished = @ - 1]
  /\ server' = "idle" /\ conn' = NoConn
  /\ UNCHANGED <<network, adder, queue, mutex, frame, counters, outcome, excuses>>

StartRead ==
  /\ server = "event" /\ mutex = "free" /\ Listed(conn)
  /\ clients[ClientOf(conn)].unfinished = 0
  /\ mutex' = "server" /\ server' = "recv" /\ num' = ClientOf(conn)
  /\ UNCHANGED <<network, adder, queue, clients, conn, header, read, counters, outcome,
                 excuses>>

Release ==
  /\ server' = "idle" /\ conn' = NoConn /\ mutex' = "free"
  /\ num' = 0 /\ header' = NoHeader /\ read' = <<>>

\* What the first two bytes of a segment say.  In the middle of a frame they are
\* data, and may say anything: here, what any frame may say.
HeaderOf(unit) ==
  IF unit[2] = 1
    THEN {sent[conn][unit[1]]}
    ELSE Frame

Ends(h, op) == h.fin /\ h.op \in op

\* A piece more that has an event of its own.
Unfinished(n) == n + 1

\* What is kept of a frame.  The last frame of a message in several frames is
\* not joined to them, and handle_read passes it over.
ClientAfter(client, h) ==
  CASE Ends(h, {"CLOSE"}) -> Disconnected(client)
    [] Ends(h, {"PONG"}) -> [client EXCEPT !.last_opcode = "PONG", !.ping = FALSE]
    [] h.fin /\ h.op \notin {"CLOSE", "PONG"} -> [client EXCEPT !.last_opcode = h.op]
    [] ~h.fin /\ h.op \in {"TEXT", "BIN"} ->
         [client EXCEPT !.last_opcode = h.op, !.len = h.len]
    [] ~h.fin /\ h.op = "CONT" /\ client.last_opcode \in {"TEXT", "BIN"} ->
         [client EXCEPT !.len = @ + h.len]
    [] OTHER -> client

\* The message as the callback sees it: the frame, or 0 if it is not one.
Message(h, us) ==
  IF \A n \in 1 .. Len(us) : us[n] = <<us[1][1], n>> THEN us[1][1] ELSE 0

\* websocket_callback: texts go to in_msg, if there is room within a second.
Tell(h, us) ==
  IF Ends(h, {"BIN"}) \/ (Ends(h, {"TEXT"}) /\ ring < RingRoom)
    THEN /\ told' = [told EXCEPT ![conn] = Append(@, Message(h, us))]
         /\ ring' = ring + (IF h.op = "TEXT" THEN 1 ELSE 0)
         /\ UNCHANGED dropped
    ELSE /\ dropped' = [dropped EXCEPT ![conn] = @ \/ Ends(h, {"TEXT"})]
         /\ UNCHANGED <<told, ring>>

\* The frame h is complete with its units us and leaves the client like this.
FrameRead(h, us, client) ==
  /\ Tell(h, us)
  /\ clients' = [clients EXCEPT ![num] = ClientAfter(client, h)]
  /\ IF Ends(h, {"CLOSE"}) THEN CloseConns({conn})
     ELSE /\ inbox' = [inbox EXCEPT ![conn] = Tail(@)]
          /\ UNCHANGED <<net, sent, wire, closed>>
  /\ Release

Segment == Head(inbox[conn])

\* What a segment holds behind the frame is dropped with it.
RecvFrame ==
  /\ server = "recv" /\ inbox[conn] # <<>>
  /\ \E h \in HeaderOf(Segment[1]) :
       IF h.len <= Len(Segment)
         THEN FrameRead(h, SubSeq(Segment, 1, h.len), clients[num])
         ELSE /\ server' = "piece" /\ header' = h /\ read' = Segment
              /\ inbox' = [inbox EXCEPT ![conn] = Tail(@)]
              /\ UNCHANGED <<net, sent, wire, closed, mutex, clients, conn, num, outcome>>
  /\ UNCHANGED <<adder, queue, counters, excuses>>

\* There is no memory for the frame: what there is of it is deleted.
RecvNoMemory ==
  /\ server = "recv" /\ inbox[conn] # <<>>
  /\ inbox' = [inbox EXCEPT ![conn] = Tail(@)]
  /\ dropped' = [dropped EXCEPT ![conn] = TRUE]
  /\ Release
  /\ UNCHANGED <<net, sent, wire, closed, adder, queue, clients, counters, ring, told,
                 excuses>>

\* Mutant: the mutex is kept.
RecvFailsKeepsMutex ==
  /\ server = "recv" /\ inbox[conn] = <<>>
  /\ server' = "idle" /\ conn' = NoConn
  /\ num' = 0 /\ header' = NoHeader /\ read' = <<>>
  /\ UNCHANGED <<network, adder, queue, mutex, clients, counters, outcome, excuses>>

\* A timeout, or the client has closed.
RecvFails ==
  /\ server = "recv" /\ inbox[conn] = <<>>
  /\ Release
  /\ UNCHANGED <<network, adder, queue, clients, counters, outcome, excuses>>

Together == read \o Segment

RecvPiece ==
  /\ server = "piece" /\ inbox[conn] # <<>> /\ Len(Together) < header.len
  /\ read' = Together
  /\ inbox' = [inbox EXCEPT ![conn] = Tail(@)]
  /\ clients' = [clients EXCEPT ![num].unfinished = Unfinished(@)]
  /\ UNCHANGED <<net, sent, wire, closed, adder, queue, mutex, server, conn, num, header,
                 counters, outcome, excuses>>

RecvLastPiece ==
  /\ server = "piece" /\ inbox[conn] # <<>> /\ Len(Together) = header.len
  /\ FrameRead(header, Together, [clients[num] EXCEPT !.unfinished = Unfinished(@)])
  /\ UNCHANGED <<adder, queue, counters, excuses>>

\* The piece has more than the frame lacks: all of it is dropped.
RecvTooMuch ==
  /\ server = "piece" /\ inbox[conn] # <<>> /\ Len(Together) > header.len
  /\ inbox' = [inbox EXCEPT ![conn] = Tail(@)]
  /\ clients' = [clients EXCEPT ![num].unfinished = 0]
  /\ Release
  /\ UNCHANGED <<net, sent, wire, closed, adder, queue, counters, outcome, excuses>>

\* Mutant: the rest of a frame is given up without a timeout.
PieceFailsSilently ==
  /\ server = "piece"
  /\ clients' = [clients EXCEPT ![num].unfinished = 0]
  /\ Release
  /\ UNCHANGED <<network, adder, queue, counters, outcome, excuses>>

PieceFails ==
  /\ server = "piece" /\ inbox[conn] = <<>>
  /\ clients' = [clients EXCEPT ![num].unfinished = 0]
  /\ late' = [late EXCEPT ![conn] = TRUE]
  /\ Release
  /\ UNCHANGED <<network, adder, queue, counters, outcome, joined, lost>>

in_msg ==
  /\ ring > 0 /\ ring' = ring - 1
  /\ UNCHANGED <<network, adder, queue, mutex, clients, reader, counters, told, dropped,
                 excuses>>

-----------------------------------------------------------------------------
(* Sending and removing, for which other tasks take the mutex *)

Connected == {s \in Slot : clients[s].conn # NoConn}

\* The callers: out_msg sends to all; the others are not used by websocketAPP.
Call(removed, pinged) ==
  /\ mutex = "free"
  /\ calls < MaxCalls /\ Happens /\ calls' = calls + 1
  /\ clients' = [s \in Slot |->
       IF s \in removed THEN Disconnected(clients[s])
       ELSE IF s \in pinged THEN [clients[s] EXCEPT !.ping = TRUE] ELSE clients[s]]
  /\ CloseConns({clients[s].conn : s \in removed})
  /\ UNCHANGED <<adder, queue, mutex, reader, connects, frames, outcome, excuses>>

\* Sending may fail once the client has closed; then it is removed.
Failing(addressed) ==
  SUBSET {s \in addressed \cap Connected : closed[clients[s].conn]}

SendClient(n) == \E failing \in Failing({n}) : Call(failing, {})

SendClients(url) ==
  \E failing \in Failing({s \in Connected : clients[s].url = url}) : Call(failing, {})

SendAll == \E failing \in Failing(Slot) : Call(failing, {})

ws_server_ping == \E failing \in Failing(Slot) : Call(failing, Connected \ failing)

ws_server_remove_client(n) == Call({n} \cap Connected, {})

\* ws_server_len_url counts them, too: strcmp is not 0 for the other urls.
ClientsOf(url) == {s \in Connected : clients[s].url # url}

ws_server_remove_clients(url) == Call(ClientsOf(url), {})

ws_server_remove_all == Call(Connected, {})

\* websocket_stop: ws_server_task is deleted wherever it is.
Stop ==
  /\ server # "gone"
  /\ calls < MaxCalls /\ Happens /\ calls' = calls + 1
  /\ server' = "gone" /\ conn' = NoConn
  /\ num' = 0 /\ header' = NoHeader /\ read' = <<>>
  /\ UNCHANGED <<network, adder, queue, mutex, clients, connects, frames, outcome, excuses>>

ws_server_task ==
  \/ TakeEvent \/ SkipUnknown \/ SkipRead \/ StartRead
  \/ RecvFrame \/ RecvNoMemory \/ RecvFails
  \/ RecvPiece \/ RecvLastPiece \/ RecvTooMuch \/ PieceFails

server_handle_task ==
  \/ ServeOther \/ ServeWebsocket \/ Answer \/ \E url \in Url : AddClient(url)

Next ==
  \/ \E c \in Conn : Accept(c) \/ Arrive(c) \/ ClientCloses(c)
  \/ \E c \in Conn, f \in Frame : SendFrame(c, f)
  \/ server_handle_task
  \/ ws_server_task
  \/ in_msg
  \/ \E n \in Slot : SendClient(n) \/ ws_server_remove_client(n)
  \/ \E url \in Url : SendClients(url) \/ ws_server_remove_clients(url)
  \/ SendAll \/ ws_server_ping \/ ws_server_remove_all \/ Stop

Fairness == WF_vars(ws_server_task) /\ WF_vars(server_handle_task)

Spec == Init /\ [][Next]_vars /\ Fairness

-----------------------------------------------------------------------------
(* Properties *)

Units == Seq((Nat \ {0}) \X (Nat \ {0}))

Client ==
  [conn : Conn \cup {NoConn}, url : Url \cup {"none"}, ping : BOOLEAN,
   last_opcode : Op, len : Nat, unfinished : Nat]

\* A connection has one place, and only an open one has; the connection that is
\* read from is not closed meanwhile.
TypeOK ==
  /\ net \in [Conn -> {"unused", "accepted", "open"}]
  /\ sent \in [Conn -> Seq(Frame)] /\ wire \in [Conn -> Units]
  /\ inbox \in [Conn -> Seq(Units)] /\ told \in [Conn -> Seq(0 .. MaxFrames)]
  /\ {closed, dropped, joined, late, lost} \subseteq [Conn -> BOOLEAN]
  /\ clients \in [Slot -> Client]
  /\ \A s, t \in Slot :
       clients[s].conn = clients[t].conn /\ clients[s].conn # NoConn => s = t
  /\ \A c \in Conn : Listed(c) => net[c] = "open" /\ c # adding
  /\ client_queue \in Seq(Conn) /\ adding \in Conn \cup {NoConn}
  /\ queue \in Seq(Conn) /\ Len(queue) <= QueueSize
  /\ mutex \in {"free", "add", "server"}
  /\ server \in {"idle", "event", "recv", "piece", "gone"}
  /\ server \in {"recv", "piece"} => mutex = "server" /\ clients[num].conn = conn
  /\ server = "piece" => Len(read) < header.len
  /\ ring \in 0 .. RingRoom

Excused(c) == joined[c] \/ late[c] \/ dropped[c]

\* The n-th frame of a client is a message of one frame.
IsMessage(c, n) == sent[c][n].fin /\ sent[c][n].op \in {"TEXT", "BIN"}

Told(c) == {told[c][i] : i \in DOMAIN told[c]}

CaughtUp(c) ==
  Listed(c) /\ wire[c] = <<>> /\ inbox[c] = <<>> /\ conn # c

\* However frames are split into segments, the callback gets each message that is
\* one frame, whole, once, in order; none is missing before one that it got, and
\* none at all once everything is read.
\* Excused are connections of which a segment had parts of two frames or came
\* chained to another (ws_read drops what is behind a frame, and behind the
\* first pbuf), a piece came after the timeout, or a frame found no memory or
\* its text no room.
MessagesDelivered ==
  \A c \in Conn :
    net[c] = "open" /\ ~Excused(c) =>
      /\ \A n \in Told(c) : n \in DOMAIN sent[c] /\ IsMessage(c, n)
      /\ \A i, j \in DOMAIN told[c] : i < j => told[c][i] < told[c][j]
      /\ \A n \in DOMAIN sent[c] : IsMessage(c, n) /\ n \notin Told(c) =>
           /\ \A m \in Told(c) : m < n
           /\ ~(CaughtUp(c) /\ server # "gone")

\* What arrives for a client is read, or the client is removed: no order of events
\* and calls leaves the task waiting or data unread, but for an event that was
\* lost or a task that was stopped.
DataIsRead ==
  \A c \in Conn :
    Listed(c) /\ inbox[c] # <<>> ~>
      inbox[c] = <<>> \/ ~Listed(c) \/ lost[c] \/ server = "gone"
=============================================================================
