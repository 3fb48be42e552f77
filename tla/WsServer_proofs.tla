-------------------------- MODULE WsServer_proofs --------------------------
(***************************************************************************)
(* What holds of the WebSocket server for any clients, frames, segments    *)
(* and calls.  LockInv: who holds the mutex, and that the connection that  *)
(* is read from or added stays what it is.  UnitInv: what is under way is  *)
(* part of a frame that was sent.  Delivery: what was told, what has been  *)
(* read of the next frame, what has arrived and what is under way are      *)
(* together what was sent, in that order.                                  *)
(***************************************************************************)
EXTENDS WsServer, SequenceTheorems, WellFoundedInduction, TLAPS

Unit == (Nat \ {0}) \X (Nat \ {0})

\* Of the frames fs, the unit behind a unit.
After(fs, u) ==
  IF u[2] < fs[u[1]].len THEN <<u[1], u[2] + 1>> ELSE <<u[1] + 1, 1>>

IsOf(fs, u) == u[1] \in DOMAIN fs /\ u[2] <= fs[u[1]].len

LastOf(s) == s[Len(s)]

\* Units in the order in which they were sent, to the end.
InOrder(fs, w) ==
  /\ \A i \in DOMAIN w : IsOf(fs, w[i])
  /\ \A i, j \in DOMAIN w : i <= j =>
       /\ w[i][1] <= w[j][1]
       /\ w[i][1] = w[j][1] => w[j][2] = w[i][2] + (j - i)
  /\ \A i, j \in DOMAIN w : j = i + 1 => w[j] = After(fs, w[i])
  /\ w # <<>> => After(fs, LastOf(w)) = <<Len(fs) + 1, 1>>

\* A segment with units of one frame.
OfOne(fs, g) ==
  /\ g # <<>>
  /\ \A i \in DOMAIN g : g[i] = <<g[1][1], g[1][2] + i - 1>> /\ IsOf(fs, g[i])

\* From the unit e on the segments gs and then the units w follow.
Rest(fs, gs, w, e) ==
  /\ \A i \in DOMAIN gs : OfOne(fs, gs[i])
  /\ gs # <<>> => gs[1][1] = e
  /\ \A i, j \in DOMAIN gs : j = i + 1 => gs[j][1] = After(fs, LastOf(gs[i]))
  /\ (IF w = <<>> THEN <<Len(fs) + 1, 1>> ELSE w[1]) =
       (IF gs = <<>> THEN e ELSE After(fs, LastOf(LastOf(gs))))

\* The message of one frame.
IsMessageFrame(f) == f.fin /\ f.op \in {"TEXT", "BIN"}

\* The callback was told the messages among the first k of the frames fs.
ToldOf(fs, ts, k) ==
  /\ \A i, j \in DOMAIN ts : i < j => ts[i] < ts[j]
  /\ \A i \in DOMAIN ts : ts[i] \in 1 .. k /\ IsMessageFrame(fs[ts[i]])
  /\ \A n \in 1 .. k : IsMessageFrame(fs[n]) => \E i \in DOMAIN ts : ts[i] = n

\* The units us are the first of the frame behind the first k, and h its header.
ReadOf(fs, h, us, k) ==
  /\ k + 1 \in DOMAIN fs /\ h = fs[k + 1]
  /\ \A i \in DOMAIN us : us[i] = <<k + 1, i>>

Reading(c) == server = "piece" /\ conn = c

Delivered(c, k) ==
  /\ k \in 0 .. Len(sent[c]) /\ ToldOf(sent[c], told[c], k)
  /\ server # "gone" =>
       IF Reading(c)
         THEN /\ ReadOf(sent[c], header, read, k)
              /\ Rest(sent[c], inbox[c], wire[c], <<k + 1, Len(read) + 1>>)
         ELSE Rest(sent[c], inbox[c], wire[c], <<k + 1, 1>>)

DeliveryOf(c) == net[c] = "open" /\ ~Excused(c) => \E k \in Nat : Delivered(c, k)

Delivery == \A c \in Conn : DeliveryOf(c)

LockInv ==
  /\ server \in {"recv", "piece"} => num \in Slot /\ conn \in Conn
  /\ server = "event" => conn \in Conn
  /\ server \in {"idle", "gone"} => conn = NoConn
  /\ mutex = "add" <=> adding \in Conn /\ net[adding] = "open"
  /\ adding \in Conn => net[adding] # "unused"

AcceptInv ==
  /\ \A i \in DOMAIN client_queue :
       net[client_queue[i]] = "accepted" /\ client_queue[i] # adding
  /\ \A i, j \in DOMAIN client_queue :
       client_queue[i] = client_queue[j] => i = j
  /\ \A c \in Conn : net[c] # "open" =>
       sent[c] = <<>> /\ wire[c] = <<>> /\ inbox[c] = <<>>
  /\ \A c \in Conn : net[c] = "accepted" => told[c] = <<>>

UnitInv ==
  /\ frames \in 0 .. MaxFrames /\ \A c \in Conn : Len(sent[c]) <= frames
  /\ \A c \in Conn : InOrder(sent[c], wire[c])
  /\ \A c \in Conn : \A i \in DOMAIN inbox[c] :
       /\ inbox[c][i] # <<>>
       /\ \A j \in DOMAIN inbox[c][i] : IsOf(sent[c], inbox[c][i][j])

ReadInv ==
  server = "piece" =>
    /\ header \in Frame /\ read \in Units /\ read # <<>>
    /\ \A i \in DOMAIN read : IsOf(sent[conn], read[i])

Inv == TypeOK /\ LockInv /\ AcceptInv /\ UnitInv /\ ReadInv /\ Delivery

-----------------------------------------------------------------------------
(* Sequences *)

LEMMA Appended ==
  ASSUME NEW S, NEW s \in Seq(S), NEW x \in S
  PROVE  /\ Append(s, x) \in Seq(S) /\ Append(s, x) # <<>>
         /\ Len(s) \in Nat /\ DOMAIN s = 1 .. Len(s)
         /\ Len(Append(s, x)) = Len(s) + 1
         /\ DOMAIN Append(s, x) = 1 .. Len(s) + 1
         /\ \A i \in 1 .. Len(s) : Append(s, x)[i] = s[i]
         /\ Append(s, x)[Len(s) + 1] = x
OBVIOUS

LEMMA Tailed ==
  ASSUME NEW S, NEW s \in Seq(S), s # <<>>
  PROVE  /\ Tail(s) \in Seq(S) /\ Head(s) \in S /\ Head(s) = s[1]
         /\ Len(s) \in Nat \ {0} /\ DOMAIN s = 1 .. Len(s)
         /\ Len(Tail(s)) = Len(s) - 1 /\ DOMAIN Tail(s) = 1 .. Len(s) - 1
         /\ \A i \in 1 .. Len(s) - 1 : Tail(s)[i] = s[i + 1]
OBVIOUS

LEMMA Together2 ==
  ASSUME NEW S, NEW s \in Seq(S), NEW t \in Seq(S)
  PROVE  /\ s \o t \in Seq(S) /\ Len(s) \in Nat /\ Len(t) \in Nat
         /\ DOMAIN s = 1 .. Len(s) /\ DOMAIN t = 1 .. Len(t)
         /\ Len(s \o t) = Len(s) + Len(t)
         /\ DOMAIN (s \o t) = 1 .. Len(s) + Len(t)
         /\ \A i \in 1 .. Len(s) : (s \o t)[i] = s[i]
         /\ \A i \in 1 .. Len(t) : (s \o t)[Len(s) + i] = t[i]
         /\ \A i \in 1 .. Len(s) + Len(t) : i > Len(s) =>
              i - Len(s) \in 1 .. Len(t) /\ (s \o t)[i] = t[i - Len(s)]
OBVIOUS

LEMMA Meets ==
  ASSUME NEW n \in Nat, NEW m \in Nat, n <= m, ~(n + 1 <= m)
  PROVE  n = m /\ m - n = 0
OBVIOUS

LEMMA NoneLeft ==
  ASSUME NEW n \in Nat, NEW m \in Nat, m - n = 0
  PROVE  n = m
OBVIOUS

LEMMA Split ==
  ASSUME NEW S, NEW s \in Seq(S), NEW n \in 1 .. Len(s)
  PROVE  /\ SubSeq(s, 1, n) \in Seq(S) /\ Len(SubSeq(s, 1, n)) = n
         /\ DOMAIN SubSeq(s, 1, n) = 1 .. n
         /\ \A i \in 1 .. n : SubSeq(s, 1, n)[i] = s[i]
         /\ SubSeq(s, n + 1, Len(s)) \in Seq(S)
         /\ Len(SubSeq(s, n + 1, Len(s))) = Len(s) - n
         /\ DOMAIN SubSeq(s, n + 1, Len(s)) = 1 .. Len(s) - n
         /\ \A i \in 1 .. Len(s) - n : SubSeq(s, n + 1, Len(s))[i] = s[n + i]
         /\ n \in Nat /\ Len(s) \in Nat /\ DOMAIN s = 1 .. Len(s)
<1>1. Len(s) \in Nat /\ DOMAIN s = 1 .. Len(s) /\ n \in Nat /\ n >= 1 /\ n <= Len(s)
  OBVIOUS
<1>2. /\ SubSeq(s, 1, n) \in Seq(S) /\ Len(SubSeq(s, 1, n)) = n
      /\ DOMAIN SubSeq(s, 1, n) = 1 .. n
      /\ \A i \in 1 .. n : SubSeq(s, 1, n)[i] = s[i]
  BY <1>1
<1>3. /\ SubSeq(s, n + 1, Len(s)) \in Seq(S)
      /\ Len(SubSeq(s, n + 1, Len(s))) = Len(s) - n
      /\ DOMAIN SubSeq(s, n + 1, Len(s)) = 1 .. Len(s) - n
      /\ \A i \in 1 .. Len(s) - n : SubSeq(s, n + 1, Len(s))[i] = s[n + i]
  <2>1. /\ n + 1 \in Int /\ Len(s) \in Int /\ \A i \in n + 1 .. Len(s) : s[i] \in S
        /\ Len(s) - (n + 1) + 1 = Len(s) - n /\ n + 1 <= Len(s) + 1
        /\ \A i \in 1 .. Len(s) - n : n + 1 + i - 1 = n + i
    BY <1>1
  <2>2. /\ SubSeq(s, n + 1, Len(s)) \in Seq(S)
        /\ Len(SubSeq(s, n + 1, Len(s))) =
             IF n + 1 <= Len(s) THEN Len(s) - (n + 1) + 1 ELSE 0
        /\ \A i \in 1 .. Len(s) - (n + 1) + 1 :
             SubSeq(s, n + 1, Len(s))[i] = s[n + 1 + i - 1]
    BY <2>1, SubSeqProperties
  <2>3. Len(SubSeq(s, n + 1, Len(s))) = Len(s) - n
    <3>1. CASE n + 1 <= Len(s)
      BY <2>1, <2>2, <3>1
    <3>2. CASE ~(n + 1 <= Len(s))
      <4>1. n = Len(s) /\ Len(s) - n = 0
        BY <1>1, <3>2, Meets
      <4> QED
        BY <2>2, <3>2, <4>1
    <3> QED
      BY <3>1, <3>2
  <2>4. DOMAIN SubSeq(s, n + 1, Len(s)) = 1 .. Len(s) - n
    BY <2>2, <2>3
  <2> QED
    BY <2>1, <2>2, <2>3, <2>4
<1> QED
  BY <1>1, <1>2, <1>3

LEMMA EmptyIs ==
  ASSUME NEW S, NEW s \in Seq(S)
  PROVE  /\ Len(s) \in Nat /\ DOMAIN s = 1 .. Len(s)
         /\ s = <<>> <=> Len(s) = 0
OBVIOUS

-----------------------------------------------------------------------------
(* Frames and their units *)

LEMMA FrameIs ==
  ASSUME NEW f \in Frame
  PROVE  f.len \in Nat \ {0} /\ f.op \in Op /\ f.fin \in BOOLEAN
BY FrameAssumption

LEMMA UnitIs ==
  ASSUME NEW u \in Unit
  PROVE  /\ u[1] \in Nat \ {0} /\ u[2] \in Nat \ {0} /\ u = <<u[1], u[2]>>
         /\ \A a, b : u = <<a, b>> <=> u[1] = a /\ u[2] = b
BY DEF Unit

LEMMA AfterIs ==
  ASSUME NEW fs \in Seq(Frame), NEW u \in Unit, IsOf(fs, u)
  PROVE  /\ After(fs, u) \in Unit
         /\ \A f \in Frame : /\ IsOf(Append(fs, f), u)
                             /\ After(Append(fs, f), u) = After(fs, u)
         /\ fs[u[1]] \in Frame /\ u[1] \in 1 .. Len(fs)
<1>1. u[1] \in Nat \ {0} /\ u[2] \in Nat \ {0}
  BY UnitIs
<1>2. u[1] \in 1 .. Len(fs) /\ fs[u[1]] \in Frame /\ u[2] <= fs[u[1]].len
  BY DEF IsOf
<1>3. After(fs, u) \in Unit
  BY <1>1 DEF After, Unit
<1>4. ASSUME NEW f \in Frame
      PROVE  IsOf(Append(fs, f), u) /\ After(Append(fs, f), u) = After(fs, u)
  <2>1. u[1] \in DOMAIN Append(fs, f) /\ Append(fs, f)[u[1]] = fs[u[1]]
    BY <1>1, <1>2, Appended
  <2> QED
    BY <1>2, <2>1 DEF IsOf, After
<1> QED
  BY <1>2, <1>3, <1>4

\* The frames that are told when one more frame is complete.
LEMMA ToldMore ==
  ASSUME NEW fs \in Seq(Frame), NEW ts \in Seq(Nat), NEW k \in Nat,
         k + 1 \in DOMAIN fs, ToldOf(fs, ts, k)
  PROVE  /\ IsMessageFrame(fs[k + 1]) => ToldOf(fs, Append(ts, k + 1), k + 1)
         /\ ~IsMessageFrame(fs[k + 1]) => ToldOf(fs, ts, k + 1)
<1>1. /\ Len(ts) \in Nat /\ DOMAIN ts = 1 .. Len(ts)
      /\ DOMAIN Append(ts, k + 1) = 1 .. Len(ts) + 1
      /\ \A i \in 1 .. Len(ts) : Append(ts, k + 1)[i] = ts[i]
      /\ Append(ts, k + 1)[Len(ts) + 1] = k + 1
  BY Appended
<1>2. \A i \in 1 .. Len(ts) : ts[i] \in 1 .. k /\ IsMessageFrame(fs[ts[i]])
  BY <1>1 DEF ToldOf
<1>3. /\ \A i, j \in 1 .. Len(ts) : i < j => ts[i] < ts[j]
      /\ \A n \in 1 .. k : IsMessageFrame(fs[n]) => \E i \in 1 .. Len(ts) : ts[i] = n
  BY <1>1 DEF ToldOf
<1>4. ASSUME IsMessageFrame(fs[k + 1]) PROVE ToldOf(fs, Append(ts, k + 1), k + 1)
  <2> DEFINE us == Append(ts, k + 1)
  <2>1. /\ DOMAIN us = 1 .. Len(ts) + 1 /\ us[Len(ts) + 1] = k + 1
        /\ \A i \in 1 .. Len(ts) : us[i] = ts[i]
    BY <1>1
  <2> HIDE DEF us
  <2>2. ASSUME NEW i \in DOMAIN us, NEW j \in DOMAIN us, i < j PROVE us[i] < us[j]
    <3>1. i \in 1 .. Len(ts) /\ us[i] = ts[i] /\ ts[i] \in 1 .. k
      BY <1>1, <1>2, <2>1, <2>2
    <3>2. CASE j = Len(ts) + 1
      BY <2>1, <3>1, <3>2
    <3>3. CASE j # Len(ts) + 1
      <4>1. j \in 1 .. Len(ts) /\ us[j] = ts[j]
        BY <1>1, <2>1, <3>3
      <4> QED
        BY <1>3, <2>2, <3>1, <4>1
    <3> QED
      BY <3>2, <3>3
  <2>3. \A i \in DOMAIN us : us[i] \in 1 .. k + 1 /\ IsMessageFrame(fs[us[i]])
    BY <1>1, <1>2, <1>4, <2>1
  <2>4. \A n \in 1 .. k + 1 : IsMessageFrame(fs[n]) => \E i \in DOMAIN us : us[i] = n
    <3> SUFFICES ASSUME NEW n \in 1 .. k + 1, IsMessageFrame(fs[n])
                 PROVE  \E i \in DOMAIN us : us[i] = n
      OBVIOUS
    <3>1. CASE n = k + 1
      BY <1>1, <2>1, <3>1
    <3>2. CASE n # k + 1
      <4>1. n \in 1 .. k
        BY <3>2
      <4>2. PICK i \in 1 .. Len(ts) : ts[i] = n
        BY <1>3, <4>1
      <4> QED
        BY SMTT(30), <1>1, <2>1, <4>2
    <3> QED
      BY <3>1, <3>2
  <2>5. ToldOf(fs, us, k + 1)
    BY <2>2, <2>3, <2>4 DEF ToldOf
  <2> QED
    BY <2>5 DEF us
<1>5. ASSUME ~IsMessageFrame(fs[k + 1]) PROVE ToldOf(fs, ts, k + 1)
  <2>1. \A n \in 1 .. k + 1 : n # k + 1 => n \in 1 .. k
    OBVIOUS
  <2>2. \A n \in 1 .. k + 1 : IsMessageFrame(fs[n]) => \E i \in DOMAIN ts : ts[i] = n
    BY <1>1, <1>3, <1>5, <2>1
  <2>3. \A i \in DOMAIN ts : ts[i] \in 1 .. k + 1 /\ IsMessageFrame(fs[ts[i]])
    BY <1>1, <1>2
  <2> QED
    BY <1>1, <1>3, <2>2, <2>3 DEF ToldOf
<1> QED
  BY <1>4, <1>5

LEMMA ToldSame ==
  ASSUME NEW fs \in Seq(Frame), NEW f \in Frame, NEW ts \in Seq(Nat),
         NEW k \in 0 .. Len(fs), ToldOf(fs, ts, k)
  PROVE  k \in 0 .. Len(Append(fs, f)) /\ ToldOf(Append(fs, f), ts, k)
<1>1. /\ Len(fs) \in Nat /\ Len(Append(fs, f)) = Len(fs) + 1
      /\ \A n \in 1 .. Len(fs) : Append(fs, f)[n] = fs[n]
  BY Appended
<1>2. \A n \in 1 .. k : Append(fs, f)[n] = fs[n]
  BY <1>1
<1> QED
  BY <1>1, <1>2 DEF ToldOf

LEMMA ReadSame ==
  ASSUME NEW fs \in Seq(Frame), NEW f \in Frame, NEW k \in Nat, NEW h, NEW us,
         ReadOf(fs, h, us, k)
  PROVE  ReadOf(Append(fs, f), h, us, k)
<1>1. /\ Len(fs) \in Nat /\ DOMAIN fs = 1 .. Len(fs)
      /\ DOMAIN Append(fs, f) = 1 .. Len(fs) + 1
      /\ \A n \in 1 .. Len(fs) : Append(fs, f)[n] = fs[n]
  BY Appended
<1> QED
  BY <1>1 DEF ReadOf

LEMMA Below ==
  ASSUME NEW n \in Nat, NEW a \in 1 .. n
  PROVE  a <= n + 1 /\ a # n + 1
OBVIOUS

LEMMA Beyond ==
  ASSUME NEW n \in Nat, NEW m \in Nat, NEW i \in 1 .. n + m, NEW j \in 1 .. n + m,
         i > n, j = i + 1
  PROVE  j > n /\ i - n < m /\ j - n = i - n + 1
OBVIOUS

LEMMA ItemsAre ==
  ASSUME NEW S, NEW s \in Seq(S)
  PROVE  /\ Len(s) \in Nat /\ DOMAIN s = 1 .. Len(s)
         /\ \A i \in 1 .. Len(s) : s[i] \in S
         /\ s # <<>> => Len(s) \in 1 .. Len(s) /\ 1 \in 1 .. Len(s) /\ LastOf(s) = s[Len(s)]
BY DEF LastOf

\* The units of a frame.
UnitsOf(k, m) == [n \in 1 .. m |-> <<k, n>>]

LEMMA UnitsOfFrame ==
  ASSUME NEW k \in Nat \ {0}, NEW m \in Nat
  PROVE  /\ UnitsOf(k, m) \in Seq(Unit) /\ Len(UnitsOf(k, m)) = m
         /\ \A n \in 1 .. m : UnitsOf(k, m)[n] = <<k, n>>
<1>1. \A n \in 1 .. m : <<k, n>> \in Unit
  BY DEF Unit
<1> QED
  BY <1>1 DEF UnitsOf

\* Another frame behind what is under way.
LEMMA FrameSent ==
  ASSUME NEW fs \in Seq(Frame), NEW f \in Frame, NEW w \in Seq(Unit), InOrder(fs, w)
  PROVE  /\ w \o UnitsOf(Len(fs) + 1, f.len) \in Seq(Unit)
         /\ InOrder(Append(fs, f), w \o UnitsOf(Len(fs) + 1, f.len))
         /\ w \o UnitsOf(Len(fs) + 1, f.len) # <<>>
         /\ (w \o UnitsOf(Len(fs) + 1, f.len))[1] =
              IF w = <<>> THEN <<Len(fs) + 1, 1>> ELSE w[1]
<1> DEFINE u == UnitsOf(Len(fs) + 1, f.len)
<1> DEFINE w2 == w \o u
<1> DEFINE fs2 == Append(fs, f)
<1>1. /\ f.len \in Nat \ {0} /\ Len(fs) \in Nat /\ DOMAIN fs = 1 .. Len(fs)
      /\ fs2 \in Seq(Frame) /\ Len(fs2) = Len(fs) + 1 /\ DOMAIN fs2 = 1 .. Len(fs) + 1
      /\ fs2[Len(fs) + 1] = f
  BY FrameIs, Appended
<1>2. /\ u \in Seq(Unit) /\ Len(u) = f.len
      /\ \A n \in 1 .. f.len : u[n] = <<Len(fs) + 1, n>>
  <2>1. Len(fs) + 1 \in Nat \ {0} /\ f.len \in Nat
    BY <1>1
  <2> QED
    BY ONLY <2>1, UnitsOfFrame
<1> HIDE DEF u
<1>3. \A n \in 1 .. f.len : u[n][1] = Len(fs) + 1 /\ u[n][2] = n
  BY <1>2
<1>4. /\ w2 \in Seq(Unit) /\ Len(w) \in Nat /\ DOMAIN w = 1 .. Len(w)
      /\ Len(w2) = Len(w) + f.len /\ DOMAIN w2 = 1 .. Len(w) + f.len
      /\ \A i \in 1 .. Len(w) : w2[i] = w[i]
      /\ \A i \in 1 .. f.len : w2[Len(w) + i] = u[i]
      /\ \A i \in 1 .. Len(w) + f.len : i > Len(w) =>
              i - Len(w) \in 1 .. f.len /\ w2[i] = u[i - Len(w)]
  <2>1. /\ w2 \in Seq(Unit) /\ Len(w) \in Nat /\ DOMAIN w = 1 .. Len(w)
        /\ Len(w2) = Len(w) + Len(u) /\ DOMAIN w2 = 1 .. Len(w) + Len(u)
        /\ \A i \in 1 .. Len(w) : w2[i] = w[i]
        /\ \A i \in 1 .. Len(u) : w2[Len(w) + i] = u[i]
        /\ \A i \in 1 .. Len(w) + Len(u) : i > Len(w) =>
                i - Len(w) \in 1 .. Len(u) /\ w2[i] = u[i - Len(w)]
    <3>1. /\ w2 \in Seq(Unit) /\ Len(w) \in Nat /\ Len(w2) = Len(w) + Len(u)
          /\ DOMAIN w = 1 .. Len(w) /\ DOMAIN w2 = 1 .. Len(w) + Len(u)
      BY <1>2, Together2
    <3>2. /\ \A i \in 1 .. Len(w) : w2[i] = w[i]
          /\ \A i \in 1 .. Len(u) : w2[Len(w) + i] = u[i]
      BY <1>2, Together2
    <3>3. \A i \in 1 .. Len(w) + Len(u) : i > Len(w) =>
                i - Len(w) \in 1 .. Len(u) /\ w2[i] = u[i - Len(w)]
      BY <1>2, Together2
    <3> QED
      BY <3>1, <3>2, <3>3
  <2> HIDE DEF w2
  <2> QED
    BY <1>2, <2>1
<1> HIDE DEF w2
<1>5. \A i \in 1 .. Len(w) :
        /\ w[i] \in Unit /\ IsOf(fs, w[i]) /\ IsOf(fs2, w[i])
        /\ After(fs2, w[i]) = After(fs, w[i])
        /\ w[i][1] \in 1 .. Len(fs) /\ w[i][2] \in Nat
  BY <1>4, AfterIs, UnitIs, ItemsAre DEF InOrder
<1>6. \A i \in 1 .. Len(w) + f.len : i > Len(w) =>
        /\ w2[i][1] = Len(fs) + 1 /\ w2[i][2] = i - Len(w)
        /\ i - Len(w) \in 1 .. f.len /\ i - Len(w) \in Nat /\ i \in Nat
  <2> SUFFICES ASSUME NEW i \in 1 .. Len(w) + f.len, i > Len(w)
               PROVE  /\ w2[i][1] = Len(fs) + 1 /\ w2[i][2] = i - Len(w)
                      /\ i - Len(w) \in 1 .. f.len /\ i - Len(w) \in Nat /\ i \in Nat
    OBVIOUS
  <2>1. i - Len(w) \in 1 .. f.len /\ w2[i] = u[i - Len(w)]
    BY <1>4
  <2>2. u[i - Len(w)][1] = Len(fs) + 1 /\ u[i - Len(w)][2] = i - Len(w)
    BY <1>3, <2>1
  <2> QED
    BY <1>1, <2>1, <2>2
<1>7. \A i \in 1 .. Len(w) + f.len : ~(i > Len(w)) => i \in 1 .. Len(w) /\ w2[i] = w[i]
  BY <1>1, <1>4
<1> HIDE DEF fs2
<1>8. \A i \in DOMAIN w2 : IsOf(fs2, w2[i])
  <2> SUFFICES ASSUME NEW i \in 1 .. Len(w) + f.len PROVE IsOf(fs2, w2[i])
    BY <1>4
  <2>1. CASE i > Len(w)
    BY <1>1, <1>6, <2>1 DEF IsOf
  <2>2. CASE ~(i > Len(w))
    BY <1>5, <1>7, <2>2
  <2> QED
    BY <2>1, <2>2
<1>9. ASSUME NEW i \in DOMAIN w2, NEW j \in DOMAIN w2, i <= j
      PROVE  /\ w2[i][1] <= w2[j][1]
             /\ w2[i][1] = w2[j][1] => w2[j][2] = w2[i][2] + (j - i)
  <2>1. CASE j > Len(w) /\ i > Len(w)
    <3>1. /\ w2[i][1] = Len(fs) + 1 /\ w2[i][2] = i - Len(w) /\ i \in Nat
          /\ w2[j][1] = Len(fs) + 1 /\ w2[j][2] = j - Len(w) /\ j \in Nat
      BY <1>4, <1>6, <2>1
    <3>2. j - Len(w) = i - Len(w) + (j - i)
      BY <1>4, <3>1
    <3> QED
      BY <1>1, <3>1, <3>2
  <2>2. CASE j > Len(w) /\ ~(i > Len(w))
    <3>1. w2[j][1] = Len(fs) + 1 /\ i \in 1 .. Len(w) /\ w2[i] = w[i]
      BY <1>4, <1>6, <1>7, <2>2
    <3>2. w2[i][1] \in 1 .. Len(fs)
      BY <1>5, <3>1
    <3> QED
      BY <1>1, <3>1, <3>2, Below
  <2>3. CASE ~(j > Len(w))
    <3>1. i \in 1 .. Len(w) /\ j \in 1 .. Len(w) /\ w2[i] = w[i] /\ w2[j] = w[j]
      BY <1>1, <1>4, <1>7, <1>9, <2>3
    <3> QED
      BY <1>4, <1>9, <3>1 DEF InOrder
  <2> QED
    BY <2>1, <2>2, <2>3
<1>10. w # <<>> => Len(w) \in 1 .. Len(w) /\ After(fs, w[Len(w)]) = <<Len(fs) + 1, 1>>
  BY <1>4, ItemsAre DEF InOrder
<1>11. ASSUME NEW i \in DOMAIN w2, NEW j \in DOMAIN w2, j = i + 1
       PROVE  w2[j] = After(fs2, w2[i])
  <2>1. i \in 1 .. Len(w) + f.len /\ j \in 1 .. Len(w) + f.len
    BY <1>4
  <2>2. CASE i > Len(w)
    <3>1. /\ j > Len(w) /\ i - Len(w) < f.len
          /\ j - Len(w) = i - Len(w) + 1
      BY SMTT(30), <1>1, <1>4, <1>11, <2>1, <2>2, Beyond
    <3>2. w2[j] = u[j - Len(w)] /\ j - Len(w) \in 1 .. f.len
      BY <1>4, <2>1, <3>1
    <3>3. w2[j] = <<Len(fs) + 1, i - Len(w) + 1>>
      BY <1>2, <3>1, <3>2
    <3>4. w2[i][1] = Len(fs) + 1 /\ w2[i][2] = i - Len(w)
      BY <1>6, <2>1, <2>2
    <3> QED
      BY <1>1, <3>1, <3>3, <3>4 DEF After
  <2>3. CASE ~(i > Len(w))
    <3>1. i \in 1 .. Len(w) /\ w2[i] = w[i]
      BY <1>7, <2>1, <2>3
    <3>2. CASE j > Len(w)
      <4>1. i = Len(w) /\ w # <<>> /\ j - Len(w) = 1 /\ 1 \in 1 .. f.len
        BY <1>1, <1>4, <1>11, <3>1, <3>2
      <4>2. w2[j] = <<Len(fs) + 1, 1>>
        BY <1>2, <1>4, <2>1, <3>2, <4>1
      <4> QED
        BY <1>5, <1>10, <3>1, <4>1, <4>2
    <3>3. CASE ~(j > Len(w))
      <4>1. j \in 1 .. Len(w) /\ w2[j] = w[j]
        BY <1>7, <2>1, <3>3
      <4>2. w[j] = After(fs, w[i])
        BY <1>4, <1>11, <3>1, <4>1 DEF InOrder
      <4> QED
        BY <1>5, <3>1, <4>1, <4>2
    <3> QED
      BY <3>2, <3>3
  <2> QED
    BY <2>2, <2>3
<1>12. After(fs2, LastOf(w2)) = <<Len(fs2) + 1, 1>> /\ w2 # <<>>
  <2>1. ASSUME NEW n \in 1 .. Len(w) + f.len, n = Len(w2)
        PROVE  After(fs2, w2[n]) = <<Len(fs2) + 1, 1>>
    <3>1. n > Len(w) /\ n - Len(w) = f.len
      BY <1>1, <1>4, <2>1
    <3>2. w2[n][1] = Len(fs) + 1 /\ w2[n][2] = f.len
      BY <1>6, <3>1
    <3>3. ~(f.len < f.len) /\ Len(fs) + 1 + 1 = Len(fs2) + 1
      BY <1>1
    <3> QED
      BY <1>1, <3>2, <3>3 DEF After
  <2>2. Len(w2) \in 1 .. Len(w) + f.len /\ w2 # <<>>
    <3>1. Len(w2) # 0 /\ Len(w2) \in 1 .. Len(w) + f.len
      BY <1>1, <1>4
    <3> QED
      BY <1>4, <3>1, EmptyIs
  <2> QED
    BY <2>1, <2>2 DEF LastOf
<1>13. InOrder(fs2, w2)
  BY <1>8, <1>9, <1>11, <1>12 DEF InOrder
<1>14. w2[1] = IF w = <<>> THEN <<Len(fs) + 1, 1>> ELSE w[1]
  <2>1. CASE w = <<>>
    BY <1>1, <1>2, <1>4, <2>1
  <2>2. CASE w # <<>>
    BY <1>4, <2>2
  <2> QED
    BY <2>1, <2>2
<1> QED
  BY <1>4, <1>12, <1>13, <1>14 DEF fs2, w2, u

LEMMA SegmentIs ==
  ASSUME NEW fs \in Seq(Frame), NEW g \in Seq(Unit), OfOne(fs, g)
  PROVE  /\ Len(g) \in Nat \ {0} /\ DOMAIN g = 1 .. Len(g) /\ LastOf(g) \in Unit
         /\ IsOf(fs, g[1]) /\ IsOf(fs, LastOf(g))
         /\ LastOf(g) = <<g[1][1], g[1][2] + Len(g) - 1>>
<1>1. Len(g) \in Nat /\ DOMAIN g = 1 .. Len(g) /\ g # <<>>
  BY ItemsAre DEF OfOne
<1>2. Len(g) \in 1 .. Len(g) /\ 1 \in 1 .. Len(g) /\ LastOf(g) = g[Len(g)]
  BY <1>1, ItemsAre
<1>3. \A i \in 1 .. Len(g) : g[i] \in Unit
  BY ItemsAre
<1> QED
  BY <1>1, <1>2, <1>3 DEF OfOne

LEMMA OfOneSame ==
  ASSUME NEW fs \in Seq(Frame), NEW f \in Frame, NEW g \in Seq(Unit), OfOne(fs, g)
  PROVE  OfOne(Append(fs, f), g)
<1>1. \A i \in DOMAIN g : g[i] \in Unit
  BY ItemsAre
<1> QED
  BY <1>1, AfterIs DEF OfOne

LEMMA RestSent ==
  ASSUME NEW fs \in Seq(Frame), NEW f \in Frame, NEW gs \in Seq(Seq(Unit)),
         NEW w \in Seq(Unit), InOrder(fs, w), NEW e, Rest(fs, gs, w, e)
  PROVE  Rest(Append(fs, f), gs, w \o UnitsOf(Len(fs) + 1, f.len), e)
<1> DEFINE w2 == w \o UnitsOf(Len(fs) + 1, f.len)
<1> DEFINE fs2 == Append(fs, f)
<1>1. w2 # <<>> /\ w2[1] = IF w = <<>> THEN <<Len(fs) + 1, 1>> ELSE w[1]
  BY FrameSent
<1> HIDE DEF w2
<1>2. \A i \in DOMAIN gs : gs[i] \in Seq(Unit)
  BY ItemsAre
<1>3. \A i \in DOMAIN gs : OfOne(fs, gs[i]) /\ OfOne(fs2, gs[i])
  BY <1>2, OfOneSame DEF Rest
<1>4. \A i \in DOMAIN gs : After(fs2, LastOf(gs[i])) = After(fs, LastOf(gs[i]))
  BY <1>2, <1>3, SegmentIs, AfterIs
<1> HIDE DEF fs2
<1>5. \A i, j \in DOMAIN gs : j = i + 1 => gs[j][1] = After(fs2, LastOf(gs[i]))
  BY <1>4 DEF Rest
<1>6. gs # <<>> => LastOf(gs) = gs[Len(gs)] /\ Len(gs) \in DOMAIN gs
  BY ItemsAre
<1>7. gs # <<>> => After(fs2, LastOf(LastOf(gs))) = After(fs, LastOf(LastOf(gs)))
  BY <1>4, <1>6
<1>8. w2[1] = IF gs = <<>> THEN e ELSE After(fs2, LastOf(LastOf(gs)))
  BY <1>1, <1>7 DEF Rest
<1>9. gs # <<>> => gs[1][1] = e
  BY DEF Rest
<1>10. Rest(fs2, gs, w2, e)
  BY <1>1, <1>3, <1>5, <1>8, <1>9 DEF Rest
<1> QED
  BY <1>10 DEF fs2, w2

\* The first n units under way arrive.
LEMMA Arrived ==
  ASSUME NEW fs \in Seq(Frame), NEW w \in Seq(Unit), InOrder(fs, w),
         NEW n \in 1 .. Len(w)
  PROVE  /\ InOrder(fs, SubSeq(w, n + 1, Len(w)))
         /\ SubSeq(w, 1, n) # <<>> /\ LastOf(SubSeq(w, 1, n)) = w[n]
         /\ \A i \in DOMAIN SubSeq(w, 1, n) : IsOf(fs, SubSeq(w, 1, n)[i])
         /\ w[1][1] = w[n][1] => OfOne(fs, SubSeq(w, 1, n))
<1> DEFINE g == SubSeq(w, 1, n)
<1> DEFINE v == SubSeq(w, n + 1, Len(w))
<1>1. /\ g \in Seq(Unit) /\ Len(g) = n /\ DOMAIN g = 1 .. n
      /\ \A i \in 1 .. n : g[i] = w[i]
      /\ n \in Nat /\ Len(w) \in Nat /\ DOMAIN w = 1 .. Len(w)
  BY Split
<1>2. /\ v \in Seq(Unit) /\ Len(v) = Len(w) - n /\ DOMAIN v = 1 .. Len(w) - n
      /\ \A i \in 1 .. Len(w) - n : v[i] = w[n + i]
  BY Split
<1> HIDE DEF g, v
<1>3. \A i \in 1 .. Len(w) : /\ w[i] \in Unit /\ IsOf(fs, w[i])
                             /\ w[i][1] \in Nat /\ w[i][2] \in Nat
  BY <1>1, ItemsAre, UnitIs DEF InOrder
<1>4. \A i \in 1 .. n : i \in 1 .. Len(w)
  BY <1>1
<1>5. g # <<>> /\ LastOf(g) = w[n]
  <2>1. Len(g) # 0
    BY <1>1
  <2> QED
    BY <1>1, <2>1, EmptyIs DEF LastOf
<1>6. \A i \in DOMAIN g : IsOf(fs, g[i])
  BY <1>1, <1>3, <1>4
<1>7. ASSUME w[1][1] = w[n][1] PROVE OfOne(fs, g)
  <2>1. ASSUME NEW i \in 1 .. n PROVE g[i] = <<g[1][1], g[1][2] + i - 1>>
    <3>1. 1 \in 1 .. Len(w) /\ i \in 1 .. Len(w) /\ n \in 1 .. Len(w) /\ 1 <= i /\ i <= n
          /\ 1 \in 1 .. n
      BY <1>1
    <3>2. w[1][1] <= w[i][1] /\ w[i][1] <= w[n][1]
      BY <1>1, <3>1 DEF InOrder
    <3>3. w[i][1] = w[1][1]
      BY <1>3, <1>7, <3>1, <3>2
    <3>4. w[i][2] = w[1][2] + (i - 1)
      BY <1>1, <3>1, <3>3 DEF InOrder
    <3>5. w[1][2] + (i - 1) = w[1][2] + i - 1
      BY <1>3, <3>1
    <3>6. w[i] = <<w[1][1], w[1][2] + i - 1>>
      BY <1>3, <3>1, <3>3, <3>4, <3>5, UnitIs
    <3> QED
      BY <1>1, <3>1, <3>6
  <2> QED
    BY <1>1, <1>5, <1>6, <2>1 DEF OfOne
<1>8. InOrder(fs, v)
  <2>1. \A i \in 1 .. Len(w) - n : /\ n + i \in 1 .. Len(w) /\ v[i] = w[n + i]
                                   /\ i \in Nat /\ n + i \in Nat
    BY <1>1, <1>2
  <2>2. \A i \in DOMAIN v : IsOf(fs, v[i])
    BY <1>2, <1>3, <2>1
  <2>3. ASSUME NEW i \in DOMAIN v, NEW j \in DOMAIN v, i <= j
        PROVE  /\ v[i][1] <= v[j][1]
               /\ v[i][1] = v[j][1] => v[j][2] = v[i][2] + (j - i)
    <3>1. n + i \in 1 .. Len(w) /\ v[i] = w[n + i] /\ n + j \in 1 .. Len(w) /\ v[j] = w[n + j]
      BY <1>2, <2>1
    <3>2. n + i <= n + j /\ (n + j) - (n + i) = j - i
      BY <1>1, <1>2, <2>3
    <3> QED
      BY <1>1, <3>1, <3>2 DEF InOrder
  <2>4. ASSUME NEW i \in DOMAIN v, NEW j \in DOMAIN v, j = i + 1
        PROVE  v[j] = After(fs, v[i])
    <3>1. n + i \in 1 .. Len(w) /\ v[i] = w[n + i] /\ n + j \in 1 .. Len(w) /\ v[j] = w[n + j]
      BY <1>2, <2>1
    <3>2. n + j = (n + i) + 1
      BY <1>1, <1>2, <2>4
    <3> QED
      BY <1>1, <3>1, <3>2 DEF InOrder
  <2>5. ASSUME v # <<>> PROVE After(fs, LastOf(v)) = <<Len(fs) + 1, 1>>
    <3>1. Len(v) \in 1 .. Len(w) - n /\ LastOf(v) = v[Len(v)] /\ n + Len(v) = Len(w)
      <4>1. Len(v) \in 1 .. Len(v) /\ LastOf(v) = v[Len(v)]
        BY <1>2, <2>5, ItemsAre
      <4>2. n + (Len(w) - n) = Len(w)
        BY <1>1
      <4> QED
        BY <1>2, <4>1, <4>2
    <3>2. LastOf(v) = w[Len(w)] /\ Len(w) \in 1 .. Len(w)
      BY <1>2, <3>1, <2>1
    <3>3. w # <<>>
      BY <1>1, <3>2, EmptyIs
    <3> QED
      BY <3>2, <3>3 DEF InOrder, LastOf
  <2> QED
    BY <2>2, <2>3, <2>4, <2>5 DEF InOrder
<1> QED
  BY <1>5, <1>6, <1>7, <1>8 DEF g, v

\* A segment with units of one frame is behind those before.
LEMMA RestArrived ==
  ASSUME NEW fs \in Seq(Frame), NEW gs \in Seq(Seq(Unit)), NEW w \in Seq(Unit),
         InOrder(fs, w), NEW e, Rest(fs, gs, w, e), NEW n \in 1 .. Len(w),
         w[1][1] = w[n][1]
  PROVE  Rest(fs, Append(gs, SubSeq(w, 1, n)), SubSeq(w, n + 1, Len(w)), e)
<1> DEFINE g == SubSeq(w, 1, n)
<1> DEFINE v == SubSeq(w, n + 1, Len(w))
<1> DEFINE gs2 == Append(gs, g)
<1>1. /\ g \in Seq(Unit) /\ v \in Seq(Unit)
      /\ Len(v) = Len(w) - n /\ (\A i \in 1 .. Len(w) - n : v[i] = w[n + i])
      /\ g[1] = w[1]
      /\ n \in Nat /\ Len(w) \in Nat /\ DOMAIN w = 1 .. Len(w) /\ 1 \in 1 .. Len(w)
      /\ n \in 1 .. Len(w)
  <2>1. 1 \in 1 .. n /\ 1 \in 1 .. Len(w)
    BY Split
  <2> QED
    BY <2>1, Split
<1>2. OfOne(fs, g) /\ g # <<>> /\ LastOf(g) = w[n]
  BY Arrived
<1> HIDE DEF g, v
<1>3. /\ Len(gs) \in Nat /\ DOMAIN gs = 1 .. Len(gs)
      /\ gs2 \in Seq(Seq(Unit)) /\ gs2 # <<>>
      /\ Len(gs2) = Len(gs) + 1 /\ DOMAIN gs2 = 1 .. Len(gs) + 1
      /\ \A i \in 1 .. Len(gs) : gs2[i] = gs[i]
      /\ gs2[Len(gs) + 1] = g
  <2>1. g \in Seq(Unit)
    BY <1>1
  <2>2. /\ Len(gs) \in Nat /\ DOMAIN gs = 1 .. Len(gs)
        /\ gs2 \in Seq(Seq(Unit)) /\ gs2 # <<>>
        /\ Len(gs2) = Len(gs) + 1 /\ DOMAIN gs2 = 1 .. Len(gs) + 1
    BY SMTT(30), <2>1, Appended
  <2>3. \A i \in 1 .. Len(gs) : gs2[i] = gs[i]
    BY <2>1
  <2>4. gs2[Len(gs) + 1] = g
    BY <2>1
  <2> QED
    BY <2>2, <2>3, <2>4
<1> HIDE DEF gs2
<1>4. \A i \in 1 .. Len(gs) + 1 : i # Len(gs) + 1 => i \in 1 .. Len(gs) /\ gs2[i] = gs[i]
  BY <1>3
<1>5. w # <<>> /\ w[1] = IF gs = <<>> THEN e ELSE After(fs, LastOf(LastOf(gs)))
  <2>1. w # <<>>
    BY <1>1, EmptyIs
  <2> QED
    BY <2>1 DEF Rest
<1>6. \A i \in DOMAIN gs2 : OfOne(fs, gs2[i])
  BY <1>2, <1>3, <1>4 DEF Rest
<1>7. gs2[1][1] = e
  <2>1. CASE gs = <<>>
    <3>1. gs2[1] = g
      BY <1>3, <2>1
    <3> QED
      BY <1>1, <1>5, <2>1, <3>1
  <2>2. CASE gs # <<>>
    <3>1. 1 \in 1 .. Len(gs)
      BY <2>2, ItemsAre
    <3> QED
      BY <1>3, <2>2, <3>1 DEF Rest
  <2> QED
    BY <2>1, <2>2
<1>8. ASSUME NEW i \in DOMAIN gs2, NEW j \in DOMAIN gs2, j = i + 1
      PROVE  gs2[j][1] = After(fs, LastOf(gs2[i]))
  <2>1. i # Len(gs) + 1
    BY <1>3, <1>8
  <2>2. i \in 1 .. Len(gs) /\ gs2[i] = gs[i]
    BY <1>3, <1>4, <2>1
  <2>3. CASE j = Len(gs) + 1
    <3>1. i = Len(gs) /\ gs # <<>>
      BY <1>3, <1>8, <2>2, <2>3
    <3>2. gs2[j][1] = w[1] /\ LastOf(gs2[i]) = LastOf(LastOf(gs))
      BY <1>1, <1>3, <2>2, <2>3, <3>1 DEF LastOf
    <3> QED
      BY <1>5, <3>1, <3>2
  <2>4. CASE j # Len(gs) + 1
    <3>1. j \in 1 .. Len(gs) /\ gs2[j] = gs[j]
      BY <1>3, <1>4, <2>4
    <3> QED
      BY <1>3, <1>8, <2>2, <3>1 DEF Rest
  <2> QED
    BY <2>3, <2>4
<1>9. LastOf(LastOf(gs2)) = w[n]
  BY <1>2, <1>3 DEF LastOf
<1>10. (IF v = <<>> THEN <<Len(fs) + 1, 1>> ELSE v[1]) = After(fs, w[n])
  <2>1. CASE v = <<>>
    <3>1. Len(v) = 0
      BY <2>1
    <3>2. n = Len(w)
      BY <1>1, <3>1, NoneLeft
    <3> QED
      BY <1>5, <2>1, <3>2 DEF InOrder, LastOf
  <2>2. CASE v # <<>>
    <3>1. Len(v) \in Nat /\ Len(v) # 0
      BY <1>1, <2>2, EmptyIs
    <3>2. 1 \in 1 .. Len(w) - n /\ n + 1 \in 1 .. Len(w)
      BY <1>1, <3>1
    <3>3. v[1] = w[n + 1]
      BY <1>1, <3>2
    <3>4. w[n + 1] = After(fs, w[n])
      BY <1>1, <3>2 DEF InOrder
    <3> QED
      BY <2>2, <3>3, <3>4
  <2> QED
    BY <2>1, <2>2
<1>11. Rest(fs, gs2, v, e)
  BY <1>3, <1>6, <1>7, <1>8, <1>9, <1>10 DEF Rest
<1> QED
  BY <1>11 DEF gs2, g, v

\* The first segment is taken.
LEMMA RestTaken ==
  ASSUME NEW fs \in Seq(Frame), NEW gs \in Seq(Seq(Unit)), gs # <<>>,
         NEW w, NEW e, Rest(fs, gs, w, e)
  PROVE  /\ OfOne(fs, Head(gs)) /\ Head(gs) \in Seq(Unit) /\ Head(gs)[1] = e
         /\ Rest(fs, Tail(gs), w, After(fs, LastOf(Head(gs))))
<1> DEFINE t == Tail(gs)
<1> DEFINE g == Head(gs)
<1>1. /\ t \in Seq(Seq(Unit)) /\ g \in Seq(Unit) /\ g = gs[1]
      /\ Len(gs) \in Nat \ {0} /\ DOMAIN gs = 1 .. Len(gs)
      /\ Len(t) = Len(gs) - 1 /\ DOMAIN t = 1 .. Len(gs) - 1
      /\ \A i \in 1 .. Len(gs) - 1 : t[i] = gs[i + 1]
  BY Tailed
<1> HIDE DEF t, g
<1>2. \A i \in DOMAIN t : i \in 1 .. Len(gs) /\ i + 1 \in 1 .. Len(gs) /\ t[i] = gs[i + 1]
  BY SMTT(30), <1>1
<1>3. OfOne(fs, g) /\ g[1] = e
  <2>1. 1 \in DOMAIN gs
    BY <1>1
  <2> QED
    BY <1>1, <2>1 DEF Rest
<1>4. \A i \in DOMAIN t : OfOne(fs, t[i])
  BY <1>1, <1>2 DEF Rest
<1>5. ASSUME NEW i \in DOMAIN t, NEW j \in DOMAIN t, j = i + 1
      PROVE  t[j][1] = After(fs, LastOf(t[i]))
  <2>1. PICK m \in DOMAIN gs, n \in DOMAIN gs : t[i] = gs[m] /\ t[j] = gs[n] /\ n = m + 1
    BY <1>1, <1>2, <1>5
  <2> QED
    BY <2>1 DEF Rest
<1>6. t # <<>> => 1 \in DOMAIN t /\ t[1] = gs[2] /\ 1 \in DOMAIN gs /\ 2 \in DOMAIN gs
  <2> SUFFICES ASSUME t # <<>>
               PROVE  1 \in DOMAIN t /\ t[1] = gs[2] /\ 1 \in DOMAIN gs /\ 2 \in DOMAIN gs
    OBVIOUS
  <2>1. 1 \in DOMAIN t
    BY <1>1, ItemsAre
  <2>2. 1 + 1 = 2 /\ 1 + 1 \in 1 .. Len(gs)
    BY <1>2, <2>1
  <2> QED
    BY <1>1, <1>2, <2>1, <2>2
<1>7. t # <<>> => t[1][1] = After(fs, LastOf(g))
  <2>1. 2 = 1 + 1
    OBVIOUS
  <2> QED
    BY <1>1, <1>6, <2>1 DEF Rest
<1>8. IF t = <<>> THEN LastOf(gs) = g ELSE LastOf(gs) = LastOf(t)
  <2>1. CASE t = <<>>
    <3>1. Len(t) = 0
      BY <2>1
    <3>2. Len(gs) = 1
      BY <1>1, <3>1, NoneLeft
    <3> QED
      BY <1>1, <2>1, <3>2 DEF LastOf
  <2>2. CASE t # <<>>
    <3>1. Len(t) \in DOMAIN t /\ LastOf(t) = t[Len(t)]
      BY <1>1, <2>2, ItemsAre
    <3>2. Len(t) + 1 = Len(gs)
      BY <1>1
    <3>3. t[Len(t)] = gs[Len(t) + 1]
      BY <1>2, <3>1
    <3> QED
      BY <2>2, <3>1, <3>2, <3>3 DEF LastOf
  <2> QED
    BY <2>1, <2>2
<1>9. (IF w = <<>> THEN <<Len(fs) + 1, 1>> ELSE w[1]) =
         (IF t = <<>> THEN After(fs, LastOf(g)) ELSE After(fs, LastOf(LastOf(t))))
  <2>1. (IF w = <<>> THEN <<Len(fs) + 1, 1>> ELSE w[1]) = After(fs, LastOf(LastOf(gs)))
    BY DEF Rest
  <2> QED
    BY <1>8, <2>1
<1>10. Rest(fs, t, w, After(fs, LastOf(g)))
  BY <1>4, <1>5, <1>7, <1>9 DEF Rest
<1> QED
  BY <1>1, <1>3, <1>10 DEF t, g

\* A segment that goes on with the frame k + 1, of which b units were read.
GoesOnAt(g, k, b) == g[1] = <<k + 1, b + 1>>

LEMMA GoesOn ==
  ASSUME NEW fs \in Seq(Frame), NEW g \in Seq(Unit), OfOne(fs, g),
         NEW k \in Nat, NEW b \in Nat, GoesOnAt(g, k, b)
  PROVE  /\ k + 1 \in DOMAIN fs /\ fs[k + 1] \in Frame
         /\ Len(g) \in Nat \ {0} /\ b + Len(g) <= fs[k + 1].len
         /\ \A i \in 1 .. Len(g) : g[i] = <<k + 1, b + i>>
         /\ After(fs, LastOf(g)) =
              IF b + Len(g) < fs[k + 1].len THEN <<k + 1, b + Len(g) + 1>>
              ELSE <<k + 1 + 1, 1>>
<1>1. /\ Len(g) \in Nat \ {0} /\ DOMAIN g = 1 .. Len(g) /\ IsOf(fs, LastOf(g))
      /\ LastOf(g) = <<g[1][1], g[1][2] + Len(g) - 1>>
  BY SegmentIs
<1>2. LastOf(g) = <<k + 1, b + Len(g)>>
  <2>1. b + 1 + Len(g) - 1 = b + Len(g)
    BY <1>1
  <2> QED
    BY <1>1, <2>1 DEF GoesOnAt
<1>3. k + 1 \in DOMAIN fs /\ fs[k + 1] \in Frame /\ b + Len(g) <= fs[k + 1].len
  <2>1. LastOf(g)[1] = k + 1 /\ LastOf(g)[2] = b + Len(g)
    BY <1>2
  <2>2. k + 1 \in DOMAIN fs /\ b + Len(g) <= fs[k + 1].len
    BY <1>1, <2>1 DEF IsOf
  <2> QED
    BY <2>2, ItemsAre
<1>4. ASSUME NEW i \in 1 .. Len(g) PROVE g[i] = <<k + 1, b + i>>
  <2>1. g[i] = <<g[1][1], g[1][2] + i - 1>>
    BY <1>1 DEF OfOne
  <2>2. b + 1 + i - 1 = b + i
    OBVIOUS
  <2> QED
    BY <2>1, <2>2 DEF GoesOnAt
<1>5. After(fs, LastOf(g)) =
        IF b + Len(g) < fs[k + 1].len THEN <<k + 1, b + Len(g) + 1>>
        ELSE <<k + 1 + 1, 1>>
  <2>1. LastOf(g)[1] = k + 1 /\ LastOf(g)[2] = b + Len(g)
    BY <1>2
  <2> QED
    BY <2>1 DEF After
<1> QED
  BY <1>1, <1>3, <1>4, <1>5

-----------------------------------------------------------------------------
(* The places of the clients *)

LEMMA FirstIs ==
  ASSUME NEW S \in SUBSET Slot, S # {}
  PROVE  First(S) \in S /\ \A t \in S : First(S) <= t
<1>1. S \subseteq Nat
  BY SizeAssumption DEF Slot
<1>2. \E x \in S : \A y \in S : ~ (<<y, x>> \in OpToRel(<, Nat))
  BY <1>1, NatLessThanWellFounded, WFMin
<1>3. \E x \in S : \A y \in S : ~ (y < x)
  BY <1>1, <1>2, Zenon DEF OpToRel
<1>4. \E x \in S : \A y \in S : x <= y
  BY <1>1, <1>3
<1> QED
  BY <1>4 DEF First

LEMMA ClientOfIs ==
  ASSUME TypeOK, NEW c, Listed(c)
  PROVE  ClientOf(c) \in Slot /\ clients[ClientOf(c)].conn = c
<1> DEFINE S == {s \in Slot : clients[s].conn = c}
<1>1. S \in SUBSET Slot /\ S # {}
  BY DEF Listed
<1>2. First(S) \in S
  BY <1>1, FirstIs
<1> QED
  BY <1>2 DEF ClientOf

LEMMA SetsAre ==
  /\ Clients \in Nat \ {0} /\ QueueSize \in Nat \ {0} /\ RingRoom \in Nat \ {0}
  /\ MaxFrames \in Nat /\ NoConn \notin Conn
BY SizeAssumption, BoundAssumption, ConnAssumption

-----------------------------------------------------------------------------
(* The initial states *)

LEMMA InitHolds == Init => Inv
<1> SUFFICES ASSUME Init PROVE Inv
  OBVIOUS
<1>1. /\ sent = [c \in Conn |-> <<>>] /\ wire = sent /\ inbox = sent /\ told = sent
      /\ net = [c \in Conn |-> "unused"] /\ clients = [s \in Slot |-> NoClient]
      /\ \A c \in Conn : sent[c] = <<>> /\ net[c] = "unused"
      /\ \A s \in Slot : clients[s].conn = NoConn
  BY DEF Init, NoClient
<1>2. \A c \in Conn : ~Listed(c)
  BY <1>1, SetsAre DEF Listed
<1>3. TypeOK
  <2>1. /\ <<>> \in Seq(Frame) /\ <<>> \in Units /\ <<>> \in Seq(Units)
        /\ <<>> \in Seq(0 .. MaxFrames) /\ <<>> \in Seq(Conn) /\ Len(<<>>) = 0
    BY DEF Units
  <2>2. /\ net \in [Conn -> {"unused", "accepted", "open"}]
        /\ sent \in [Conn -> Seq(Frame)] /\ wire \in [Conn -> Units]
        /\ inbox \in [Conn -> Seq(Units)] /\ told \in [Conn -> Seq(0 .. MaxFrames)]
    BY <1>1, <2>1
  <2>3. {closed, dropped, joined, late, lost} \subseteq [Conn -> BOOLEAN]
    BY DEF Init
  <2>4. clients \in [Slot -> Client]
    BY <1>1 DEF NoClient, Client, Op
  <2>5. /\ client_queue \in Seq(Conn) /\ adding \in Conn \cup {NoConn}
        /\ queue \in Seq(Conn) /\ Len(queue) <= QueueSize /\ ring \in 0 .. RingRoom
        /\ mutex = "free" /\ server = "idle"
    BY <2>1, SetsAre DEF Init
  <2> QED
    BY <1>1, <1>2, <2>2, <2>3, <2>4, <2>5 DEF TypeOK
<1>4. LockInv
  BY SetsAre DEF Init, LockInv
<1>5. AcceptInv
  BY <1>1 DEF Init, AcceptInv
<1>6. UnitInv
  <2>1. \A c \in Conn : sent[c] = <<>> /\ wire[c] = <<>> /\ inbox[c] = <<>>
    BY <1>1
  <2>2. InOrder(<<>>, <<>>)
    BY DEF InOrder
  <2> QED
    BY <2>1, <2>2, SetsAre DEF Init, UnitInv
<1>7. ReadInv /\ Delivery
  BY <1>1 DEF Init, ReadInv, Delivery, DeliveryOf
<1> QED
  BY <1>3, <1>4, <1>5, <1>6, <1>7 DEF Inv

-----------------------------------------------------------------------------
(* Steps that leave the network alone *)

\* What a step leaves alone stays delivered.
LEMMA DeliveredSame ==
  ASSUME NEW c \in Conn, DeliveryOf(c),
         sent'[c] = sent[c], told'[c] = told[c], inbox'[c] = inbox[c],
         wire'[c] = wire[c], net'[c] = "open" => net[c] = "open",
         Excused(c) => Excused(c)',
         server' # "gone" =>
           /\ server # "gone" /\ Reading(c)' = Reading(c)
           /\ Reading(c) => header' = header /\ read' = read
  PROVE  DeliveryOf(c)'
<1> SUFFICES ASSUME net'[c] = "open", ~Excused(c)'
             PROVE  \E k \in Nat : Delivered(c, k)'
  BY DEF DeliveryOf
<1>1. PICK k \in Nat : Delivered(c, k)
  BY DEF DeliveryOf
<1>2. k \in 0 .. Len(sent'[c]) /\ ToldOf(sent'[c], told'[c], k)
  BY <1>1 DEF Delivered
<1>3. ASSUME server' # "gone"
      PROVE  IF Reading(c)'
               THEN /\ ReadOf(sent'[c], header', read', k)
                    /\ Rest(sent'[c], inbox'[c], wire'[c], <<k + 1, Len(read') + 1>>)
               ELSE Rest(sent'[c], inbox'[c], wire'[c], <<k + 1, 1>>)
  <2>1. CASE Reading(c)
    BY <1>1, <1>3, <2>1 DEF Delivered
  <2>2. CASE ~Reading(c)
    BY <1>1, <1>3, <2>2 DEF Delivered
  <2> QED
    BY <2>1, <2>2
<1>4. Delivered(c, k)'
  BY <1>2, <1>3 DEF Delivered
<1> QED
  BY <1>4

LEMMA TakeEventKeeps ==
  ASSUME Inv, TakeEvent
  PROVE  Inv'
<1>1. /\ conn' \in Conn /\ queue' \in Seq(Conn) /\ Len(queue') <= QueueSize
      /\ server = "idle" /\ server' = "event"
      /\ UNCHANGED <<net, sent, wire, inbox, closed, client_queue, adding, mutex,
                     clients, num, header, read, ring, told, dropped, joined, late,
                     lost, connects, frames, calls>>
  <2>1. queue \in Seq(Conn) /\ Len(queue) <= QueueSize /\ queue # <<>>
    BY DEF Inv, TypeOK, TakeEvent
  <2>2. Head(queue) \in Conn /\ Tail(queue) \in Seq(Conn) /\ Len(Tail(queue)) = Len(queue) - 1
        /\ Len(queue) \in Nat
    BY <2>1, Tailed
  <2> QED
    BY <2>1, <2>2, SetsAre
       DEF TakeEvent, network, adder, frame, counters, outcome, excuses
<1>2. \A c : Listed(c)' = Listed(c)
  BY <1>1 DEF Listed
<1>3. TypeOK'
  BY <1>1, <1>2 DEF Inv, TypeOK
<1>4. LockInv'
  BY <1>1 DEF Inv, LockInv
<1>5. AcceptInv' /\ UnitInv' /\ ReadInv'
  BY <1>1 DEF Inv, AcceptInv, UnitInv, ReadInv
<1>6. Delivery'
  <2> SUFFICES ASSUME NEW c \in Conn PROVE DeliveryOf(c)'
    BY DEF Delivery
  <2>1. Excused(c)' = Excused(c) /\ Reading(c)' = Reading(c) /\ ~Reading(c)
    BY <1>1 DEF Excused, Reading
  <2> QED
    BY <1>1, <2>1, DeliveredSame DEF Inv, Delivery
<1> QED
  BY <1>3, <1>4, <1>5, <1>6 DEF Inv

LEMMA SameConns ==
  ASSUME \A s \in Slot : clients'[s].conn = clients[s].conn
  PROVE  \A c : Listed(c)' = Listed(c)
BY DEF Listed

\* Only what a client has left unread changes.
LEMMA Unread ==
  ASSUME NEW cs \in [Slot -> Client], NEW n \in Slot, NEW m \in Nat
  PROVE  /\ [cs EXCEPT ![n].unfinished = m] \in [Slot -> Client]
         /\ \A s \in Slot : [cs EXCEPT ![n].unfinished = m][s].conn = cs[s].conn
<1>1. cs[n] \in Client /\ [cs[n] EXCEPT !.unfinished = m] \in Client
  BY DEF Client
<1>2. [cs[n] EXCEPT !.unfinished = m].conn = cs[n].conn
  BY <1>1 DEF Client
<1> QED
  BY <1>1, <1>2

LEMMA SkipUnknownKeeps ==
  ASSUME Inv, SkipUnknown
  PROVE  Inv'
<1>1. /\ server = "event" /\ server' = "idle" /\ conn' = NoConn
      /\ UNCHANGED <<net, sent, wire, inbox, closed, client_queue, adding, queue, mutex,
                     clients, num, header, read, ring, told, dropped, joined, late,
                     lost, connects, frames, calls>>
  BY DEF SkipUnknown, network, adder, frame, counters, outcome, excuses
<1>2. \A c : Listed(c)' = Listed(c)
  BY <1>1 DEF Listed
<1>3. TypeOK'
  BY <1>1, <1>2 DEF Inv, TypeOK
<1>4. LockInv'
  BY <1>1 DEF Inv, LockInv
<1>5. AcceptInv' /\ UnitInv' /\ ReadInv'
  BY <1>1 DEF Inv, AcceptInv, UnitInv, ReadInv
<1>6. Delivery'
  <2> SUFFICES ASSUME NEW c \in Conn PROVE DeliveryOf(c)'
    BY DEF Delivery
  <2>1. Excused(c)' = Excused(c) /\ Reading(c)' = Reading(c) /\ ~Reading(c)
    BY <1>1 DEF Excused, Reading
  <2> QED
    BY <1>1, <2>1, DeliveredSame DEF Inv, Delivery
<1> QED
  BY <1>3, <1>4, <1>5, <1>6 DEF Inv

LEMMA SkipReadKeeps ==
  ASSUME Inv, SkipRead
  PROVE  Inv'
<1>1. /\ server = "event" /\ server' = "idle" /\ conn' = NoConn
      /\ Listed(conn) /\ clients[ClientOf(conn)].unfinished > 0
      /\ clients' = [clients EXCEPT ![ClientOf(conn)].unfinished = @ - 1]
      /\ UNCHANGED <<net, sent, wire, inbox, closed, client_queue, adding, queue, mutex,
                     num, header, read, ring, told, dropped, joined, late,
                     lost, connects, frames, calls>>
  BY DEF SkipRead, network, adder, frame, counters, outcome, excuses
<1>2. clients' \in [Slot -> Client] /\ \A s \in Slot : clients'[s].conn = clients[s].conn
  <2>1. clients \in [Slot -> Client] /\ ClientOf(conn) \in Slot
    BY <1>1, ClientOfIs DEF Inv, TypeOK
  <2>2. clients[ClientOf(conn)].unfinished \in Nat
    BY <2>1 DEF Client
  <2>3. clients[ClientOf(conn)].unfinished - 1 \in Nat
    BY <1>1, <2>2
  <2> QED
    BY <1>1, <2>1, <2>3, Unread
<1>3. \A c : Listed(c)' = Listed(c)
  BY <1>2, SameConns
<1>4. TypeOK'
  BY <1>1, <1>2, <1>3 DEF Inv, TypeOK
<1>5. LockInv'
  BY <1>1 DEF Inv, LockInv
<1>6. AcceptInv' /\ UnitInv' /\ ReadInv'
  BY <1>1 DEF Inv, AcceptInv, UnitInv, ReadInv
<1>7. Delivery'
  <2> SUFFICES ASSUME NEW c \in Conn PROVE DeliveryOf(c)'
    BY DEF Delivery
  <2>1. Excused(c)' = Excused(c) /\ Reading(c)' = Reading(c) /\ ~Reading(c)
    BY <1>1 DEF Excused, Reading
  <2> QED
    BY <1>1, <2>1, DeliveredSame DEF Inv, Delivery
<1> QED
  BY <1>4, <1>5, <1>6, <1>7 DEF Inv

LEMMA StartReadKeeps ==
  ASSUME Inv, StartRead
  PROVE  Inv'
<1>1. /\ server = "event" /\ server' = "recv" /\ Listed(conn)
      /\ mutex = "free" /\ mutex' = "server" /\ num' = ClientOf(conn)
      /\ UNCHANGED <<net, sent, wire, inbox, closed, client_queue, adding, queue, clients,
                     conn, header, read, ring, told, dropped, joined, late,
                     lost, connects, frames, calls>>
  BY DEF StartRead, network, adder, counters, outcome, excuses
<1>2. num' \in Slot /\ clients'[num'].conn = conn' /\ conn' \in Conn
  <2>1. ClientOf(conn) \in Slot /\ clients[ClientOf(conn)].conn = conn
    BY <1>1, ClientOfIs DEF Inv
  <2> QED
    BY <1>1, <2>1 DEF Inv, LockInv
<1>3. \A c : Listed(c)' = Listed(c)
  BY <1>1 DEF Listed
<1>4. TypeOK'
  BY <1>1, <1>2, <1>3 DEF Inv, TypeOK
<1>5. LockInv'
  BY <1>1, <1>2 DEF Inv, LockInv
<1>6. AcceptInv' /\ UnitInv' /\ ReadInv'
  BY <1>1 DEF Inv, AcceptInv, UnitInv, ReadInv
<1>7. Delivery'
  <2> SUFFICES ASSUME NEW c \in Conn PROVE DeliveryOf(c)'
    BY DEF Delivery
  <2>1. Excused(c)' = Excused(c) /\ Reading(c)' = Reading(c) /\ ~Reading(c)
    BY <1>1 DEF Excused, Reading
  <2> QED
    BY <1>1, <2>1, DeliveredSame DEF Inv, Delivery
<1> QED
  BY <1>4, <1>5, <1>6, <1>7 DEF Inv

LEMMA RecvFailsKeeps ==
  ASSUME Inv, RecvFails
  PROVE  Inv'
<1>1. /\ server = "recv" /\ server' = "idle" /\ conn' = NoConn /\ mutex' = "free"
      /\ UNCHANGED <<net, sent, wire, inbox, closed, client_queue, adding, queue, clients,
                     ring, told, dropped, joined, late, lost, connects, frames, calls>>
  BY DEF RecvFails, Release, network, adder, counters, outcome, excuses
<1>2. \A c : Listed(c)' = Listed(c)
  BY <1>1 DEF Listed
<1>3. TypeOK'
  BY <1>1, <1>2 DEF Inv, TypeOK
<1>4. LockInv'
  BY <1>1 DEF Inv, TypeOK, LockInv
<1>5. AcceptInv' /\ UnitInv' /\ ReadInv'
  BY <1>1 DEF Inv, AcceptInv, UnitInv, ReadInv
<1>6. Delivery'
  <2> SUFFICES ASSUME NEW c \in Conn PROVE DeliveryOf(c)'
    BY DEF Delivery
  <2>1. Excused(c)' = Excused(c) /\ Reading(c)' = Reading(c) /\ ~Reading(c)
    BY <1>1 DEF Excused, Reading
  <2> QED
    BY <1>1, <2>1, DeliveredSame DEF Inv, Delivery
<1> QED
  BY <1>3, <1>4, <1>5, <1>6 DEF Inv

\* The rest of the frame did not come in time: from now on the connection is
\* excused.
LEMMA PieceFailsKeeps ==
  ASSUME Inv, PieceFails
  PROVE  Inv'
<1>1. /\ server = "piece" /\ server' = "idle" /\ conn' = NoConn /\ mutex' = "free"
      /\ clients' = [clients EXCEPT ![num].unfinished = 0]
      /\ late' = [late EXCEPT ![conn] = TRUE]
      /\ UNCHANGED <<net, sent, wire, inbox, closed, client_queue, adding, queue,
                     ring, told, dropped, joined, lost, connects, frames, calls>>
  BY DEF PieceFails, Release, network, adder, counters, outcome
<1>2. clients' \in [Slot -> Client] /\ \A s \in Slot : clients'[s].conn = clients[s].conn
  <2>1. clients \in [Slot -> Client] /\ num \in Slot
    BY <1>1 DEF Inv, TypeOK, LockInv
  <2> QED
    BY <1>1, <2>1, Unread
<1>3. \A c : Listed(c)' = Listed(c)
  BY <1>2, SameConns
<1>4. late' \in [Conn -> BOOLEAN] /\ late'[conn] /\ \A c \in Conn : late[c] => late'[c]
  <2>1. late \in [Conn -> BOOLEAN] /\ conn \in Conn
    BY <1>1 DEF Inv, TypeOK, LockInv
  <2> QED
    BY <1>1, <2>1
<1>5. TypeOK'
  BY <1>1, <1>2, <1>3, <1>4 DEF Inv, TypeOK
<1>6. LockInv'
  BY <1>1 DEF Inv, TypeOK, LockInv
<1>7. AcceptInv' /\ UnitInv' /\ ReadInv'
  BY <1>1 DEF Inv, AcceptInv, UnitInv, ReadInv
<1>8. Delivery'
  <2> SUFFICES ASSUME NEW c \in Conn PROVE DeliveryOf(c)'
    BY DEF Delivery
  <2>1. CASE c = conn
    BY <1>4, <2>1 DEF DeliveryOf, Excused
  <2>2. CASE c # conn
    <3>1. (Excused(c) => Excused(c)') /\ Reading(c)' = Reading(c) /\ ~Reading(c)
      BY <1>1, <1>4, <2>2 DEF Excused, Reading
    <3> QED
      BY <1>1, <3>1, DeliveredSame DEF Inv, Delivery
  <2> QED
    BY <2>1, <2>2
<1> QED
  BY <1>5, <1>6, <1>7, <1>8 DEF Inv

LEMMA in_msgKeeps ==
  ASSUME Inv, in_msg
  PROVE  Inv'
<1>1. /\ ring > 0 /\ ring' = ring - 1
      /\ UNCHANGED <<net, sent, wire, inbox, closed, client_queue, adding, queue, mutex,
                     clients, server, conn, num, header, read, told, dropped, joined,
                     late, lost, connects, frames, calls>>
  BY DEF in_msg, network, adder, reader, frame, counters, excuses
<1>2. \A c : Listed(c)' = Listed(c)
  BY <1>1 DEF Listed
<1>3. ring' \in 0 .. RingRoom
  BY <1>1, SetsAre DEF Inv, TypeOK
<1>4. TypeOK'
  BY <1>1, <1>2, <1>3 DEF Inv, TypeOK
<1>5. LockInv' /\ AcceptInv' /\ UnitInv' /\ ReadInv'
  BY <1>1 DEF Inv, LockInv, AcceptInv, UnitInv, ReadInv
<1>6. Delivery'
  <2> SUFFICES ASSUME NEW c \in Conn PROVE DeliveryOf(c)'
    BY DEF Delivery
  <2>1. Excused(c)' = Excused(c) /\ Reading(c)' = Reading(c)
    BY <1>1 DEF Excused, Reading
  <2> QED
    BY <1>1, <2>1, DeliveredSame DEF Inv, Delivery
<1> QED
  BY <1>4, <1>5, <1>6 DEF Inv

LEMMA StopKeeps ==
  ASSUME Inv, Stop
  PROVE  Inv'
<1>1. /\ server' = "gone" /\ conn' = NoConn
      /\ UNCHANGED <<net, sent, wire, inbox, closed, client_queue, adding, queue, mutex,
                     clients, ring, told, dropped, joined, late, lost, frames>>
  BY DEF Stop, network, adder, outcome, excuses
<1>2. \A c : Listed(c)' = Listed(c)
  BY <1>1 DEF Listed
<1>3. TypeOK'
  BY <1>1, <1>2 DEF Inv, TypeOK
<1>4. LockInv' /\ AcceptInv' /\ UnitInv' /\ ReadInv'
  BY <1>1 DEF Inv, LockInv, AcceptInv, UnitInv, ReadInv
<1>5. Delivery'
  <2> SUFFICES ASSUME NEW c \in Conn PROVE DeliveryOf(c)'
    BY DEF Delivery
  <2>1. Excused(c)' = Excused(c)
    BY <1>1 DEF Excused
  <2> QED
    BY <1>1, <2>1, DeliveredSame DEF Inv, Delivery
<1> QED
  BY <1>3, <1>4, <1>5 DEF Inv

LEMMA StutterKeeps ==
  ASSUME Inv, UNCHANGED vars
  PROVE  Inv'
<1>1. UNCHANGED <<net, sent, wire, inbox, closed, client_queue, adding, queue, mutex,
                  clients, server, conn, num, header, read, ring, told, dropped, joined,
                  late, lost, frames>>
  BY DEF vars, network, adder, reader, frame, counters, outcome, excuses
<1>2. \A c : Listed(c)' = Listed(c)
  BY <1>1 DEF Listed
<1>3. TypeOK'
  BY <1>1, <1>2 DEF Inv, TypeOK
<1>4. LockInv' /\ AcceptInv' /\ UnitInv' /\ ReadInv'
  BY <1>1 DEF Inv, LockInv, AcceptInv, UnitInv, ReadInv
<1>5. Delivery'
  <2> SUFFICES ASSUME NEW c \in Conn PROVE DeliveryOf(c)'
    BY DEF Delivery
  <2>1. Excused(c)' = Excused(c) /\ Reading(c)' = Reading(c)
    BY <1>1 DEF Excused, Reading
  <2> QED
    BY <1>1, <2>1, DeliveredSame DEF Inv, Delivery
<1> QED
  BY <1>3, <1>4, <1>5 DEF Inv

-----------------------------------------------------------------------------
(* Steps of the clients and of the TCP/IP task *)

LEMMA NumbersAre ==
  ASSUME NEW n \in Nat, NEW s \in Seq(0 .. n)
  PROVE  s \in Seq(Nat)
OBVIOUS

LEMMA OfConn ==
  ASSUME TypeOK, NEW c \in Conn
  PROVE  /\ sent[c] \in Seq(Frame) /\ wire[c] \in Seq(Unit)
         /\ inbox[c] \in Seq(Seq(Unit)) /\ told[c] \in Seq(0 .. MaxFrames)
         /\ told[c] \in Seq(Nat)
         /\ \A i \in DOMAIN inbox[c] : inbox[c][i] \in Seq(Unit)
<1>1. /\ sent[c] \in Seq(Frame) /\ wire[c] \in Seq(Unit)
      /\ inbox[c] \in Seq(Seq(Unit)) /\ told[c] \in Seq(0 .. MaxFrames)
  BY DEF TypeOK, Units, Unit
<1> QED
  BY <1>1, ItemsAre, NumbersAre, SetsAre

LEMMA SendFrameKeeps ==
  ASSUME Inv, NEW c \in Conn, NEW f \in Frame, SendFrame(c, f)
  PROVE  Inv'
<1> DEFINE u == UnitsOf(Len(sent[c]) + 1, f.len)
<1>1. /\ net[c] = "open" /\ frames < MaxFrames /\ frames' = frames + 1
      /\ sent' = [sent EXCEPT ![c] = Append(@, f)]
      /\ wire' = [wire EXCEPT ![c] = @ \o u]
      /\ UNCHANGED <<net, inbox, closed, client_queue, adding, queue, mutex, clients,
                     server, conn, num, header, read, ring, told, dropped, joined, late,
                     lost>>
  BY DEF SendFrame, UnitsOf, adder, reader, frame, outcome, excuses
<1>2. TypeOK /\ sent \in [Conn -> Seq(Frame)] /\ wire \in [Conn -> Seq(Unit)]
  BY DEF Inv, TypeOK, Units, Unit
<1>3. /\ sent'[c] = Append(sent[c], f) /\ wire'[c] = wire[c] \o u
      /\ \A d \in Conn : d # c => sent'[d] = sent[d] /\ wire'[d] = wire[d]
  BY <1>1, <1>2
<1>4. /\ sent[c] \in Seq(Frame) /\ wire[c] \in Seq(Unit)
      /\ inbox[c] \in Seq(Seq(Unit)) /\ told[c] \in Seq(Nat)
      /\ \A i \in DOMAIN inbox[c] : inbox[c][i] \in Seq(Unit)
  BY <1>2, OfConn
<1>5. InOrder(sent[c], wire[c])
  BY DEF Inv, UnitInv
<1>6. wire'[c] \in Seq(Unit) /\ InOrder(sent'[c], wire'[c]) /\ sent'[c] \in Seq(Frame)
  <2>1. wire[c] \o u \in Seq(Unit) /\ InOrder(Append(sent[c], f), wire[c] \o u)
    BY <1>4, <1>5, FrameSent
  <2>2. Append(sent[c], f) \in Seq(Frame)
    BY <1>4
  <2> HIDE DEF u
  <2> QED
    BY <1>3, <2>1, <2>2
<1>7. \A x \in Unit : IsOf(sent[c], x) => IsOf(sent'[c], x)
  BY <1>3, <1>4, AfterIs
<1> HIDE DEF u
<1>8. /\ sent' \in [Conn -> Seq(Frame)] /\ wire' \in [Conn -> Units]
  <2>1. \A d \in Conn : sent'[d] \in Seq(Frame) /\ wire'[d] \in Seq(Unit)
    BY <1>2, <1>3, <1>6
  <2> QED
    BY <1>1, <1>2, <2>1 DEF Units, Unit
<1>9. \A d : Listed(d)' = Listed(d)
  BY <1>1 DEF Listed
<1>10. TypeOK'
  BY <1>1, <1>8, <1>9 DEF Inv, TypeOK
<1>11. LockInv'
  BY <1>1 DEF Inv, LockInv
<1>12. AcceptInv'
  BY <1>1, <1>3 DEF Inv, AcceptInv
<1>13. UnitInv'
  <2>1. frames \in Nat /\ Len(sent[c]) \in Nat /\ frames \in 0 .. MaxFrames
        /\ \A d \in Conn : Len(sent[d]) <= frames
    BY <1>4, SetsAre, ItemsAre DEF Inv, UnitInv
  <2>2. frames' \in 0 .. MaxFrames
    BY <1>1, <2>1, SetsAre
  <2>3. \A d \in Conn : Len(sent'[d]) <= frames'
    <3>1. Len(sent'[c]) = Len(sent[c]) + 1
      BY <1>3, <1>4, Appended
    <3>2. \A d \in Conn : d # c => Len(sent'[d]) <= frames + 1
      <4> SUFFICES ASSUME NEW d \in Conn, d # c PROVE Len(sent[d]) <= frames + 1
        BY <1>3
      <4>1. Len(sent[d]) \in Nat
        BY <1>2, OfConn, ItemsAre
      <4> QED
        BY <2>1, <4>1
    <3> QED
      BY <1>1, <2>1, <3>1, <3>2
  <2>4. \A d \in Conn : InOrder(sent'[d], wire'[d])
    BY <1>3, <1>6 DEF Inv, UnitInv
  <2>5. ASSUME NEW d \in Conn, NEW i \in DOMAIN inbox[d]
        PROVE  /\ inbox[d][i] # <<>>
               /\ \A j \in DOMAIN inbox[d][i] : IsOf(sent'[d], inbox[d][i][j])
    <3>1. /\ inbox[d][i] # <<>>
          /\ \A j \in DOMAIN inbox[d][i] : IsOf(sent[d], inbox[d][i][j])
      BY DEF Inv, UnitInv
    <3>2. \A j \in DOMAIN inbox[d][i] : inbox[d][i][j] \in Unit
      BY <1>2, OfConn, ItemsAre
    <3> QED
      BY <1>3, <1>7, <3>1, <3>2
  <2> QED
    BY <1>1, <2>2, <2>3, <2>4, <2>5 DEF UnitInv
<1>14. ReadInv'
  <2>1. ASSUME server = "piece", NEW i \in DOMAIN read, read \in Units,
               IsOf(sent[conn], read[i]), conn \in Conn
        PROVE  IsOf(sent'[conn], read[i])
    <3>1. read[i] \in Unit
      BY <2>1, ItemsAre DEF Units, Unit
    <3> QED
      BY <1>3, <1>7, <2>1, <3>1
  <2> QED
    BY <1>1, <2>1 DEF Inv, ReadInv, LockInv
<1>15. Delivery'
  <2> SUFFICES ASSUME NEW d \in Conn PROVE DeliveryOf(d)'
    BY DEF Delivery
  <2>1. Excused(d)' = Excused(d) /\ Reading(d)' = Reading(d)
    BY <1>1 DEF Excused, Reading
  <2>2. CASE d # c
    BY <1>1, <1>3, <2>1, <2>2, DeliveredSame DEF Inv, Delivery
  <2>3. CASE d = c
    <3> SUFFICES ASSUME ~Excused(c) PROVE \E k \in Nat : Delivered(c, k)'
      BY <2>1, <2>3 DEF DeliveryOf
    <3>1. PICK k \in Nat : Delivered(c, k)
      BY <1>1 DEF Inv, Delivery, DeliveryOf
    <3>2. k \in 0 .. Len(sent[c]) /\ ToldOf(sent[c], told[c], k)
      BY <3>1 DEF Delivered
    <3>3. k \in 0 .. Len(sent'[c]) /\ ToldOf(sent'[c], told'[c], k)
      BY <1>1, <1>3, <1>4, <3>2, ToldSame
    <3>4. ASSUME NEW e, Rest(sent[c], inbox[c], wire[c], e)
          PROVE  Rest(sent'[c], inbox'[c], wire'[c], e)
      <4>1. Rest(Append(sent[c], f), inbox[c], wire[c] \o u, e)
        BY <1>4, <1>5, <3>4, RestSent DEF u
      <4> QED
        BY <1>1, <1>3, <4>1
    <3>5. ReadOf(sent[c], header, read, k) => ReadOf(sent'[c], header', read', k)
      BY <1>1, <1>3, <1>4, ReadSame
    <3>6. Delivered(c, k)'
      BY <1>1, <2>1, <2>3, <3>1, <3>3, <3>4, <3>5 DEF Delivered
    <3> QED
      BY <3>6
  <2> QED
    BY <2>2, <2>3
<1> QED
  BY <1>10, <1>11, <1>12, <1>13, <1>14, <1>15 DEF Inv

LEMMA CallbackKeeps ==
  ASSUME TypeOK, NEW c \in Conn, background_callback(c)
  PROVE  /\ queue' \in Seq(Conn) /\ Len(queue') <= QueueSize
         /\ lost' \in [Conn -> BOOLEAN]
<1>1. queue \in Seq(Conn) /\ Len(queue) <= QueueSize /\ lost \in [Conn -> BOOLEAN]
  BY DEF TypeOK
<1>2. Append(queue, c) \in Seq(Conn) /\ Len(Append(queue, c)) = Len(queue) + 1
      /\ Len(queue) \in Nat
  BY <1>1
<1>3. CASE Len(queue) < QueueSize
  BY SMTT(30), <1>1, <1>2, <1>3, SetsAre DEF background_callback
<1>4. CASE ~(Len(queue) < QueueSize)
  BY <1>1, <1>4 DEF background_callback
<1> QED
  BY <1>3, <1>4

LEMMA ArriveKeeps ==
  ASSUME Inv, NEW c \in Conn, Arrive(c)
  PROVE  Inv'
<1>0. PICK n \in 1 .. Len(wire[c]) : \E m \in 1 .. n :
        /\ wire' = [wire EXCEPT ![c] = SubSeq(@, n + 1, Len(@))]
        /\ inbox' = [inbox EXCEPT ![c] = Append(@, SubSeq(wire[c], 1, m))]
        /\ joined' = [joined EXCEPT ![c] =
                        @ \/ m # n \/ wire[c][1][1] # wire[c][n][1]]
  BY DEF Arrive
<1>1. PICK m \in 1 .. n :
        /\ wire' = [wire EXCEPT ![c] = SubSeq(@, n + 1, Len(@))]
        /\ inbox' = [inbox EXCEPT ![c] = Append(@, SubSeq(wire[c], 1, m))]
        /\ joined' = [joined EXCEPT ![c] =
                        @ \/ m # n \/ wire[c][1][1] # wire[c][n][1]]
  BY <1>0
<1>2. /\ net[c] = "open" /\ background_callback(c)
      /\ UNCHANGED <<net, sent, closed, client_queue, adding, mutex, clients, server,
                     conn, num, header, read, ring, told, dropped, late, frames>>
  BY DEF Arrive, adder, reader, frame, counters, outcome
<1> DEFINE g == SubSeq(wire[c], 1, m)
<1> DEFINE v == SubSeq(wire[c], n + 1, Len(wire[c]))
<1>3. /\ TypeOK /\ wire \in [Conn -> Seq(Unit)] /\ inbox \in [Conn -> Seq(Seq(Unit))]
      /\ joined \in [Conn -> BOOLEAN]
  BY DEF Inv, TypeOK, Units, Unit
<1>4. /\ wire'[c] = v /\ inbox'[c] = Append(inbox[c], g)
      /\ joined'[c] = (joined[c] \/ m # n \/ wire[c][1][1] # wire[c][n][1])
      /\ \A d \in Conn : d # c =>
           wire'[d] = wire[d] /\ inbox'[d] = inbox[d] /\ joined'[d] = joined[d]
  BY <1>1, <1>3
<1>5. /\ sent[c] \in Seq(Frame) /\ wire[c] \in Seq(Unit) /\ inbox[c] \in Seq(Seq(Unit))
      /\ InOrder(sent[c], wire[c])
  BY <1>3, OfConn DEF Inv, UnitInv
<1>5a. m \in 1 .. Len(wire[c])
  BY <1>5
<1>6. v \in Seq(Unit) /\ g \in Seq(Unit)
  BY <1>5, <1>5a, Split
<1>7. /\ InOrder(sent[c], v) /\ g # <<>>
      /\ \A i \in DOMAIN g : IsOf(sent[c], g[i])
  <2>1. InOrder(sent[c], v)
    BY <1>5, Arrived
  <2>2. g # <<>> /\ \A i \in DOMAIN g : IsOf(sent[c], g[i])
    BY <1>5, <1>5a, Arrived
  <2> QED
    BY <2>1, <2>2
<1>8. ASSUME m = n, wire[c][1][1] = wire[c][n][1], NEW e, Rest(sent[c], inbox[c], wire[c], e)
      PROVE  Rest(sent[c], Append(inbox[c], g), v, e)
  BY <1>5, <1>8, RestArrived
<1> HIDE DEF g, v
<1>9. /\ wire' \in [Conn -> Units] /\ inbox' \in [Conn -> Seq(Units)]
      /\ joined' \in [Conn -> BOOLEAN]
  <2>1. Append(inbox[c], g) \in Seq(Seq(Unit))
    BY <1>5, <1>6
  <2>2. \A d \in Conn : /\ wire'[d] \in Seq(Unit) /\ inbox'[d] \in Seq(Seq(Unit))
                        /\ joined'[d] \in BOOLEAN
    BY <1>3, <1>4, <1>6, <2>1
  <2> QED
    BY <1>1, <1>3, <2>2 DEF Units, Unit
<1>10. \A d : Listed(d)' = Listed(d)
  BY <1>2 DEF Listed
<1>11. TypeOK'
  <2>1. /\ queue' \in Seq(Conn) /\ Len(queue') <= QueueSize
        /\ lost' \in [Conn -> BOOLEAN]
    BY <1>2, <1>3, CallbackKeeps
  <2>2. /\ net' = net /\ sent' = sent /\ told' = told /\ closed' = closed
        /\ dropped' = dropped /\ late' = late /\ clients' = clients
        /\ client_queue' = client_queue /\ adding' = adding /\ mutex' = mutex
        /\ server' = server /\ conn' = conn /\ num' = num /\ header' = header
        /\ read' = read /\ ring' = ring
    BY <1>2
  <2>3. /\ net' \in [Conn -> {"unused", "accepted", "open"}]
        /\ sent' \in [Conn -> Seq(Frame)] /\ told' \in [Conn -> Seq(0 .. MaxFrames)]
        /\ {closed', dropped', joined', late', lost'} \subseteq [Conn -> BOOLEAN]
    BY <1>3, <1>9, <2>1, <2>2 DEF TypeOK
  <2>4. \A d \in Conn : Listed(d)' => net'[d] = "open" /\ d # adding'
    BY <1>3, <1>10, <2>2 DEF TypeOK
  <2> QED
    BY ONLY <1>3, <1>9, <2>1, <2>2, <2>3, <2>4 DEF TypeOK
<1>12. LockInv' /\ ReadInv'
  BY <1>2 DEF Inv, LockInv, ReadInv
<1>13. AcceptInv'
  BY <1>2, <1>4 DEF Inv, AcceptInv
<1>14. UnitInv'
  <2>1. \A d \in Conn : InOrder(sent[d], wire'[d])
    BY <1>4, <1>7 DEF Inv, UnitInv
  <2>2. ASSUME NEW i \in DOMAIN inbox'[c]
        PROVE  /\ inbox'[c][i] # <<>>
               /\ \A j \in DOMAIN inbox'[c][i] : IsOf(sent[c], inbox'[c][i][j])
    <3>1. /\ DOMAIN inbox[c] = 1 .. Len(inbox[c]) /\ Len(inbox[c]) \in Nat
          /\ DOMAIN inbox'[c] = 1 .. Len(inbox[c]) + 1
          /\ inbox'[c][Len(inbox[c]) + 1] = g
      BY <1>4, <1>5, <1>6, Appended
    <3>2. \A x \in 1 .. Len(inbox[c]) : inbox'[c][x] = inbox[c][x]
      BY <1>4, <1>5, <1>6, Appended
    <3>3. CASE i = Len(inbox[c]) + 1
      BY <1>7, <3>1, <3>3
    <3>4. CASE i # Len(inbox[c]) + 1
      <4>1. i \in DOMAIN inbox[c] /\ inbox'[c][i] = inbox[c][i]
        BY <3>1, <3>2, <3>4
      <4> QED
        BY <4>1 DEF Inv, UnitInv
    <3> QED
      BY <3>3, <3>4
  <2>3. ASSUME NEW d \in Conn, NEW i \in DOMAIN inbox'[d]
        PROVE  /\ inbox'[d][i] # <<>>
               /\ \A j \in DOMAIN inbox'[d][i] : IsOf(sent[d], inbox'[d][i][j])
    <3>1. CASE d = c
      BY <2>2, <2>3, <3>1
    <3>2. CASE d # c
      BY <1>4, <3>2 DEF Inv, UnitInv
    <3> QED
      BY <3>1, <3>2
  <2> QED
    BY <1>2, <2>1, <2>3 DEF Inv, UnitInv
<1>15. Delivery'
  <2> SUFFICES ASSUME NEW d \in Conn PROVE DeliveryOf(d)'
    BY DEF Delivery
  <2>1. (Excused(d) => Excused(d)') /\ Reading(d)' = Reading(d)
    BY <1>2, <1>4 DEF Excused, Reading
  <2>2. CASE d # c
    BY <1>2, <1>4, <2>1, <2>2, DeliveredSame DEF Inv, Delivery
  <2>3. CASE d = c
    <3> SUFFICES ASSUME ~Excused(c)' PROVE \E k \in Nat : Delivered(c, k)'
      BY <2>3 DEF DeliveryOf
    <3>1. ~Excused(c) /\ m = n /\ wire[c][1][1] = wire[c][n][1]
      BY <1>4, <2>1, <2>3 DEF Excused
    <3>2. PICK k \in Nat : Delivered(c, k)
      BY <1>2, <3>1 DEF Inv, Delivery, DeliveryOf
    <3>3. ASSUME NEW e, Rest(sent[c], inbox[c], wire[c], e)
          PROVE  Rest(sent'[c], inbox'[c], wire'[c], e)
      BY <1>2, <1>4, <1>8, <3>1, <3>3
    <3>4. Delivered(c, k)'
      BY <1>2, <2>1, <2>3, <3>2, <3>3 DEF Delivered
    <3> QED
      BY <3>4
  <2> QED
    BY <2>2, <2>3
<1> QED
  BY <1>11, <1>12, <1>13, <1>14, <1>15 DEF Inv

LEMMA ClientClosesKeeps ==
  ASSUME Inv, NEW c \in Conn, ClientCloses(c)
  PROVE  Inv'
<1>1. /\ closed' = [closed EXCEPT ![c] = TRUE] /\ background_callback(c)
      /\ UNCHANGED <<net, sent, wire, inbox, client_queue, adding, mutex, clients, server,
                     conn, num, header, read, ring, told, dropped, joined, late, frames>>
  BY DEF ClientCloses, adder, reader, frame, counters, outcome
<1>2. \A d : Listed(d)' = Listed(d)
  BY <1>1 DEF Listed
<1>3. TypeOK'
  <2>1. /\ queue' \in Seq(Conn) /\ Len(queue') <= QueueSize
        /\ lost' \in [Conn -> BOOLEAN]
    BY <1>1, CallbackKeeps DEF Inv
  <2>2. closed' \in [Conn -> BOOLEAN]
    BY <1>1 DEF Inv, TypeOK
  <2> QED
    BY <1>1, <1>2, <2>1, <2>2 DEF Inv, TypeOK
<1>4. LockInv' /\ AcceptInv' /\ UnitInv' /\ ReadInv'
  BY <1>1 DEF Inv, LockInv, AcceptInv, UnitInv, ReadInv
<1>5. Delivery'
  <2> SUFFICES ASSUME NEW d \in Conn PROVE DeliveryOf(d)'
    BY DEF Delivery
  <2>1. Excused(d)' = Excused(d) /\ Reading(d)' = Reading(d)
    BY <1>1 DEF Excused, Reading
  <2> QED
    BY <1>1, <2>1, DeliveredSame DEF Inv, Delivery
<1> QED
  BY <1>3, <1>4, <1>5 DEF Inv

-----------------------------------------------------------------------------
(* Steps of server_task and server_handle_task *)

LEMMA AcceptKeeps ==
  ASSUME Inv, NEW c \in Conn, Accept(c)
  PROVE  Inv'
<1>1. /\ net[c] = "unused" /\ net' = [net EXCEPT ![c] = "accepted"]
      /\ client_queue' = Append(client_queue, c)
      /\ told' = [told EXCEPT ![c] = <<>>]
      /\ dropped' = [dropped EXCEPT ![c] = FALSE]
      /\ joined' = [joined EXCEPT ![c] = FALSE]
      /\ late' = [late EXCEPT ![c] = FALSE]
      /\ lost' = [lost EXCEPT ![c] = FALSE]
      /\ UNCHANGED <<sent, wire, inbox, closed, adding, queue, mutex, clients, server,
                     conn, num, header, read, ring, frames>>
  BY DEF Accept, reader, frame
<1>2. TypeOK
  BY DEF Inv
<1>3. /\ net'[c] = "accepted" /\ told'[c] = <<>>
      /\ \A d \in Conn : d # c =>
           /\ net'[d] = net[d] /\ told'[d] = told[d] /\ dropped'[d] = dropped[d]
           /\ joined'[d] = joined[d] /\ late'[d] = late[d]
  BY <1>1, <1>2 DEF TypeOK
<1>4. /\ net' \in [Conn -> {"unused", "accepted", "open"}]
      /\ told' \in [Conn -> Seq(0 .. MaxFrames)]
      /\ dropped' \in [Conn -> BOOLEAN] /\ joined' \in [Conn -> BOOLEAN]
      /\ late' \in [Conn -> BOOLEAN] /\ lost' \in [Conn -> BOOLEAN]
  <2>1. <<>> \in Seq(0 .. MaxFrames)
    OBVIOUS
  <2> QED
    BY <1>1, <1>2, <2>1 DEF TypeOK
<1>5. /\ client_queue \in Seq(Conn) /\ client_queue' \in Seq(Conn)
      /\ Len(client_queue) \in Nat /\ DOMAIN client_queue = 1 .. Len(client_queue)
      /\ DOMAIN client_queue' = 1 .. Len(client_queue) + 1
      /\ \A i \in 1 .. Len(client_queue) : client_queue'[i] = client_queue[i]
      /\ client_queue'[Len(client_queue) + 1] = c
  <2>1. client_queue \in Seq(Conn)
    BY <1>2 DEF TypeOK
  <2> QED
    BY <1>1, <2>1, Appended
<1>6. c # adding
  BY <1>1 DEF Inv, LockInv
<1>7. \A d : Listed(d)' = Listed(d)
  BY <1>1 DEF Listed
<1>8. \A d \in Conn : Listed(d) => d # c
  BY <1>1, <1>2 DEF TypeOK
<1>9. TypeOK'
  BY <1>1, <1>2, <1>3, <1>4, <1>5, <1>7, <1>8 DEF TypeOK
<1>10. LockInv'
  BY <1>1, <1>3, <1>6 DEF Inv, LockInv
<1>11. AcceptInv'
  <2>1. ASSUME NEW i \in DOMAIN client_queue'
        PROVE  /\ net'[client_queue'[i]] = "accepted" /\ client_queue'[i] # adding
               /\ i # Len(client_queue) + 1 =>
                    i \in DOMAIN client_queue /\ client_queue'[i] = client_queue[i]
               /\ client_queue'[i] = c => i = Len(client_queue) + 1
    <3>1. CASE i = Len(client_queue) + 1
      BY <1>3, <1>5, <1>6, <3>1
    <3>2. CASE i # Len(client_queue) + 1
      <4>1. i \in DOMAIN client_queue /\ client_queue'[i] = client_queue[i]
        BY <1>5, <3>2
      <4>2. net[client_queue[i]] = "accepted" /\ client_queue[i] # adding
        BY <4>1 DEF Inv, AcceptInv
      <4>3. client_queue[i] \in Conn /\ client_queue[i] # c
        BY <1>1, <1>5, <4>1, <4>2
      <4> QED
        BY <1>3, <4>1, <4>2, <4>3
    <3> QED
      BY <3>1, <3>2
  <2>2. ASSUME NEW i \in DOMAIN client_queue', NEW j \in DOMAIN client_queue',
               client_queue'[i] = client_queue'[j]
        PROVE  i = j
    <3>1. CASE client_queue'[i] = c
      BY <2>1, <2>2, <3>1
    <3>2. CASE client_queue'[i] # c
      <4>1. i # Len(client_queue) + 1 /\ j # Len(client_queue) + 1
        BY <1>5, <2>2, <3>2
      <4>2. /\ i \in DOMAIN client_queue /\ j \in DOMAIN client_queue
            /\ client_queue[i] = client_queue[j]
        BY <2>1, <2>2, <4>1
      <4> QED
        BY <4>2 DEF Inv, AcceptInv
    <3> QED
      BY <3>1, <3>2
  <2>3. \A d \in Conn : net'[d] # "open" =>
          sent'[d] = <<>> /\ wire'[d] = <<>> /\ inbox'[d] = <<>>
    BY <1>1, <1>3 DEF Inv, AcceptInv
  <2>4. \A d \in Conn : net'[d] = "accepted" => told'[d] = <<>>
    BY <1>3 DEF Inv, AcceptInv
  <2> QED
    BY <1>1, <2>1, <2>2, <2>3, <2>4 DEF AcceptInv
<1>12. UnitInv' /\ ReadInv'
  BY <1>1 DEF Inv, UnitInv, ReadInv
<1>13. Delivery'
  <2> SUFFICES ASSUME NEW d \in Conn PROVE DeliveryOf(d)'
    BY DEF Delivery
  <2>1. CASE d = c
    BY <1>3, <2>1 DEF DeliveryOf
  <2>2. CASE d # c
    <3>1. Excused(d)' = Excused(d) /\ Reading(d)' = Reading(d)
      BY <1>1, <1>3, <2>2 DEF Excused, Reading
    <3> QED
      BY <1>1, <1>3, <2>2, <3>1, DeliveredSame DEF Inv, Delivery
  <2> QED
    BY <2>1, <2>2
<1> QED
  BY <1>9, <1>10, <1>11, <1>12, <1>13 DEF Inv

\* The connection that is served.
LEMMA Served ==
  ASSUME Inv, client_queue # <<>>, client_queue' = Tail(client_queue)
  PROVE  /\ Head(client_queue) \in Conn /\ net[Head(client_queue)] = "accepted"
         /\ ~Listed(Head(client_queue))
         /\ client_queue' \in Seq(Conn)
         /\ \A i \in DOMAIN client_queue' :
              /\ client_queue'[i] # Head(client_queue)
              /\ client_queue'[i] \in Conn
              /\ net[client_queue'[i]] = "accepted" /\ client_queue'[i] # adding
         /\ \A i, j \in DOMAIN client_queue' : client_queue'[i] = client_queue'[j] => i = j
<1>1. /\ client_queue \in Seq(Conn) /\ TypeOK
      /\ \A i \in DOMAIN client_queue :
           net[client_queue[i]] = "accepted" /\ client_queue[i] # adding
      /\ \A i, j \in DOMAIN client_queue : client_queue[i] = client_queue[j] => i = j
  BY DEF Inv, TypeOK, AcceptInv
<1>2. /\ client_queue' \in Seq(Conn) /\ Head(client_queue) \in Conn
      /\ Head(client_queue) = client_queue[1]
      /\ Len(client_queue) \in Nat \ {0} /\ DOMAIN client_queue = 1 .. Len(client_queue)
      /\ DOMAIN client_queue' = 1 .. Len(client_queue) - 1
      /\ \A i \in 1 .. Len(client_queue) - 1 : client_queue'[i] = client_queue[i + 1]
  BY <1>1, Tailed
<1>3. 1 \in DOMAIN client_queue
  BY <1>2
<1>4. \A i \in DOMAIN client_queue' :
        /\ i + 1 \in DOMAIN client_queue /\ i + 1 # 1 /\ i \in Int
        /\ client_queue'[i] = client_queue[i + 1]
        /\ client_queue[i + 1] \in Conn
  BY <1>1, <1>2
<1>5. net[Head(client_queue)] = "accepted" /\ ~Listed(Head(client_queue))
  BY <1>1, <1>2, <1>3 DEF TypeOK
<1>6. ASSUME NEW i \in DOMAIN client_queue', NEW j \in DOMAIN client_queue',
             client_queue'[i] = client_queue'[j]
      PROVE  i = j
  <2>1. i + 1 = j + 1
    BY <1>1, <1>4, <1>6
  <2> QED
    BY <1>4, <2>1
<1>7. ASSUME NEW i \in DOMAIN client_queue'
      PROVE  /\ client_queue'[i] # Head(client_queue)
             /\ client_queue'[i] \in Conn
             /\ net[client_queue'[i]] = "accepted" /\ client_queue'[i] # adding
  BY <1>1, <1>2, <1>3, <1>4
<1> QED
  BY <1>2, <1>5, <1>6, <1>7

LEMMA ServeOtherKeeps ==
  ASSUME Inv, ServeOther
  PROVE  Inv'
<1> DEFINE c == Head(client_queue)
<1>1. /\ adding = NoConn /\ client_queue # <<>> /\ client_queue' = Tail(client_queue)
      /\ net' = [net EXCEPT ![c] = "unused"]
      /\ UNCHANGED <<sent, wire, inbox, closed, adding, queue, mutex, clients, server,
                     conn, num, header, read, ring, told, dropped, joined, late, lost,
                     frames>>
  BY DEF ServeOther, reader, frame, counters, outcome, excuses
<1>2. /\ c \in Conn /\ net[c] = "accepted" /\ ~Listed(c)
      /\ client_queue' \in Seq(Conn)
      /\ \A i \in DOMAIN client_queue' :
           /\ client_queue'[i] # c /\ client_queue'[i] \in Conn
           /\ net[client_queue'[i]] = "accepted" /\ client_queue'[i] # adding
      /\ \A i, j \in DOMAIN client_queue' : client_queue'[i] = client_queue'[j] => i = j
  BY <1>1, Served
<1> HIDE DEF c
<1>3. /\ net' \in [Conn -> {"unused", "accepted", "open"}] /\ net'[c] = "unused"
      /\ \A d \in Conn : d # c => net'[d] = net[d]
  BY <1>1, <1>2 DEF Inv, TypeOK
<1>4. \A d : Listed(d)' = Listed(d)
  BY <1>1 DEF Listed
<1>5. \A d \in Conn : Listed(d) => net'[d] = "open"
  BY <1>2, <1>3 DEF Inv, TypeOK
<1>6. TypeOK'
  BY <1>1, <1>2, <1>3, <1>4, <1>5 DEF Inv, TypeOK
<1>7. LockInv'
  BY <1>1, SetsAre DEF Inv, LockInv
<1>8. AcceptInv'
  <2>1. \A i \in DOMAIN client_queue' : net'[client_queue'[i]] = "accepted"
    BY <1>2, <1>3
  <2>2. \A d \in Conn : net'[d] # "open" =>
          sent'[d] = <<>> /\ wire'[d] = <<>> /\ inbox'[d] = <<>>
    BY <1>1, <1>2, <1>3 DEF Inv, AcceptInv
  <2>3. \A d \in Conn : net'[d] = "accepted" => told'[d] = <<>>
    BY <1>1, <1>3 DEF Inv, AcceptInv
  <2> QED
    BY <1>1, <1>2, <2>1, <2>2, <2>3 DEF AcceptInv
<1>9. UnitInv' /\ ReadInv'
  BY <1>1 DEF Inv, UnitInv, ReadInv
<1>10. Delivery'
  <2> SUFFICES ASSUME NEW d \in Conn PROVE DeliveryOf(d)'
    BY DEF Delivery
  <2>1. Excused(d)' = Excused(d) /\ Reading(d)' = Reading(d)
    BY <1>1 DEF Excused, Reading
  <2>2. net'[d] = "open" => net[d] = "open"
    BY <1>3
  <2> QED
    BY <1>1, <2>1, <2>2, DeliveredSame DEF Inv, Delivery
<1> QED
  BY <1>6, <1>7, <1>8, <1>9, <1>10 DEF Inv

LEMMA ServeWebsocketKeeps ==
  ASSUME Inv, ServeWebsocket
  PROVE  Inv'
<1> DEFINE c == Head(client_queue)
<1>1. /\ adding = NoConn /\ client_queue # <<>> /\ client_queue' = Tail(client_queue)
      /\ adding' = c
      /\ UNCHANGED <<net, sent, wire, inbox, closed, queue, mutex, clients, server,
                     conn, num, header, read, ring, told, dropped, joined, late, lost,
                     frames>>
  BY DEF ServeWebsocket, network, reader, frame, counters, outcome, excuses
<1>2. /\ c \in Conn /\ net[c] = "accepted" /\ ~Listed(c)
      /\ client_queue' \in Seq(Conn)
      /\ \A i \in DOMAIN client_queue' :
           /\ client_queue'[i] # c /\ client_queue'[i] \in Conn
           /\ net[client_queue'[i]] = "accepted"
      /\ \A i, j \in DOMAIN client_queue' : client_queue'[i] = client_queue'[j] => i = j
  BY <1>1, Served
<1> HIDE DEF c
<1>3. \A d : Listed(d)' = Listed(d)
  BY <1>1 DEF Listed
<1>4. TypeOK'
  BY <1>1, <1>2, <1>3 DEF Inv, TypeOK
<1>5. LockInv'
  BY <1>1, <1>2, SetsAre DEF Inv, LockInv
<1>6. AcceptInv'
  BY <1>1, <1>2 DEF Inv, AcceptInv
<1>7. UnitInv' /\ ReadInv'
  BY <1>1 DEF Inv, UnitInv, ReadInv
<1>8. Delivery'
  <2> SUFFICES ASSUME NEW d \in Conn PROVE DeliveryOf(d)'
    BY DEF Delivery
  <2>1. Excused(d)' = Excused(d) /\ Reading(d)' = Reading(d)
    BY <1>1 DEF Excused, Reading
  <2> QED
    BY <1>1, <2>1, DeliveredSame DEF Inv, Delivery
<1> QED
  BY <1>4, <1>5, <1>6, <1>7, <1>8 DEF Inv

LEMMA NothingSent ==
  /\ ToldOf(<<>>, <<>>, 0) /\ Rest(<<>>, <<>>, <<>>, <<0 + 1, 1>>)
  /\ 0 \in 0 .. Len(<<>>)
BY DEF ToldOf, Rest

LEMMA AnswerKeeps ==
  ASSUME Inv, Answer
  PROVE  Inv'
<1>1. /\ adding # NoConn /\ net[adding] = "accepted" /\ mutex = "free" /\ mutex' = "add"
      /\ net' = [net EXCEPT ![adding] = "open"]
      /\ UNCHANGED <<sent, wire, inbox, closed, client_queue, adding, queue, clients,
                     server, conn, num, header, read, ring, told, dropped, joined, late,
                     lost, frames>>
  BY DEF Answer, adder, reader, frame, counters, outcome, excuses
<1>2. adding \in Conn
  BY <1>1 DEF Inv, TypeOK
<1>3. /\ net' \in [Conn -> {"unused", "accepted", "open"}] /\ net'[adding] = "open"
      /\ \A d \in Conn : d # adding => net'[d] = net[d]
  BY <1>1, <1>2 DEF Inv, TypeOK
<1>4. \A d : Listed(d)' = Listed(d)
  BY <1>1 DEF Listed
<1>5. \A d \in Conn : Listed(d) => net'[d] = "open" /\ d # adding
  BY <1>3 DEF Inv, TypeOK
<1>6. server \notin {"recv", "piece"}
  BY <1>1 DEF Inv, TypeOK
<1>7. TypeOK'
  BY <1>1, <1>3, <1>4, <1>5, <1>6 DEF Inv, TypeOK
<1>8. LockInv'
  BY <1>1, <1>2, <1>3 DEF Inv, LockInv
<1>9. AcceptInv'
  <2>1. \A i \in DOMAIN client_queue : client_queue[i] \in Conn
    BY ItemsAre DEF Inv, TypeOK
  <2>2. \A i \in DOMAIN client_queue : net'[client_queue[i]] = "accepted"
    BY <1>3, <2>1 DEF Inv, AcceptInv
  <2>3. \A d \in Conn : net'[d] # "open" =>
          sent'[d] = <<>> /\ wire'[d] = <<>> /\ inbox'[d] = <<>>
    BY <1>1, <1>3 DEF Inv, AcceptInv
  <2>4. \A d \in Conn : net'[d] = "accepted" => told'[d] = <<>>
    BY <1>1, <1>3 DEF Inv, AcceptInv
  <2> QED
    BY <1>1, <2>2, <2>3, <2>4 DEF Inv, AcceptInv
<1>10. UnitInv' /\ ReadInv'
  BY <1>1 DEF Inv, UnitInv, ReadInv
<1>11. Delivery'
  <2> SUFFICES ASSUME NEW d \in Conn PROVE DeliveryOf(d)'
    BY DEF Delivery
  <2>1. CASE d = adding
    <3>1. sent'[d] = <<>> /\ wire'[d] = <<>> /\ inbox'[d] = <<>> /\ told'[d] = <<>>
      BY <1>1, <1>2, <2>1 DEF Inv, AcceptInv
    <3>2. ~Reading(d)'
      BY <1>1, <1>6 DEF Reading
    <3>3. Delivered(d, 0)'
      BY <3>1, <3>2, NothingSent DEF Delivered
    <3> QED
      BY <3>3 DEF DeliveryOf
  <2>2. CASE d # adding
    <3>1. Excused(d)' = Excused(d) /\ Reading(d)' = Reading(d)
      BY <1>1 DEF Excused, Reading
    <3> QED
      BY <1>1, <1>3, <2>2, <3>1, DeliveredSame DEF Inv, Delivery
  <2> QED
    BY <2>1, <2>2
<1> QED
  BY <1>7, <1>8, <1>9, <1>10, <1>11 DEF Inv

LEMMA AddClientKeeps ==
  ASSUME Inv, NEW url \in Url, AddClient(url)
  PROVE  Inv'
<1>1. /\ adding # NoConn /\ net[adding] = "open"
      /\ clients' = IF Free = {} THEN clients
                    ELSE [clients EXCEPT ![First(Free)] =
                            [NoClient EXCEPT !.conn = adding, !.url = url]]
      /\ adding' = NoConn /\ mutex' = "free"
      /\ UNCHANGED <<net, sent, wire, inbox, closed, client_queue, queue, server, conn,
                     num, header, read, ring, told, dropped, joined, late, lost, frames>>
  BY DEF AddClient, network, reader, frame, counters, outcome, excuses
<1>2. adding \in Conn /\ mutex = "add" /\ server \notin {"recv", "piece"}
  BY <1>1 DEF Inv, TypeOK, LockInv
<1>3. /\ clients \in [Slot -> Client] /\ ~Listed(adding)
      /\ \A s, t \in Slot :
           clients[s].conn = clients[t].conn /\ clients[s].conn # NoConn => s = t
  BY <1>2 DEF Inv, TypeOK
<1>4. /\ clients' \in [Slot -> Client]
      /\ \A s, t \in Slot :
           clients'[s].conn = clients'[t].conn /\ clients'[s].conn # NoConn => s = t
      /\ \A d \in Conn : Listed(d)' => Listed(d) \/ d = adding
  <2>1. CASE Free = {}
    BY <1>1, <1>3, <2>1 DEF Listed
  <2>2. CASE Free # {}
    <3> DEFINE n == First(Free)
    <3> DEFINE new == [NoClient EXCEPT !.conn = adding, !.url = url]
    <3>1. n \in Slot /\ clients[n].conn = NoConn
      <4>1. Free \in SUBSET Slot
        BY DEF Free
      <4>2. n \in Free
        BY <2>2, <4>1, FirstIs
      <4> QED
        BY <4>2 DEF Free
    <3>2. new \in Client /\ new.conn = adding
      BY <1>2 DEF NoClient, Client, Op
    <3> HIDE DEF n, new
    <3>3. clients' = [clients EXCEPT ![n] = new]
      BY <1>1, <2>2 DEF n, new
    <3>4. clients'[n] = new /\ \A s \in Slot : s # n => clients'[s] = clients[s]
      BY <1>3, <3>1, <3>3
    <3>5. clients' \in [Slot -> Client]
      BY <1>3, <3>1, <3>2, <3>3
    <3>6. \A s \in Slot : clients[s].conn # adding
      BY <1>3 DEF Listed
    <3>7. ASSUME NEW s \in Slot, NEW t \in Slot, clients'[s].conn = clients'[t].conn,
                 clients'[s].conn # NoConn
          PROVE  s = t
      BY <1>3, <3>2, <3>4, <3>6, <3>7
    <3>8. \A d \in Conn : Listed(d)' => Listed(d) \/ d = adding
      BY <3>2, <3>4 DEF Listed
    <3> QED
      BY <3>5, <3>7, <3>8
  <2> QED
    BY <2>1, <2>2
<1>5. \A d \in Conn : Listed(d)' => net[d] = "open" /\ d # NoConn
  BY <1>1, <1>4, SetsAre DEF Inv, TypeOK
<1>6. TypeOK'
  BY <1>1, <1>2, <1>4, <1>5 DEF Inv, TypeOK
<1>7. LockInv'
  BY <1>1, <1>2, SetsAre DEF Inv, LockInv
<1>8. AcceptInv'
  <2>1. \A i \in DOMAIN client_queue : client_queue[i] \in Conn
    BY ItemsAre DEF Inv, TypeOK
  <2> QED
    BY <1>1, <2>1, SetsAre DEF Inv, AcceptInv
<1>9. UnitInv' /\ ReadInv'
  BY <1>1 DEF Inv, UnitInv, ReadInv
<1>10. Delivery'
  <2> SUFFICES ASSUME NEW d \in Conn PROVE DeliveryOf(d)'
    BY DEF Delivery
  <2>1. Excused(d)' = Excused(d) /\ Reading(d)' = Reading(d)
    BY <1>1 DEF Excused, Reading
  <2> QED
    BY <1>1, <2>1, DeliveredSame DEF Inv, Delivery
<1> QED
  BY <1>6, <1>7, <1>8, <1>9, <1>10 DEF Inv

-----------------------------------------------------------------------------
(* Steps that remove clients *)

LEMMA DisconnectedIs ==
  ASSUME NEW client \in Client
  PROVE  Disconnected(client) \in Client /\ Disconnected(client).conn = NoConn
BY DEF Disconnected, Client, Op

\* Only connections of clients are closed, and none is waiting or being added.
LEMMA ClosedKeeps ==
  ASSUME Inv, NEW closing \in SUBSET Conn, \A c \in closing : Listed(c),
         CloseConns(closing), UNCHANGED <<client_queue, adding, frames>>,
         \A c \in Conn : net[c] = "accepted" => told'[c] = told[c]
  PROVE  /\ net' \in [Conn -> {"unused", "accepted", "open"}]
         /\ sent' \in [Conn -> Seq(Frame)] /\ wire' \in [Conn -> Units]
         /\ inbox' \in [Conn -> Seq(Units)] /\ closed' \in [Conn -> BOOLEAN]
         /\ adding \notin closing
         /\ \A c \in closing : net'[c] = "unused"
         /\ \A c \in Conn : c \notin closing =>
              /\ net'[c] = net[c] /\ sent'[c] = sent[c] /\ wire'[c] = wire[c]
              /\ inbox'[c] = inbox[c]
         /\ AcceptInv' /\ UnitInv'
<1>1. /\ net \in [Conn -> {"unused", "accepted", "open"}]
      /\ sent \in [Conn -> Seq(Frame)] /\ wire \in [Conn -> Units]
      /\ inbox \in [Conn -> Seq(Units)] /\ closed \in [Conn -> BOOLEAN]
      /\ \A c \in Conn : Listed(c) => net[c] = "open" /\ c # adding
      /\ client_queue \in Seq(Conn)
  BY DEF Inv, TypeOK
<1>2. /\ \A c \in closing : /\ net'[c] = "unused" /\ sent'[c] = <<>> /\ wire'[c] = <<>>
                            /\ inbox'[c] = <<>>
      /\ \A c \in Conn : c \notin closing =>
           /\ net'[c] = net[c] /\ sent'[c] = sent[c] /\ wire'[c] = wire[c]
           /\ inbox'[c] = inbox[c]
  BY DEF CloseConns
<1>3. /\ net' \in [Conn -> {"unused", "accepted", "open"}]
      /\ closed' \in [Conn -> BOOLEAN]
  BY <1>1 DEF CloseConns
<1>4. /\ sent' \in [Conn -> Seq(Frame)] /\ wire' \in [Conn -> Units]
      /\ inbox' \in [Conn -> Seq(Units)]
  <2>1. <<>> \in Seq(Frame) /\ <<>> \in Units /\ <<>> \in Seq(Units)
    BY DEF Units
  <2> QED
    BY <1>1, <2>1 DEF CloseConns
<1>5. \A c \in closing : net[c] = "open" /\ c # adding
  BY <1>1
<1>6. AcceptInv'
  <2>1. \A i \in DOMAIN client_queue : client_queue[i] \in Conn
    BY <1>1, ItemsAre
  <2>2. ASSUME NEW i \in DOMAIN client_queue PROVE net'[client_queue[i]] = "accepted"
    <3>1. net[client_queue[i]] = "accepted"
      BY DEF Inv, AcceptInv
    <3> QED
      BY <1>2, <1>5, <2>1, <3>1
  <2>3. \A c \in Conn : net'[c] # "open" =>
          sent'[c] = <<>> /\ wire'[c] = <<>> /\ inbox'[c] = <<>>
    BY <1>2 DEF Inv, AcceptInv
  <2>4. \A c \in Conn : net'[c] = "accepted" => told'[c] = <<>>
    BY <1>2 DEF Inv, AcceptInv
  <2> QED
    BY <2>2, <2>3, <2>4 DEF Inv, AcceptInv
<1>7. UnitInv'
  <2>1. Len(<<>>) = 0 /\ InOrder(<<>>, <<>>) /\ 0 <= frames
    BY SetsAre DEF InOrder, Inv, UnitInv
  <2>2. ASSUME NEW c \in Conn
        PROVE  /\ Len(sent'[c]) <= frames /\ InOrder(sent'[c], wire'[c])
               /\ \A i \in DOMAIN inbox'[c] :
                    /\ inbox'[c][i] # <<>>
                    /\ \A j \in DOMAIN inbox'[c][i] : IsOf(sent'[c], inbox'[c][i][j])
    <3>1. CASE c \in closing
      BY <1>2, <2>1, <3>1
    <3>2. CASE c \notin closing
      BY <1>2, <3>2 DEF Inv, UnitInv
    <3> QED
      BY <3>1, <3>2
  <2>3. frames' \in 0 .. MaxFrames
    BY DEF Inv, UnitInv
  <2> QED
    BY <2>2, <2>3 DEF UnitInv
<1> QED
  BY <1>2, <1>3, <1>4, <1>5, <1>6, <1>7

LEMMA CallKeeps ==
  ASSUME Inv, NEW removed \in SUBSET Connected, NEW pinged \in SUBSET Slot,
         Call(removed, pinged)
  PROVE  Inv'
<1> DEFINE closing == {clients[s].conn : s \in removed}
<1>1. /\ mutex = "free" /\ CloseConns(closing)
      /\ clients' = [s \in Slot |->
            IF s \in removed THEN Disconnected(clients[s])
            ELSE IF s \in pinged THEN [clients[s] EXCEPT !.ping = TRUE] ELSE clients[s]]
      /\ UNCHANGED <<client_queue, adding, queue, mutex, server, conn, num, header, read,
                     ring, told, dropped, joined, late, lost, frames>>
  BY DEF Call, adder, reader, frame, outcome, excuses
<1>2. /\ clients \in [Slot -> Client] /\ server \notin {"recv", "piece"}
      /\ \A s, t \in Slot :
           clients[s].conn = clients[t].conn /\ clients[s].conn # NoConn => s = t
      /\ \A c \in Conn : Listed(c) => net[c] = "open" /\ c # adding
  BY <1>1 DEF Inv, TypeOK
<1>3. \A s \in removed : /\ s \in Slot /\ clients[s].conn # NoConn
                         /\ clients[s].conn \in Conn
  BY <1>2 DEF Connected, Client
<1>4. closing \in SUBSET Conn /\ \A c \in closing : Listed(c)
  BY <1>3 DEF Listed
<1>5. ASSUME NEW s \in Slot
      PROVE  /\ clients'[s] \in Client
             /\ s \in removed => clients'[s].conn = NoConn
             /\ s \notin removed => clients'[s].conn = clients[s].conn
  <2>1. clients[s] \in Client
    BY <1>2
  <2>2. CASE s \in removed
    BY <1>1, <2>1, <2>2, DisconnectedIs
  <2>3. CASE s \notin removed
    <3>1. /\ [clients[s] EXCEPT !.ping = TRUE] \in Client
          /\ [clients[s] EXCEPT !.ping = TRUE].conn = clients[s].conn
      BY <2>1 DEF Client
    <3> QED
      BY <1>1, <2>1, <2>3, <3>1
  <2> QED
    BY <2>2, <2>3
<1>6. clients' \in [Slot -> Client]
  BY <1>1, <1>5
<1>7. \A s, t \in Slot :
        clients'[s].conn = clients'[t].conn /\ clients'[s].conn # NoConn => s = t
  BY <1>2, <1>5
<1>8. \A c \in Conn : Listed(c)' => Listed(c) /\ c \notin closing
  <2> SUFFICES ASSUME NEW c \in Conn, Listed(c)' PROVE Listed(c) /\ c \notin closing
    OBVIOUS
  <2>1. PICK s \in Slot : clients'[s].conn = c
    BY DEF Listed
  <2>2. s \notin removed /\ clients[s].conn = c
    BY <1>5, <2>1, SetsAre
  <2>3. c \notin closing
    BY <1>2, <1>3, <2>2
  <2> QED
    BY <2>2, <2>3 DEF Listed
<1>9. /\ net' \in [Conn -> {"unused", "accepted", "open"}]
      /\ sent' \in [Conn -> Seq(Frame)] /\ wire' \in [Conn -> Units]
      /\ inbox' \in [Conn -> Seq(Units)] /\ closed' \in [Conn -> BOOLEAN]
      /\ adding \notin closing
      /\ \A c \in closing : net'[c] = "unused"
      /\ \A c \in Conn : c \notin closing =>
           /\ net'[c] = net[c] /\ sent'[c] = sent[c] /\ wire'[c] = wire[c]
           /\ inbox'[c] = inbox[c]
      /\ AcceptInv' /\ UnitInv'
  BY <1>1, <1>4, ClosedKeeps
<1> HIDE DEF closing
<1>10. \A c \in Conn : Listed(c)' => net'[c] = "open" /\ c # adding
  BY <1>2, <1>8, <1>9
<1>11. TypeOK'
  BY <1>1, <1>2, <1>6, <1>7, <1>9, <1>10 DEF Inv, TypeOK
<1>12. LockInv'
  <2>1. adding \in Conn => net'[adding] = net[adding]
    BY <1>9
  <2> QED
    BY <1>1, <2>1 DEF Inv, LockInv
<1>13. ReadInv'
  BY <1>1, <1>2 DEF ReadInv
<1>14. Delivery'
  <2> SUFFICES ASSUME NEW c \in Conn PROVE DeliveryOf(c)'
    BY DEF Delivery
  <2>1. CASE c \in closing
    BY <1>9, <2>1 DEF DeliveryOf
  <2>2. CASE c \notin closing
    <3>1. Excused(c)' = Excused(c) /\ Reading(c)' = Reading(c)
      BY <1>1 DEF Excused, Reading
    <3> QED
      BY <1>1, <1>9, <2>2, <3>1, DeliveredSame DEF Inv, Delivery
  <2> QED
    BY <2>1, <2>2
<1> QED
  BY <1>9, <1>11, <1>12, <1>13, <1>14 DEF Inv

LEMMA CallsKeep ==
  ASSUME Inv,
         \/ \E n \in Slot : SendClient(n) \/ ws_server_remove_client(n)
         \/ \E url \in Url : SendClients(url) \/ ws_server_remove_clients(url)
         \/ SendAll \/ ws_server_ping \/ ws_server_remove_all
  PROVE  Inv'
<1>1. /\ Connected \in SUBSET Slot /\ Connected \in SUBSET Connected
      /\ {} \in SUBSET Slot /\ {} \in SUBSET Connected
      /\ \A S : S \cap Connected \in SUBSET Connected /\ Connected \ S \in SUBSET Slot
      /\ \A S : \A failing \in Failing(S) : failing \in SUBSET Connected
      /\ \A url : ClientsOf(url) \in SUBSET Connected
  BY DEF Connected, Failing, ClientsOf
<1>2. ASSUME NEW n \in Slot, SendClient(n) \/ ws_server_remove_client(n) PROVE Inv'
  BY <1>1, <1>2, CallKeeps DEF SendClient, ws_server_remove_client
<1>3. ASSUME NEW url \in Url, SendClients(url) \/ ws_server_remove_clients(url) PROVE Inv'
  BY <1>1, <1>3, CallKeeps DEF SendClients, ws_server_remove_clients
<1>4. ASSUME SendAll \/ ws_server_ping \/ ws_server_remove_all PROVE Inv'
  BY <1>1, <1>4, CallKeeps DEF SendAll, ws_server_ping, ws_server_remove_all
<1> QED
  BY <1>2, <1>3, <1>4

-----------------------------------------------------------------------------
(* Steps of ws_server_task that read *)

\* The connection that is read from is that of an open client.
LEMMA ReadFrom ==
  ASSUME Inv, server \in {"recv", "piece"}
  PROVE  /\ conn \in Conn /\ num \in Slot /\ clients[num] \in Client
         /\ clients[num].conn = conn /\ conn # NoConn /\ Listed(conn)
         /\ net[conn] = "open" /\ conn # adding /\ mutex = "server"
         /\ inbox \in [Conn -> Seq(Seq(Unit))]
         /\ \A d \in Conn : d # conn => ~Reading(d)
<1>1. conn \in Conn /\ num \in Slot
  BY DEF Inv, LockInv
<1>2. /\ clients \in [Slot -> Client] /\ clients[num].conn = conn /\ mutex = "server"
      /\ inbox \in [Conn -> Seq(Seq(Unit))]
  BY DEF Inv, TypeOK, Units, Unit
<1>3. Listed(conn)
  BY <1>1, <1>2 DEF Listed
<1> QED
  BY <1>1, <1>2, <1>3, SetsAre DEF Inv, TypeOK, Reading

\* The segment that is read, and the inbox behind it.
LEMMA SegmentRead ==
  ASSUME Inv, server \in {"recv", "piece"}, inbox[conn] # <<>>
  PROVE  /\ Segment \in Seq(Unit) /\ Segment # <<>>
         /\ Len(Segment) \in Nat \ {0} /\ DOMAIN Segment = 1 .. Len(Segment)
         /\ \A i \in DOMAIN Segment : IsOf(sent[conn], Segment[i]) /\ Segment[i] \in Unit
         /\ Tail(inbox[conn]) \in Seq(Seq(Unit))
         /\ \A i \in DOMAIN Tail(inbox[conn]) :
              /\ Tail(inbox[conn])[i] # <<>>
              /\ \A j \in DOMAIN Tail(inbox[conn])[i] :
                   IsOf(sent[conn], Tail(inbox[conn])[i][j])
<1>1. conn \in Conn /\ inbox[conn] \in Seq(Seq(Unit))
  BY ReadFrom
<1>2. /\ Tail(inbox[conn]) \in Seq(Seq(Unit)) /\ Segment \in Seq(Unit)
      /\ Segment = inbox[conn][1]
      /\ Len(inbox[conn]) \in Nat \ {0} /\ DOMAIN inbox[conn] = 1 .. Len(inbox[conn])
      /\ DOMAIN Tail(inbox[conn]) = 1 .. Len(inbox[conn]) - 1
      /\ \A i \in 1 .. Len(inbox[conn]) - 1 : Tail(inbox[conn])[i] = inbox[conn][i + 1]
  BY <1>1, Tailed DEF Segment
<1>3. 1 \in DOMAIN inbox[conn] /\ \A i \in DOMAIN Tail(inbox[conn]) :
        i + 1 \in DOMAIN inbox[conn] /\ Tail(inbox[conn])[i] = inbox[conn][i + 1]
  BY SMTT(30), <1>2
<1>4. \A i \in DOMAIN inbox[conn] :
        /\ inbox[conn][i] # <<>>
        /\ \A j \in DOMAIN inbox[conn][i] : IsOf(sent[conn], inbox[conn][i][j])
  BY <1>1 DEF Inv, UnitInv
<1>5. Segment # <<>> /\ \A i \in DOMAIN Segment : IsOf(sent[conn], Segment[i])
  BY <1>2, <1>3, <1>4
<1>6. Len(Segment) \in Nat \ {0} /\ DOMAIN Segment = 1 .. Len(Segment)
  BY <1>2, <1>5, ItemsAre
<1>7. \A i \in DOMAIN Segment : Segment[i] \in Unit
  BY <1>2, ItemsAre
<1>8. ASSUME NEW i \in DOMAIN Tail(inbox[conn])
      PROVE  /\ Tail(inbox[conn])[i] # <<>>
             /\ \A j \in DOMAIN Tail(inbox[conn])[i] :
                  IsOf(sent[conn], Tail(inbox[conn])[i][j])
  BY <1>3, <1>4
<1> QED
  BY <1>2, <1>5, <1>6, <1>7, <1>8

\* The network when a segment is taken.
LEMMA SegmentTaken ==
  ASSUME Inv, server \in {"recv", "piece"}, inbox[conn] # <<>>,
         inbox' = [inbox EXCEPT ![conn] = Tail(@)],
         UNCHANGED <<net, sent, wire, client_queue, adding, frames>>,
         \A c \in Conn : net[c] = "accepted" => told'[c] = told[c]
  PROVE  /\ inbox' \in [Conn -> Seq(Units)] /\ inbox'[conn] = Tail(inbox[conn])
         /\ \A c \in Conn : c # conn => inbox'[c] = inbox[c]
         /\ AcceptInv' /\ UnitInv'
<1>1. conn \in Conn /\ inbox \in [Conn -> Seq(Seq(Unit))] /\ net[conn] = "open"
  BY ReadFrom
<1>2. /\ inbox'[conn] = Tail(inbox[conn]) /\ Tail(inbox[conn]) \in Seq(Seq(Unit))
      /\ \A c \in Conn : c # conn => inbox'[c] = inbox[c]
  BY <1>1, SegmentRead
<1>3. inbox' \in [Conn -> Seq(Units)]
  <2>1. inbox' \in [Conn -> Seq(Seq(Unit))]
    BY <1>1, <1>2
  <2> QED
    BY <2>1 DEF Units, Unit
<1>4. AcceptInv'
  BY <1>1, <1>2 DEF Inv, AcceptInv
<1>5. UnitInv'
  <2>1. ASSUME NEW c \in Conn, NEW i \in DOMAIN inbox'[c]
        PROVE  /\ inbox'[c][i] # <<>>
               /\ \A j \in DOMAIN inbox'[c][i] : IsOf(sent'[c], inbox'[c][i][j])
    <3>1. CASE c = conn
      BY <1>2, <2>1, <3>1, SegmentRead
    <3>2. CASE c # conn
      BY <1>2, <2>1, <3>2 DEF Inv, UnitInv
    <3> QED
      BY <3>1, <3>2
  <2> QED
    BY <2>1 DEF Inv, UnitInv
<1> QED
  BY <1>2, <1>3, <1>4, <1>5

LEMMA ClientAfterIs ==
  ASSUME NEW client \in Client, NEW h \in Frame
  PROVE  /\ ClientAfter(client, h) \in Client
         /\ Ends(h, {"CLOSE"}) => ClientAfter(client, h).conn = NoConn
         /\ ~Ends(h, {"CLOSE"}) => ClientAfter(client, h).conn = client.conn
<1>1. h.len \in Nat /\ h.op \in Op /\ h.fin \in BOOLEAN
  BY FrameIs
<1>2. CASE Ends(h, {"CLOSE"})
  <2>1. ClientAfter(client, h) = Disconnected(client)
    BY <1>2 DEF ClientAfter, Ends
  <2> QED
    BY <1>2, <2>1, DisconnectedIs
<1>3. CASE Ends(h, {"PONG"})
  <2>1. ClientAfter(client, h) = [client EXCEPT !.last_opcode = "PONG", !.ping = FALSE]
    BY <1>3 DEF ClientAfter, Ends
  <2> QED
    BY <1>3, <2>1 DEF Client, Op, Ends
<1>4. CASE h.fin /\ h.op \notin {"CLOSE", "PONG"}
  <2>1. ClientAfter(client, h) = [client EXCEPT !.last_opcode = h.op]
    BY <1>4 DEF ClientAfter, Ends
  <2> QED
    BY <1>1, <1>4, <2>1 DEF Client, Ends
<1>5. CASE ~h.fin /\ h.op \in {"TEXT", "BIN"}
  <2>1. ClientAfter(client, h) = [client EXCEPT !.last_opcode = h.op, !.len = h.len]
    BY <1>5 DEF ClientAfter, Ends
  <2> QED
    BY <1>1, <1>5, <2>1 DEF Client, Ends
<1>6. CASE ~h.fin /\ h.op = "CONT" /\ client.last_opcode \in {"TEXT", "BIN"}
  <2>1. ClientAfter(client, h) = [client EXCEPT !.len = @ + h.len]
    BY <1>6 DEF ClientAfter, Ends
  <2>2. client.len + h.len \in Nat
    BY <1>1 DEF Client
  <2> QED
    BY <1>6, <2>1, <2>2 DEF Client, Ends
<1>7. CASE /\ ~h.fin /\ h.op \notin {"TEXT", "BIN"}
           /\ ~(h.op = "CONT" /\ client.last_opcode \in {"TEXT", "BIN"})
  <2>1. ClientAfter(client, h) = client
    BY <1>7 DEF ClientAfter, Ends
  <2> QED
    BY <1>7, <2>1 DEF Ends
<1> QED
  BY <1>1, <1>2, <1>3, <1>4, <1>5, <1>6, <1>7 DEF Ends

LEMMA MessageIs ==
  ASSUME Inv, conn \in Conn, NEW h, NEW us \in Seq(Unit), us # <<>>,
         IsOf(sent[conn], us[1])
  PROVE  /\ Message(h, us) \in 0 .. MaxFrames
         /\ \A k \in Nat : (\A i \in DOMAIN us : us[i] = <<k + 1, i>>) =>
              Message(h, us) = k + 1
<1>1. /\ sent[conn] \in Seq(Frame) /\ Len(sent[conn]) <= frames /\ frames \in 0 .. MaxFrames
      /\ Len(sent[conn]) \in Nat /\ DOMAIN sent[conn] = 1 .. Len(sent[conn])
  BY OfConn, ItemsAre DEF Inv, UnitInv
<1>2. us[1][1] \in 1 .. Len(sent[conn])
  BY <1>1 DEF IsOf
<1>3. us[1][1] \in 0 .. MaxFrames /\ 0 \in 0 .. MaxFrames
  BY <1>1, <1>2, SetsAre
<1>4. DOMAIN us = 1 .. Len(us) /\ 1 \in DOMAIN us
  BY ItemsAre
<1>5. ASSUME NEW k \in Nat, \A i \in DOMAIN us : us[i] = <<k + 1, i>>
      PROVE  Message(h, us) = k + 1
  <2>1. us[1][1] = k + 1
    BY <1>4, <1>5
  <2>2. \A n \in 1 .. Len(us) : us[n] = <<us[1][1], n>>
    BY <1>4, <1>5, <2>1
  <2> QED
    BY <2>1, <2>2 DEF Message
<1>6. Message(h, us) \in 0 .. MaxFrames
  BY <1>3 DEF Message
<1> QED
  BY <1>5, <1>6

LEMMA TellIs ==
  ASSUME Inv, conn \in Conn, NEW h \in Frame, NEW us \in Seq(Unit), us # <<>>,
         IsOf(sent[conn], us[1]), Tell(h, us)
  PROVE  /\ told' \in [Conn -> Seq(0 .. MaxFrames)] /\ ring' \in 0 .. RingRoom
         /\ dropped' \in [Conn -> BOOLEAN]
         /\ \A c \in Conn : /\ c # conn => told'[c] = told[c] /\ dropped'[c] = dropped[c]
                            /\ dropped[c] => dropped'[c]
         /\ ~dropped'[conn] =>
              told'[conn] = IF IsMessageFrame(h) THEN Append(told[conn], Message(h, us))
                            ELSE told[conn]
<1>1. /\ told \in [Conn -> Seq(0 .. MaxFrames)] /\ ring \in 0 .. RingRoom
      /\ dropped \in [Conn -> BOOLEAN] /\ told[conn] \in Seq(0 .. MaxFrames)
  BY DEF Inv, TypeOK
<1>2. Append(told[conn], Message(h, us)) \in Seq(0 .. MaxFrames)
  <2>1. Message(h, us) \in 0 .. MaxFrames
    BY MessageIs
  <2> QED
    BY <1>1, <2>1
<1>3. CASE Ends(h, {"BIN"}) \/ (Ends(h, {"TEXT"}) /\ ring < RingRoom)
  <2>1. /\ told' = [told EXCEPT ![conn] = Append(@, Message(h, us))]
        /\ ring' = ring + (IF h.op = "TEXT" THEN 1 ELSE 0) /\ UNCHANGED dropped
    BY <1>3 DEF Tell
  <2>2. ring' \in 0 .. RingRoom
    BY <1>1, <1>3, <2>1, SetsAre DEF Ends
  <2>3. IsMessageFrame(h)
    BY <1>3 DEF IsMessageFrame, Ends
  <2> QED
    BY <1>1, <1>2, <2>1, <2>2, <2>3
<1>4. CASE ~(Ends(h, {"BIN"}) \/ (Ends(h, {"TEXT"}) /\ ring < RingRoom))
  <2>1. /\ dropped' = [dropped EXCEPT ![conn] = @ \/ Ends(h, {"TEXT"})]
        /\ UNCHANGED <<told, ring>>
    BY <1>4 DEF Tell
  <2>2. Ends(h, {"TEXT"}) \in BOOLEAN
    BY FrameIs DEF Ends
  <2>3. dropped' \in [Conn -> BOOLEAN] /\ (dropped'[conn] = (dropped[conn] \/ Ends(h, {"TEXT"})))
        /\ \A c \in Conn : c # conn => dropped'[c] = dropped[c]
    BY <1>1, <2>1, <2>2
  <2>4. IsMessageFrame(h) => Ends(h, {"TEXT"})
    BY <1>4 DEF IsMessageFrame, Ends
  <2> QED
    BY <1>1, <2>1, <2>3, <2>4
<1> QED
  BY <1>3, <1>4

\* A frame is complete, and the next one is expected.
LEMMA FrameReadKeeps ==
  ASSUME Inv, server \in {"recv", "piece"}, inbox[conn] # <<>>,
         NEW h \in Frame, NEW us \in Seq(Unit), us # <<>>, IsOf(sent[conn], us[1]),
         NEW client \in Client, client.conn = conn, FrameRead(h, us, client),
         UNCHANGED <<client_queue, adding, queue, frames, joined, late, lost>>,
         ~Excused(conn) => \E k \in Nat :
           /\ k + 1 \in DOMAIN sent[conn] /\ h = sent[conn][k + 1]
           /\ \A i \in DOMAIN us : us[i] = <<k + 1, i>>
           /\ ToldOf(sent[conn], told[conn], k)
           /\ Rest(sent[conn], Tail(inbox[conn]), wire[conn], <<k + 1 + 1, 1>>)
  PROVE  Inv'
<1>1. /\ Tell(h, us) /\ clients' = [clients EXCEPT ![num] = ClientAfter(client, h)]
      /\ IF Ends(h, {"CLOSE"}) THEN CloseConns({conn})
         ELSE /\ inbox' = [inbox EXCEPT ![conn] = Tail(@)]
              /\ UNCHANGED <<net, sent, wire, closed>>
      /\ server' = "idle" /\ conn' = NoConn /\ mutex' = "free"
  BY DEF FrameRead, Release
<1>2. /\ conn \in Conn /\ num \in Slot /\ clients[num].conn = conn /\ conn # NoConn
      /\ Listed(conn) /\ net[conn] = "open" /\ mutex = "server"
      /\ \A d \in Conn : d # conn => ~Reading(d)
  BY ReadFrom
<1>3. /\ told' \in [Conn -> Seq(0 .. MaxFrames)] /\ ring' \in 0 .. RingRoom
      /\ dropped' \in [Conn -> BOOLEAN]
      /\ \A c \in Conn : /\ c # conn => told'[c] = told[c] /\ dropped'[c] = dropped[c]
                         /\ dropped[c] => dropped'[c]
      /\ ~dropped'[conn] =>
           told'[conn] = IF IsMessageFrame(h) THEN Append(told[conn], Message(h, us))
                         ELSE told[conn]
  BY <1>1, <1>2, TellIs
<1>4. \A c \in Conn : net[c] = "accepted" => told'[c] = told[c]
  BY <1>2, <1>3
<1> DEFINE closing == IF Ends(h, {"CLOSE"}) THEN {conn} ELSE {}
<1>5. /\ net' \in [Conn -> {"unused", "accepted", "open"}]
      /\ sent' \in [Conn -> Seq(Frame)] /\ wire' \in [Conn -> Units]
      /\ inbox' \in [Conn -> Seq(Units)] /\ closed' \in [Conn -> BOOLEAN]
      /\ \A c \in closing : net'[c] = "unused"
      /\ \A c \in Conn : c \notin closing =>
           /\ net'[c] = net[c] /\ sent'[c] = sent[c] /\ wire'[c] = wire[c]
           /\ inbox'[c] = IF c = conn THEN Tail(inbox[c]) ELSE inbox[c]
      /\ AcceptInv' /\ UnitInv'
  <2>1. CASE Ends(h, {"CLOSE"})
    <3>1. {conn} \in SUBSET Conn /\ \A c \in {conn} : Listed(c)
      BY <1>2
    <3>2. CloseConns({conn})
      BY <1>1, <2>1
    <3> QED
      BY <1>2, <1>4, <2>1, <3>1, <3>2, ClosedKeeps
  <2>2. CASE ~Ends(h, {"CLOSE"})
    <3>1. inbox' = [inbox EXCEPT ![conn] = Tail(@)] /\ UNCHANGED <<net, sent, wire, closed>>
      BY <1>1, <2>2
    <3>2. /\ inbox' \in [Conn -> Seq(Units)] /\ inbox'[conn] = Tail(inbox[conn])
          /\ \A c \in Conn : c # conn => inbox'[c] = inbox[c]
          /\ AcceptInv' /\ UnitInv'
      BY <1>4, <3>1, SegmentTaken
    <3> QED
      BY <2>2, <3>1, <3>2 DEF Inv, TypeOK
  <2> QED
    BY <2>1, <2>2
<1>6. /\ clients \in [Slot -> Client]
      /\ \A s, t \in Slot :
           clients[s].conn = clients[t].conn /\ clients[s].conn # NoConn => s = t
      /\ \A c \in Conn : Listed(c) => net[c] = "open" /\ c # adding
  BY DEF Inv, TypeOK
<1>7. /\ clients' \in [Slot -> Client]
      /\ clients'[num].conn = IF Ends(h, {"CLOSE"}) THEN NoConn ELSE conn
      /\ \A s \in Slot : s # num => clients'[s] = clients[s]
  <2>1. /\ ClientAfter(client, h) \in Client
        /\ Ends(h, {"CLOSE"}) => ClientAfter(client, h).conn = NoConn
        /\ ~Ends(h, {"CLOSE"}) => ClientAfter(client, h).conn = conn
    BY ClientAfterIs
  <2> QED
    BY <1>1, <1>2, <1>6, <2>1
<1>8. \A s, t \in Slot :
        clients'[s].conn = clients'[t].conn /\ clients'[s].conn # NoConn => s = t
  <2>1. \A s \in Slot : clients'[s].conn # NoConn => clients'[s].conn = clients[s].conn
    BY <1>2, <1>7
  <2> QED
    BY <1>6, <2>1
<1>9. \A c \in Conn : Listed(c)' => Listed(c) /\ c \notin closing
  <2> SUFFICES ASSUME NEW c \in Conn, Listed(c)' PROVE Listed(c) /\ c \notin closing
    OBVIOUS
  <2>1. PICK s \in Slot : clients'[s].conn = c
    BY DEF Listed
  <2>2. CASE s = num
    BY <1>2, <1>7, <2>1, <2>2, SetsAre
  <2>3. CASE s # num
    <3>1. clients[s].conn = c
      BY <1>7, <2>1, <2>3
    <3>2. c # conn
      BY <1>2, <1>6, <2>3, <3>1
    <3> QED
      BY <3>1, <3>2 DEF Listed
  <2> QED
    BY <2>2, <2>3
<1> HIDE DEF closing
<1>10. \A c \in Conn : Listed(c)' => net'[c] = "open" /\ c # adding
  BY <1>5, <1>6, <1>9
<1>11. TypeOK'
  <2>1. /\ net' \in [Conn -> {"unused", "accepted", "open"}]
        /\ sent' \in [Conn -> Seq(Frame)] /\ wire' \in [Conn -> Units]
        /\ inbox' \in [Conn -> Seq(Units)] /\ closed' \in [Conn -> BOOLEAN]
    BY <1>5
  <2>2. /\ client_queue' \in Seq(Conn) /\ adding' \in Conn \cup {NoConn} /\ adding' = adding
        /\ queue' \in Seq(Conn) /\ Len(queue') <= QueueSize
        /\ joined' \in [Conn -> BOOLEAN] /\ late' \in [Conn -> BOOLEAN]
        /\ lost' \in [Conn -> BOOLEAN]
    BY DEF Inv, TypeOK
  <2>3. mutex' = "free" /\ server' = "idle"
    BY <1>1
  <2> QED
    BY <1>3, <1>7, <1>8, <1>10, <2>1, <2>2, <2>3 DEF TypeOK
<1>12. LockInv'
  <2>1. adding \in Conn => net'[adding] = net[adding]
    <3>1. adding \in Conn => adding \notin closing
      BY <1>2, <1>6 DEF closing
    <3> QED
      BY <1>5, <3>1
  <2> QED
    BY <1>1, <1>2, <2>1 DEF Inv, LockInv
<1>13. ReadInv'
  BY <1>1 DEF ReadInv
<1>14. Delivery'
  <2> SUFFICES ASSUME NEW d \in Conn PROVE DeliveryOf(d)'
    BY DEF Delivery
  <2>1. CASE d \in closing
    BY <1>5, <2>1 DEF DeliveryOf
  <2>2. CASE d # conn
    <3>1. (Excused(d) => Excused(d)') /\ Reading(d)' = Reading(d)
      BY <1>1, <1>2, <1>3, <2>2 DEF Excused, Reading
    <3>2. d \notin closing
      BY <2>2 DEF closing
    <3> QED
      BY <1>1, <1>2, <1>3, <1>5, <2>2, <3>1, <3>2, DeliveredSame DEF Inv, Delivery
  <2>3. CASE d = conn /\ d \notin closing
    <3> SUFFICES ASSUME ~Excused(d)' PROVE \E k \in Nat : Delivered(d, k)'
      BY <2>3 DEF DeliveryOf
    <3>1. ~Excused(conn) /\ ~dropped'[conn]
      BY <1>2, <1>3, <2>3 DEF Excused
    <3>2. PICK k \in Nat :
            /\ k + 1 \in DOMAIN sent[conn] /\ h = sent[conn][k + 1]
            /\ \A i \in DOMAIN us : us[i] = <<k + 1, i>>
            /\ ToldOf(sent[conn], told[conn], k)
            /\ Rest(sent[conn], Tail(inbox[conn]), wire[conn], <<k + 1 + 1, 1>>)
      BY <3>1
    <3>3. sent[conn] \in Seq(Frame) /\ told[conn] \in Seq(Nat)
      BY <1>2, OfConn DEF Inv
    <3>4. Message(h, us) = k + 1
      BY <1>2, <3>2, MessageIs
    <3>5. ToldOf(sent[conn], told'[conn], k + 1)
      BY <1>3, <3>1, <3>2, <3>3, <3>4, ToldMore
    <3>6. k + 1 \in 0 .. Len(sent[conn])
      BY <3>2, <3>3
    <3>7. /\ sent'[conn] = sent[conn] /\ wire'[conn] = wire[conn]
          /\ inbox'[conn] = Tail(inbox[conn])
      BY <1>2, <1>5, <2>3
    <3>8. ~Reading(d)'
      BY <1>1 DEF Reading
    <3>9. Delivered(d, k + 1)'
      BY <2>3, <3>2, <3>5, <3>6, <3>7, <3>8 DEF Delivered
    <3> QED
      BY <3>9
  <2> QED
    BY <2>1, <2>2, <2>3
<1> QED
  BY <1>5, <1>11, <1>12, <1>13, <1>14 DEF Inv

\* What is read of the next frame, if the connection is not excused.
LEMMA NextFrame ==
  ASSUME Inv, server = "recv", inbox[conn] # <<>>, ~Excused(conn)
  PROVE  \E k \in Nat :
           /\ k \in 0 .. Len(sent[conn]) /\ k + 1 \in DOMAIN sent[conn]
           /\ sent[conn][k + 1] \in Frame
           /\ HeaderOf(Segment[1]) = {sent[conn][k + 1]}
           /\ Len(Segment) <= sent[conn][k + 1].len
           /\ \A i \in DOMAIN Segment : Segment[i] = <<k + 1, i>>
           /\ ToldOf(sent[conn], told[conn], k)
           /\ Rest(sent[conn], Tail(inbox[conn]), wire[conn],
                   IF Len(Segment) < sent[conn][k + 1].len
                     THEN <<k + 1, Len(Segment) + 1>> ELSE <<k + 1 + 1, 1>>)
<1>1. conn \in Conn /\ net[conn] = "open" /\ ~Reading(conn)
  BY ReadFrom DEF Reading
<1>2. PICK k \in Nat : Delivered(conn, k)
  BY <1>1 DEF Inv, Delivery, DeliveryOf
<1>3. /\ k \in 0 .. Len(sent[conn]) /\ ToldOf(sent[conn], told[conn], k)
      /\ Rest(sent[conn], inbox[conn], wire[conn], <<k + 1, 1>>)
  BY <1>1, <1>2 DEF Delivered
<1>4. sent[conn] \in Seq(Frame) /\ inbox[conn] \in Seq(Seq(Unit))
  BY <1>1, OfConn DEF Inv
<1>5. /\ OfOne(sent[conn], Segment) /\ Segment \in Seq(Unit) /\ Segment[1] = <<k + 1, 1>>
      /\ Rest(sent[conn], Tail(inbox[conn]), wire[conn],
              After(sent[conn], LastOf(Segment)))
  BY SMTT(30), <1>3, <1>4, RestTaken DEF Segment
<1> HIDE DEF Segment
<1>6. GoesOnAt(Segment, k, 0)
  BY <1>5 DEF GoesOnAt
<1>7. /\ k + 1 \in DOMAIN sent[conn] /\ sent[conn][k + 1] \in Frame
      /\ Len(Segment) \in Nat \ {0} /\ 0 + Len(Segment) <= sent[conn][k + 1].len
      /\ \A i \in 1 .. Len(Segment) : Segment[i] = <<k + 1, 0 + i>>
      /\ After(sent[conn], LastOf(Segment)) =
           IF 0 + Len(Segment) < sent[conn][k + 1].len
             THEN <<k + 1, 0 + Len(Segment) + 1>> ELSE <<k + 1 + 1, 1>>
  BY <1>4, <1>5, <1>6, GoesOn
<1>8. 0 + Len(Segment) = Len(Segment) /\ \A i \in 1 .. Len(Segment) : 0 + i = i
  BY <1>7
<1>9. DOMAIN Segment = 1 .. Len(Segment)
  BY <1>5, ItemsAre
<1>10. HeaderOf(Segment[1]) = {sent[conn][k + 1]}
  BY <1>5 DEF HeaderOf
<1>11. \A i \in DOMAIN Segment : Segment[i] = <<k + 1, i>>
  BY ONLY <1>7, <1>8, <1>9
<1>12. Rest(sent[conn], Tail(inbox[conn]), wire[conn],
            IF Len(Segment) < sent[conn][k + 1].len
              THEN <<k + 1, Len(Segment) + 1>> ELSE <<k + 1 + 1, 1>>)
  BY <1>5, <1>7, <1>8, Zenon
<1> QED
  BY <1>3, <1>7, <1>8, <1>10, <1>11, <1>12, Zenon

LEMMA NextPiece ==
  ASSUME Inv, server = "piece", inbox[conn] # <<>>, ~Excused(conn)
  PROVE  \E k \in Nat :
           /\ k \in 0 .. Len(sent[conn])
           /\ k + 1 \in DOMAIN sent[conn] /\ header = sent[conn][k + 1]
           /\ Len(Together) <= header.len
           /\ \A i \in DOMAIN Together : Together[i] = <<k + 1, i>>
           /\ ToldOf(sent[conn], told[conn], k)
           /\ Rest(sent[conn], Tail(inbox[conn]), wire[conn],
                   IF Len(Together) < header.len
                     THEN <<k + 1, Len(Together) + 1>> ELSE <<k + 1 + 1, 1>>)
<1>1. conn \in Conn /\ net[conn] = "open" /\ Reading(conn)
  BY ReadFrom DEF Reading
<1>2. PICK k \in Nat : Delivered(conn, k)
  BY <1>1 DEF Inv, Delivery, DeliveryOf
<1>3. /\ k \in 0 .. Len(sent[conn]) /\ ToldOf(sent[conn], told[conn], k)
      /\ ReadOf(sent[conn], header, read, k)
      /\ Rest(sent[conn], inbox[conn], wire[conn], <<k + 1, Len(read) + 1>>)
  BY <1>1, <1>2 DEF Delivered
<1>4. /\ sent[conn] \in Seq(Frame) /\ inbox[conn] \in Seq(Seq(Unit)) /\ read \in Seq(Unit)
      /\ Len(read) \in Nat /\ DOMAIN read = 1 .. Len(read)
  BY <1>1, OfConn, ItemsAre DEF Inv, ReadInv, Units, Unit
<1>5. /\ OfOne(sent[conn], Segment) /\ Segment \in Seq(Unit)
      /\ Segment[1] = <<k + 1, Len(read) + 1>>
      /\ Rest(sent[conn], Tail(inbox[conn]), wire[conn],
              After(sent[conn], LastOf(Segment)))
  <2>1. Rest(sent[conn], inbox[conn], wire[conn], <<k + 1, Len(read) + 1>>)
    BY <1>3
  <2>2. sent[conn] \in Seq(Frame) /\ inbox[conn] \in Seq(Seq(Unit))
    BY <1>4
  <2>3. /\ OfOne(sent[conn], Head(inbox[conn])) /\ Head(inbox[conn]) \in Seq(Unit)
        /\ Head(inbox[conn])[1] = <<k + 1, Len(read) + 1>>
        /\ Rest(sent[conn], Tail(inbox[conn]), wire[conn],
                After(sent[conn], LastOf(Head(inbox[conn]))))
    BY SMTT(40), <2>1, <2>2, RestTaken
  <2> QED
    BY <2>3, Zenon DEF Segment
<1> HIDE DEF Segment
<1>6. /\ k + 1 \in DOMAIN sent[conn] /\ sent[conn][k + 1] \in Frame
      /\ Len(Segment) \in Nat \ {0} /\ Len(read) + Len(Segment) <= sent[conn][k + 1].len
      /\ \A i \in 1 .. Len(Segment) : Segment[i] = <<k + 1, Len(read) + i>>
      /\ After(sent[conn], LastOf(Segment)) =
           IF Len(read) + Len(Segment) < sent[conn][k + 1].len
             THEN <<k + 1, Len(read) + Len(Segment) + 1>> ELSE <<k + 1 + 1, 1>>
  <2>1. GoesOnAt(Segment, k, Len(read))
    BY <1>5 DEF GoesOnAt
  <2>2. /\ sent[conn] \in Seq(Frame) /\ Segment \in Seq(Unit) /\ OfOne(sent[conn], Segment)
        /\ Len(read) \in Nat
    BY <1>4, <1>5
  <2> QED
    BY ONLY <2>1, <2>2, GoesOn, Zenon
<1>7. /\ Len(Together) = Len(read) + Len(Segment)
      /\ DOMAIN Together = 1 .. Len(read) + Len(Segment)
      /\ \A i \in 1 .. Len(read) : Together[i] = read[i]
      /\ \A i \in 1 .. Len(read) + Len(Segment) : i > Len(read) =>
           i - Len(read) \in 1 .. Len(Segment) /\ Together[i] = Segment[i - Len(read)]
  BY <1>4, <1>5, Together2 DEF Together
<1> HIDE DEF Together
<1>8. header = sent[conn][k + 1] /\ \A i \in 1 .. Len(read) : read[i] = <<k + 1, i>>
  BY <1>3, <1>4 DEF ReadOf
<1>9. ASSUME NEW i \in DOMAIN Together PROVE Together[i] = <<k + 1, i>>
  <2>1. i \in 1 .. Len(read) + Len(Segment)
    BY <1>7
  <2>2. CASE i > Len(read)
    <3>1. i - Len(read) \in 1 .. Len(Segment) /\ Together[i] = Segment[i - Len(read)]
      BY <1>7, <2>1, <2>2
    <3>2. Len(read) + (i - Len(read)) = i
      BY <1>4, <2>1
    <3> QED
      BY <1>6, <3>1, <3>2
  <2>3. CASE ~(i > Len(read))
    <3>1. i \in 1 .. Len(read)
      BY <1>4, <2>1, <2>3
    <3> QED
      BY <1>7, <1>8, <3>1
  <2> QED
    BY <2>2, <2>3
<1> QED
  BY <1>3, <1>5, <1>6, <1>7, <1>8, <1>9

\* More of the frame than was read so far.
LEMMA TogetherIs ==
  ASSUME Inv, server = "piece", inbox[conn] # <<>>
  PROVE  /\ Together \in Seq(Unit) /\ Together # <<>>
         /\ \A i \in DOMAIN Together : IsOf(sent[conn], Together[i])
<1>1. /\ read \in Seq(Unit) /\ \A i \in DOMAIN read : IsOf(sent[conn], read[i])
  BY DEF Inv, ReadInv, Units, Unit
<1>2. /\ Segment \in Seq(Unit) /\ Len(Segment) \in Nat \ {0}
      /\ \A i \in DOMAIN Segment : IsOf(sent[conn], Segment[i])
  BY SegmentRead
<1> HIDE DEF Segment
<1>3. /\ Together \in Seq(Unit) /\ Len(read) \in Nat /\ DOMAIN read = 1 .. Len(read)
      /\ DOMAIN Segment = 1 .. Len(Segment)
      /\ Len(Together) = Len(read) + Len(Segment)
      /\ DOMAIN Together = 1 .. Len(read) + Len(Segment)
      /\ \A i \in 1 .. Len(read) : Together[i] = read[i]
      /\ \A i \in 1 .. Len(read) + Len(Segment) : i > Len(read) =>
           i - Len(read) \in 1 .. Len(Segment) /\ Together[i] = Segment[i - Len(read)]
  BY <1>1, <1>2, Together2 DEF Together
<1> HIDE DEF Together
<1>4. Together # <<>>
  <2>1. Len(Together) # 0
    BY <1>2, <1>3
  <2> QED
    BY <1>3, <2>1, EmptyIs
<1>5. ASSUME NEW i \in DOMAIN Together PROVE IsOf(sent[conn], Together[i])
  <2>1. i \in 1 .. Len(read) + Len(Segment)
    BY <1>3
  <2>2. CASE i > Len(read)
    BY <1>2, <1>3, <2>1, <2>2
  <2>3. CASE ~(i > Len(read))
    <3>1. i \in 1 .. Len(read)
      BY <1>3, <2>1, <2>3
    <3> QED
      BY <1>1, <1>3, <3>1
  <2> QED
    BY <2>2, <2>3
<1> QED
  BY <1>3, <1>4, <1>5

LEMMA RecvFrameKeeps ==
  ASSUME Inv, RecvFrame
  PROVE  Inv'
<1>1. PICK h \in HeaderOf(Segment[1]) :
        IF h.len <= Len(Segment)
          THEN FrameRead(h, SubSeq(Segment, 1, h.len), clients[num])
          ELSE /\ server' = "piece" /\ header' = h /\ read' = Segment
               /\ inbox' = [inbox EXCEPT ![conn] = Tail(@)]
               /\ UNCHANGED <<net, sent, wire, closed, mutex, clients, conn, num, outcome>>
  BY DEF RecvFrame
<1>2. /\ server = "recv" /\ inbox[conn] # <<>>
      /\ UNCHANGED <<client_queue, adding, queue, connects, frames, calls, joined, late,
                     lost>>
  BY DEF RecvFrame, adder, counters, excuses
<1>3. /\ Segment \in Seq(Unit) /\ Segment # <<>>
      /\ Len(Segment) \in Nat \ {0} /\ DOMAIN Segment = 1 .. Len(Segment)
      /\ \A i \in DOMAIN Segment : IsOf(sent[conn], Segment[i]) /\ Segment[i] \in Unit
  BY <1>2, SegmentRead
<1>4. /\ conn \in Conn /\ num \in Slot /\ clients[num] \in Client
      /\ clients[num].conn = conn /\ conn # NoConn /\ net[conn] = "open"
      /\ \A d \in Conn : d # conn => ~Reading(d)
      /\ sent[conn] \in Seq(Frame)
  BY <1>2, ReadFrom, OfConn DEF Inv
<1>5. h \in Frame /\ 1 \in 1 .. Len(Segment)
  <2>1. 1 \in 1 .. Len(Segment)
    BY <1>3
  <2>2. Segment[1][1] \in DOMAIN sent[conn]
    BY <1>3, <2>1 DEF IsOf
  <2>3. sent[conn][Segment[1][1]] \in Frame
    BY <1>4, <2>2, ItemsAre
  <2> QED
    BY <2>1, <2>3 DEF HeaderOf
<1>6. ~Excused(conn) => \E k \in Nat :
        /\ k \in 0 .. Len(sent[conn]) /\ k + 1 \in DOMAIN sent[conn]
        /\ h = sent[conn][k + 1]
        /\ Len(Segment) <= h.len
        /\ \A i \in DOMAIN Segment : Segment[i] = <<k + 1, i>>
        /\ ToldOf(sent[conn], told[conn], k)
        /\ Rest(sent[conn], Tail(inbox[conn]), wire[conn],
                IF Len(Segment) < h.len
                  THEN <<k + 1, Len(Segment) + 1>> ELSE <<k + 1 + 1, 1>>)
  <2> SUFFICES ASSUME ~Excused(conn)
               PROVE  \E k \in Nat :
        /\ k \in 0 .. Len(sent[conn]) /\ k + 1 \in DOMAIN sent[conn]
        /\ h = sent[conn][k + 1]
        /\ Len(Segment) <= h.len
        /\ \A i \in DOMAIN Segment : Segment[i] = <<k + 1, i>>
        /\ ToldOf(sent[conn], told[conn], k)
        /\ Rest(sent[conn], Tail(inbox[conn]), wire[conn],
                IF Len(Segment) < h.len
                  THEN <<k + 1, Len(Segment) + 1>> ELSE <<k + 1 + 1, 1>>)
    OBVIOUS
  <2>1. PICK k \in Nat :
           /\ k \in 0 .. Len(sent[conn]) /\ k + 1 \in DOMAIN sent[conn]
           /\ sent[conn][k + 1] \in Frame
           /\ HeaderOf(Segment[1]) = {sent[conn][k + 1]}
           /\ Len(Segment) <= sent[conn][k + 1].len
           /\ \A i \in DOMAIN Segment : Segment[i] = <<k + 1, i>>
           /\ ToldOf(sent[conn], told[conn], k)
           /\ Rest(sent[conn], Tail(inbox[conn]), wire[conn],
                   IF Len(Segment) < sent[conn][k + 1].len
                     THEN <<k + 1, Len(Segment) + 1>> ELSE <<k + 1 + 1, 1>>)
    BY <1>2, NextFrame
  <2>2. h = sent[conn][k + 1]
    BY <2>1
  <2> QED
    BY <2>1, <2>2
<1> DEFINE us == SubSeq(Segment, 1, h.len)
<1>7. CASE h.len <= Len(Segment)
  <2>1. h.len \in 1 .. Len(Segment)
    BY <1>3, <1>5, <1>7, FrameIs
  <2>2. /\ us \in Seq(Unit) /\ Len(us) = h.len /\ DOMAIN us = 1 .. h.len
        /\ \A i \in 1 .. h.len : us[i] = Segment[i]
    BY <1>3, <2>1, Split
  <2>3. FrameRead(h, us, clients[num])
    BY <1>1, <1>7
  <2> HIDE DEF us
  <2>4. us # <<>> /\ IsOf(sent[conn], us[1])
    <3>1. 1 \in 1 .. h.len /\ Len(us) # 0
      BY <2>1, <2>2
    <3> QED
      BY <1>3, <1>5, <2>2, <3>1
  <2>5. ~Excused(conn) => \E k \in Nat :
           /\ k + 1 \in DOMAIN sent[conn] /\ h = sent[conn][k + 1]
           /\ \A i \in DOMAIN us : us[i] = <<k + 1, i>>
           /\ ToldOf(sent[conn], told[conn], k)
           /\ Rest(sent[conn], Tail(inbox[conn]), wire[conn], <<k + 1 + 1, 1>>)
    <3>1. ~(Len(Segment) < h.len) /\ \A i \in 1 .. h.len : i \in 1 .. Len(Segment)
      BY <1>3, <2>1
    <3> QED
      BY <1>3, <1>6, <2>2, <3>1
  <2> QED
    BY <1>2, <1>4, <1>5, <2>2, <2>3, <2>4, <2>5, FrameReadKeeps
<1>8. CASE ~(h.len <= Len(Segment))
  <2>1. /\ server' = "piece" /\ header' = h /\ read' = Segment
        /\ inbox' = [inbox EXCEPT ![conn] = Tail(@)]
        /\ UNCHANGED <<net, sent, wire, closed, mutex, clients, conn, num, ring, told,
                       dropped>>
    BY <1>1, <1>8 DEF outcome
  <2>2. /\ inbox' \in [Conn -> Seq(Units)] /\ inbox'[conn] = Tail(inbox[conn])
        /\ \A c \in Conn : c # conn => inbox'[c] = inbox[c]
        /\ AcceptInv' /\ UnitInv'
    BY <1>2, <2>1, SegmentTaken
  <2>3. \A c : Listed(c)' = Listed(c)
    BY <2>1 DEF Listed
  <2>4. Len(Segment) < h.len
    BY <1>3, <1>5, <1>8, FrameIs
  <2> HIDE DEF Segment
  <2>5. TypeOK'
    BY <1>2, <2>1, <2>2, <2>3, <2>4 DEF Inv, TypeOK
  <2>6. LockInv'
    BY <1>2, <2>1 DEF Inv, LockInv
  <2>7. ReadInv'
    BY <1>3, <1>5, <2>1 DEF ReadInv, Units, Unit
  <2>8. Delivery'
    <3> SUFFICES ASSUME NEW d \in Conn PROVE DeliveryOf(d)'
      BY DEF Delivery
    <3>1. Excused(d)' = Excused(d)
      BY <1>2, <2>1 DEF Excused
    <3>2. CASE d # conn
      <4>1. Reading(d)' = Reading(d) /\ ~Reading(d)
        BY <1>4, <2>1, <3>2 DEF Reading
      <4> QED
        BY <1>2, <2>1, <2>2, <3>1, <3>2, <4>1, DeliveredSame DEF Inv, Delivery
    <3>3. CASE d = conn
      <4> SUFFICES ASSUME ~Excused(conn) PROVE \E k \in Nat : Delivered(d, k)'
        BY <3>1, <3>3 DEF DeliveryOf
      <4>1. PICK k \in Nat :
              /\ k \in 0 .. Len(sent[conn]) /\ k + 1 \in DOMAIN sent[conn]
              /\ h = sent[conn][k + 1]
              /\ Len(Segment) <= h.len
              /\ \A i \in DOMAIN Segment : Segment[i] = <<k + 1, i>>
              /\ ToldOf(sent[conn], told[conn], k)
              /\ Rest(sent[conn], Tail(inbox[conn]), wire[conn],
                      IF Len(Segment) < h.len
                        THEN <<k + 1, Len(Segment) + 1>> ELSE <<k + 1 + 1, 1>>)
        BY <1>6
      <4>2. Reading(d)'
        BY <2>1, <3>3 DEF Reading
      <4>3. ReadOf(sent'[d], header', read', k)
        BY <2>1, <3>3, <4>1 DEF ReadOf
      <4>4. Rest(sent'[d], inbox'[d], wire'[d], <<k + 1, Len(read') + 1>>)
        BY <2>1, <2>2, <2>4, <3>3, <4>1
      <4>5. k \in 0 .. Len(sent'[d]) /\ ToldOf(sent'[d], told'[d], k)
        BY <2>1, <3>3, <4>1
      <4>6. Delivered(d, k)'
        BY <4>2, <4>3, <4>4, <4>5 DEF Delivered
      <4> QED
        BY <4>6
    <3> QED
      BY <3>2, <3>3
  <2> QED
    BY <2>2, <2>5, <2>6, <2>7, <2>8 DEF Inv
<1> QED
  BY <1>7, <1>8

LEMMA RecvPieceKeeps ==
  ASSUME Inv, RecvPiece
  PROVE  Inv'
<1>1. /\ server = "piece" /\ inbox[conn] # <<>> /\ Len(Together) < header.len
      /\ read' = Together /\ inbox' = [inbox EXCEPT ![conn] = Tail(@)]
      /\ clients' = [clients EXCEPT ![num].unfinished = Unfinished(@)]
      /\ UNCHANGED <<net, sent, wire, closed, client_queue, adding, queue, mutex, server,
                     conn, num, header, ring, told, dropped, joined, late, lost, frames>>
  BY DEF RecvPiece, adder, counters, outcome, excuses
<1>2. /\ conn \in Conn /\ num \in Slot /\ clients[num] \in Client
      /\ clients[num].conn = conn /\ conn # NoConn /\ net[conn] = "open"
      /\ \A d \in Conn : d # conn => ~Reading(d)
  BY <1>1, ReadFrom
<1>3. /\ inbox' \in [Conn -> Seq(Units)] /\ inbox'[conn] = Tail(inbox[conn])
      /\ \A c \in Conn : c # conn => inbox'[c] = inbox[c]
      /\ AcceptInv' /\ UnitInv'
  BY <1>1, SegmentTaken
<1>4. /\ Together \in Seq(Unit) /\ Together # <<>>
      /\ \A i \in DOMAIN Together : IsOf(sent[conn], Together[i])
  BY <1>1, TogetherIs
<1>5. clients' \in [Slot -> Client] /\ \A s \in Slot : clients'[s].conn = clients[s].conn
  <2>1. clients \in [Slot -> Client] /\ Unfinished(clients[num].unfinished) \in Nat
    BY <1>2 DEF Inv, TypeOK, Client, Unfinished
  <2> QED
    BY <1>1, <1>2, <2>1, Unread
<1>6. \A c : Listed(c)' = Listed(c)
  BY <1>5, SameConns
<1>8. TypeOK'
  BY SMTT(30), <1>1, <1>2, <1>3, <1>5, <1>6 DEF Inv, TypeOK
<1>9. LockInv'
  BY <1>1 DEF Inv, LockInv
<1>10. ReadInv'
  BY <1>1, <1>4 DEF Inv, ReadInv, Units, Unit
<1>11. Delivery'
  <2> SUFFICES ASSUME NEW d \in Conn PROVE DeliveryOf(d)'
    BY DEF Delivery
  <2>1. Excused(d)' = Excused(d)
    BY <1>1 DEF Excused
  <2>2. CASE d # conn
    <3>1. Reading(d)' = Reading(d) /\ ~Reading(d)
      BY <1>1, <1>2, <2>2 DEF Reading
    <3> QED
      BY <1>1, <1>3, <2>1, <2>2, <3>1, DeliveredSame DEF Inv, Delivery
  <2>3. CASE d = conn
    <3> SUFFICES ASSUME ~Excused(conn) PROVE \E k \in Nat : Delivered(d, k)'
      BY <2>1, <2>3 DEF DeliveryOf
    <3>1. PICK k \in Nat :
           /\ k \in 0 .. Len(sent[conn])
           /\ k + 1 \in DOMAIN sent[conn] /\ header = sent[conn][k + 1]
           /\ Len(Together) <= header.len
           /\ \A i \in DOMAIN Together : Together[i] = <<k + 1, i>>
           /\ ToldOf(sent[conn], told[conn], k)
           /\ Rest(sent[conn], Tail(inbox[conn]), wire[conn],
                   IF Len(Together) < header.len
                     THEN <<k + 1, Len(Together) + 1>> ELSE <<k + 1 + 1, 1>>)
      BY <1>1, NextPiece
    <3> HIDE DEF Together
    <3>2. Reading(d)'
      BY <1>1, <2>3 DEF Reading
    <3>3. ReadOf(sent'[d], header', read', k)
      BY <1>1, <2>3, <3>1 DEF ReadOf
    <3>4. Rest(sent'[d], inbox'[d], wire'[d], <<k + 1, Len(read') + 1>>)
      BY <1>1, <1>3, <2>3, <3>1
    <3>5. k \in 0 .. Len(sent'[d]) /\ ToldOf(sent'[d], told'[d], k)
      BY <1>1, <2>3, <3>1
    <3>6. Delivered(d, k)'
      BY <3>2, <3>3, <3>4, <3>5 DEF Delivered
    <3> QED
      BY <3>6
  <2> QED
    BY <2>2, <2>3
<1> QED
  BY <1>3, <1>8, <1>9, <1>10, <1>11 DEF Inv

LEMMA RecvLastPieceKeeps ==
  ASSUME Inv, RecvLastPiece
  PROVE  Inv'
<1> DEFINE client == [clients[num] EXCEPT !.unfinished = Unfinished(@)]
<1>1. /\ server = "piece" /\ inbox[conn] # <<>> /\ Len(Together) = header.len
      /\ FrameRead(header, Together, client)
      /\ UNCHANGED <<client_queue, adding, queue, frames, joined, late, lost>>
  BY DEF RecvLastPiece, adder, counters, excuses
<1>2. /\ conn \in Conn /\ clients[num] \in Client /\ clients[num].conn = conn
  BY <1>1, ReadFrom
<1>3. client \in Client /\ client.conn = conn
  BY <1>2 DEF Client, Unfinished
<1> HIDE DEF client
<1>4. /\ Together \in Seq(Unit) /\ Together # <<>> /\ IsOf(sent[conn], Together[1])
  <2>1. /\ Together \in Seq(Unit) /\ Together # <<>>
        /\ \A i \in DOMAIN Together : IsOf(sent[conn], Together[i])
    BY <1>1, TogetherIs
  <2>2. 1 \in DOMAIN Together
    BY <2>1, ItemsAre
  <2> QED
    BY <2>1, <2>2
<1>5. header \in Frame
  BY <1>1 DEF Inv, ReadInv
<1>6. ~Excused(conn) => \E k \in Nat :
        /\ k + 1 \in DOMAIN sent[conn] /\ header = sent[conn][k + 1]
        /\ \A i \in DOMAIN Together : Together[i] = <<k + 1, i>>
        /\ ToldOf(sent[conn], told[conn], k)
        /\ Rest(sent[conn], Tail(inbox[conn]), wire[conn], <<k + 1 + 1, 1>>)
  <2> SUFFICES ASSUME ~Excused(conn)
               PROVE  \E k \in Nat :
        /\ k + 1 \in DOMAIN sent[conn] /\ header = sent[conn][k + 1]
        /\ \A i \in DOMAIN Together : Together[i] = <<k + 1, i>>
        /\ ToldOf(sent[conn], told[conn], k)
        /\ Rest(sent[conn], Tail(inbox[conn]), wire[conn], <<k + 1 + 1, 1>>)
    OBVIOUS
  <2>1. PICK k \in Nat :
           /\ k \in 0 .. Len(sent[conn])
           /\ k + 1 \in DOMAIN sent[conn] /\ header = sent[conn][k + 1]
           /\ Len(Together) <= header.len
           /\ \A i \in DOMAIN Together : Together[i] = <<k + 1, i>>
           /\ ToldOf(sent[conn], told[conn], k)
           /\ Rest(sent[conn], Tail(inbox[conn]), wire[conn],
                   IF Len(Together) < header.len
                     THEN <<k + 1, Len(Together) + 1>> ELSE <<k + 1 + 1, 1>>)
    BY <1>1, NextPiece
  <2>2. ~(Len(Together) < header.len)
    BY <1>1, <1>5, FrameIs
  <2> QED
    BY <2>1, <2>2
<1> QED
  BY <1>1, <1>3, <1>4, <1>5, <1>6, FrameReadKeeps

\* What there is of a frame without memory is gone, and that is recorded.
LEMMA RecvNoMemoryKeeps ==
  ASSUME Inv, RecvNoMemory
  PROVE  Inv'
<1>1. /\ server = "recv" /\ inbox[conn] # <<>>
      /\ inbox' = [inbox EXCEPT ![conn] = Tail(@)]
      /\ dropped' = [dropped EXCEPT ![conn] = TRUE]
      /\ server' = "idle" /\ conn' = NoConn /\ mutex' = "free"
      /\ UNCHANGED <<net, sent, wire, closed, client_queue, adding, queue, clients, ring,
                     told, joined, late, lost, frames>>
  BY DEF RecvNoMemory, Release, adder, counters, excuses
<1>2. /\ conn \in Conn /\ num \in Slot /\ \A d \in Conn : d # conn => ~Reading(d)
      /\ mutex = "server"
  BY <1>1, ReadFrom
<1>3. /\ inbox' \in [Conn -> Seq(Units)] /\ inbox'[conn] = Tail(inbox[conn])
      /\ \A c \in Conn : c # conn => inbox'[c] = inbox[c]
      /\ AcceptInv' /\ UnitInv'
  BY <1>1, SegmentTaken
<1>4. /\ dropped' \in [Conn -> BOOLEAN] /\ dropped'[conn] = TRUE
      /\ \A c \in Conn : c # conn => dropped'[c] = dropped[c]
  BY <1>1, <1>2 DEF Inv, TypeOK
<1>5. \A c : Listed(c)' = Listed(c)
  BY <1>1 DEF Listed
<1>6. TypeOK'
  BY SMTT(30), <1>1, <1>3, <1>4, <1>5 DEF Inv, TypeOK
<1>7. LockInv'
  BY <1>1, <1>2 DEF Inv, LockInv
<1>8. ReadInv'
  BY <1>1 DEF ReadInv
<1>9. Delivery'
  <2> SUFFICES ASSUME NEW d \in Conn PROVE DeliveryOf(d)'
    BY DEF Delivery
  <2>1. CASE d # conn
    <3>1. Reading(d)' = Reading(d) /\ ~Reading(d)
      BY <1>1, <1>2, <2>1 DEF Reading
    <3>2. Excused(d)' = Excused(d)
      BY <1>1, <1>4, <2>1 DEF Excused
    <3> QED
      BY <1>1, <1>3, <2>1, <3>1, <3>2, DeliveredSame DEF Inv, Delivery
  <2>2. CASE d = conn
    BY <1>4, <2>2 DEF DeliveryOf, Excused
  <2> QED
    BY <2>1, <2>2
<1> QED
  BY <1>3, <1>6, <1>7, <1>8, <1>9 DEF Inv

\* Only an excused connection has a piece with more than the frame lacks.
LEMMA RecvTooMuchKeeps ==
  ASSUME Inv, RecvTooMuch
  PROVE  Inv'
<1>1. /\ server = "piece" /\ inbox[conn] # <<>> /\ Len(Together) > header.len
      /\ inbox' = [inbox EXCEPT ![conn] = Tail(@)]
      /\ clients' = [clients EXCEPT ![num].unfinished = 0]
      /\ server' = "idle" /\ conn' = NoConn /\ mutex' = "free"
      /\ UNCHANGED <<net, sent, wire, closed, client_queue, adding, queue, ring, told,
                     dropped, joined, late, lost, frames>>
  BY DEF RecvTooMuch, Release, adder, counters, outcome, excuses
<1>2. /\ conn \in Conn /\ num \in Slot /\ \A d \in Conn : d # conn => ~Reading(d)
      /\ mutex = "server"
  BY <1>1, ReadFrom
<1>3. /\ inbox' \in [Conn -> Seq(Units)] /\ inbox'[conn] = Tail(inbox[conn])
      /\ \A c \in Conn : c # conn => inbox'[c] = inbox[c]
      /\ AcceptInv' /\ UnitInv'
  BY <1>1, SegmentTaken
<1>4. clients' \in [Slot -> Client] /\ \A s \in Slot : clients'[s].conn = clients[s].conn
  <2>1. clients \in [Slot -> Client] /\ num \in Slot
    BY <1>2 DEF Inv, TypeOK
  <2>2. clients' = [clients EXCEPT ![num].unfinished = 0]
    BY <1>1
  <2> QED
    BY <2>1, <2>2, Unread
<1>5. \A c : Listed(c)' = Listed(c)
  BY <1>4, SameConns
<1>6. Excused(conn)
  <2> SUFFICES ASSUME ~Excused(conn) PROVE FALSE
    OBVIOUS
  <2>1. Len(Together) <= header.len
    BY <1>1, NextPiece
  <2>2. Len(Together) \in Nat /\ header.len \in Nat
    BY <1>1, TogetherIs, ItemsAre, FrameIs DEF Inv, ReadInv
  <2> QED
    BY <1>1, <2>1, <2>2
<1> HIDE DEF Together
<1>7. TypeOK'
  BY SMTT(30), <1>1, <1>3, <1>4, <1>5 DEF Inv, TypeOK
<1>8. LockInv'
  BY <1>1, <1>2 DEF Inv, LockInv
<1>9. ReadInv'
  BY <1>1 DEF ReadInv
<1>10. Delivery'
  <2> SUFFICES ASSUME NEW d \in Conn PROVE DeliveryOf(d)'
    BY DEF Delivery
  <2>1. Excused(d)' = Excused(d)
    BY <1>1 DEF Excused
  <2>2. CASE d # conn
    <3>1. Reading(d)' = Reading(d) /\ ~Reading(d)
      BY <1>1, <1>2, <2>2 DEF Reading
    <3> QED
      BY <1>1, <1>3, <2>1, <2>2, <3>1, DeliveredSame DEF Inv, Delivery
  <2>3. CASE d = conn
    BY <1>6, <2>1, <2>3 DEF DeliveryOf
  <2> QED
    BY <2>2, <2>3
<1> QED
  BY <1>3, <1>7, <1>8, <1>9, <1>10 DEF Inv

-----------------------------------------------------------------------------
(* The theorems *)

LEMMA NextKeeps == Inv /\ [Next]_vars => Inv'
<1> SUFFICES ASSUME Inv, [Next]_vars PROVE Inv'
  OBVIOUS
<1>1. ASSUME NEW c \in Conn, Accept(c) \/ Arrive(c) \/ ClientCloses(c) PROVE Inv'
  BY <1>1, AcceptKeeps, ArriveKeeps, ClientClosesKeeps
<1>2. ASSUME NEW c \in Conn, NEW f \in Frame, SendFrame(c, f) PROVE Inv'
  BY <1>2, SendFrameKeeps
<1>3. CASE server_handle_task
  BY <1>3, ServeOtherKeeps, ServeWebsocketKeeps, AnswerKeeps, AddClientKeeps
     DEF server_handle_task
<1>4. CASE ws_server_task
  BY <1>4, TakeEventKeeps, SkipUnknownKeeps, SkipReadKeeps, StartReadKeeps,
     RecvFrameKeeps, RecvFailsKeeps, RecvPieceKeeps, RecvLastPieceKeeps,
     RecvTooMuchKeeps, PieceFailsKeeps, RecvNoMemoryKeeps
     DEF ws_server_task
<1>5. CASE in_msg
  BY <1>5, in_msgKeeps
<1>6. CASE \/ \E n \in Slot : SendClient(n) \/ ws_server_remove_client(n)
           \/ \E url \in Url : SendClients(url) \/ ws_server_remove_clients(url)
           \/ SendAll \/ ws_server_ping \/ ws_server_remove_all
  BY <1>6, CallsKeep
<1>7. CASE Stop
  BY <1>7, StopKeeps
<1>8. CASE UNCHANGED vars
  BY <1>8, StutterKeeps
<1> QED
  BY <1>1, <1>2, <1>3, <1>4, <1>5, <1>6, <1>7, <1>8 DEF Next

\* What the invariant says of one connection.
LEMMA DeliveredWhole ==
  ASSUME Inv
  PROVE  MessagesDelivered
<1> SUFFICES ASSUME NEW c \in Conn, net[c] = "open", ~Excused(c)
             PROVE  /\ \A n \in Told(c) : n \in DOMAIN sent[c] /\ IsMessage(c, n)
                    /\ \A i, j \in DOMAIN told[c] : i < j => told[c][i] < told[c][j]
                    /\ \A n \in DOMAIN sent[c] : IsMessage(c, n) /\ n \notin Told(c) =>
                         /\ \A m \in Told(c) : m < n
                         /\ ~(CaughtUp(c) /\ server # "gone")
  BY DEF MessagesDelivered
<1>1. PICK k \in Nat : Delivered(c, k)
  BY DEF Inv, Delivery, DeliveryOf
<1>2. /\ k \in 0 .. Len(sent[c])
      /\ \A i, j \in DOMAIN told[c] : i < j => told[c][i] < told[c][j]
      /\ \A i \in DOMAIN told[c] :
           told[c][i] \in 1 .. k /\ IsMessageFrame(sent[c][told[c][i]])
      /\ \A n \in 1 .. k : IsMessageFrame(sent[c][n]) =>
           \E i \in DOMAIN told[c] : told[c][i] = n
  BY <1>1 DEF Delivered, ToldOf
<1>3. Len(sent[c]) \in Nat /\ DOMAIN sent[c] = 1 .. Len(sent[c])
  BY OfConn, ItemsAre DEF Inv
<1>4. \A n \in Told(c) : n \in 1 .. k /\ n \in DOMAIN sent[c] /\ IsMessage(c, n)
  BY <1>2, <1>3 DEF Told, IsMessage, IsMessageFrame
<1>5. ASSUME NEW n \in DOMAIN sent[c], IsMessage(c, n), n \notin Told(c)
      PROVE  /\ \A m \in Told(c) : m < n
             /\ ~(CaughtUp(c) /\ server # "gone")
  <2>1. n \notin 1 .. k
    BY <1>2, <1>5 DEF Told, IsMessage, IsMessageFrame
  <2>2. n > k /\ n \in 1 .. Len(sent[c])
    BY <1>3, <1>5, <2>1
  <2>3. \A m \in Told(c) : m < n
    BY <1>3, <1>4, <2>2
  <2>4. ASSUME CaughtUp(c), server # "gone" PROVE FALSE
    <3>1. /\ wire[c] = <<>> /\ inbox[c] = <<>> /\ ~Reading(c)
      BY <2>4 DEF CaughtUp, Reading
    <3>2. Rest(sent[c], <<>>, <<>>, <<k + 1, 1>>)
      BY <1>1, <2>4, <3>1 DEF Delivered
    <3>3. <<Len(sent[c]) + 1, 1>> = <<k + 1, 1>>
      BY <3>2 DEF Rest
    <3>4. Len(sent[c]) + 1 = k + 1
      BY <3>3
    <3> QED
      BY <1>3, <2>2, <3>4
  <2> QED
    BY <2>3, <2>4
<1> QED
  BY <1>2, <1>4, <1>5

\* In every reachable state, whatever clients send and however it is split and
\* joined, everything has its type, a connection has one place among the clients
\* and is open there, and the mutex is held while a frame is read from it.
THEOREM TypeCorrect == Spec => []TypeOK
<1>1. Init => Inv
  BY InitHolds
<1>2. Inv /\ [Next]_vars => Inv'
  BY NextKeeps
<1>3. Inv => TypeOK
  BY DEF Inv
<1> QED
  BY <1>1, <1>2, <1>3, PTL DEF Spec

\* Each message of one frame is passed on whole, once and in order, unless its
\* segments hold parts of two frames, are chained, come late, or find no memory
\* or no room.
THEOREM MessagesAreDelivered == Spec => []MessagesDelivered
<1>1. Init => Inv
  BY InitHolds
<1>2. Inv /\ [Next]_vars => Inv'
  BY NextKeeps
<1>3. Inv => MessagesDelivered
  BY DeliveredWhole
<1> QED
  BY <1>1, <1>2, <1>3, PTL DEF Spec

=============================================================================
