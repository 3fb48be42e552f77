------------------------ MODULE Connectivity_proofs ------------------------
(***************************************************************************)
(* What holds in every mode, however the tasks interleave.  The invariant  *)
(* has four parts beside the types.  ModeInv: nothing runs before a mode   *)
(* is entered.  QuickInv: in what order quick pairing starts its task and  *)
(* its server.  FlagInv: what the flags and the reason of the reset say    *)
(* about the mode they were left in.  RadioInv: what the event loop has    *)
(* still to deliver.  The last part is about Button, whose presses are the *)
(* FivePresses of Connectivity.                                            *)
(***************************************************************************)
EXTENDS Connectivity, Button, TLAPS

Event == {"START", "CONNECTED", "DISCONNECTED", "GOT_IP"}

Queued(q, e) == \E i \in 1 .. Len(q) : q[i] = e

(* The last news of the link that is queued is that there is one.          *)
LinkNews(q) ==
  \E i \in 1 .. Len(q) :
    /\ q[i] = "CONNECTED"
    /\ \A k \in 1 .. Len(q) : k > i => q[k] # "DISCONNECTED"

EventsOK == events \in Seq(Event) /\ Len(events) <= 4

ModeInv ==
  /\ main = "boot" => events = <<>> /\ handlers = {} /\ station = "off"
  /\ "sc" \in handlers => main = "quick"

(* smartconfig_task starts with the first event and the HTTP server after  *)
(* it: until then there is neither a link nor a request.                   *)
QuickInv ==
  main = "quick" =>
    /\ station # "off"
    /\ sc # "done" => httpd = "off"
    /\ IF sc = "off"
       THEN events = <<"START">> /\ station = "idle" /\ "sc" \in handlers
       ELSE ~Queued(events, "START")

PairingFlag == Flag_quick_pair \/ Flag_compatible_pair

FlagInv ==
  /\ inited => ~(Flag_quick_pair /\ Flag_compatible_pair)
  /\ inited /\ main \in Modes /\ httpd # "ap_done" =>
       /\ Flag_quick_pair <=> main = "quick"
       /\ Flag_compatible_pair <=> main = "compat"
  /\ main \in Pairing /\ httpd # "ap_done" => PairingFlag
  /\ was # "none" => reset = "sw"
  /\ main = "boot" /\ was \in Pairing /\ ~answered => PairingFlag
  /\ PairingKept

RadioInv ==
  /\ bit \/ main = "running" \/ Queued(events, "GOT_IP") => leased
  /\ state = "NORMAL" => session = "up"
  /\ "sta" \notin handlers => state # "WIFI_DISCONNECTED"
  /\ station \in {"linked", "up"} =>
       \/ LinkNews(events)
       \/ state # "WIFI_DISCONNECTED" /\ ~Queued(events, "DISCONNECTED")

Inv == TypeOK /\ ModeInv /\ QuickInv /\ FlagInv /\ RadioInv

-----------------------------------------------------------------------------
(* The queue of the event loop                                             *)

LEMMA Appended ==
  ASSUME NEW q \in Seq(Event), NEW e \in Event
  PROVE  /\ Append(q, e) \in Seq(Event)
         /\ Len(Append(q, e)) = Len(q) + 1
         /\ \A i \in 1 .. Len(q) : Append(q, e)[i] = q[i]
         /\ Append(q, e)[Len(q) + 1] = e
OBVIOUS

LEMMA Handled ==
  ASSUME NEW q \in Seq(Event), q # <<>>
  PROVE  /\ Head(q) \in Event /\ Head(q) = q[1]
         /\ Tail(q) \in Seq(Event) /\ Len(Tail(q)) = Len(q) - 1
         /\ Len(q) \in Nat \ {0}
         /\ \A i \in 1 .. Len(q) - 1 : Tail(q)[i] = q[i + 1]
OBVIOUS

LEMMA QueuedAppended ==
  ASSUME NEW q \in Seq(Event), NEW e \in Event, NEW x
  PROVE  Queued(Append(q, e), x) <=> Queued(q, x) \/ e = x
<1>1. Len(q) \in Nat
  OBVIOUS
<1> QED
  BY <1>1, Appended DEF Queued

LEMMA QueuedHandled ==
  ASSUME NEW q \in Seq(Event), q # <<>>, NEW x
  PROVE  Queued(q, x) <=> Head(q) = x \/ Queued(Tail(q), x)
<1>1. ASSUME Queued(Tail(q), x) PROVE Queued(q, x)
  <2>1. PICK i \in 1 .. Len(q) - 1 : Tail(q)[i] = x
    BY <1>1, Handled DEF Queued
  <2>2. i + 1 \in 1 .. Len(q) /\ q[i + 1] = x
    BY <2>1, Handled
  <2> QED
    BY <2>2 DEF Queued
<1>2. ASSUME Queued(q, x), Head(q) # x PROVE Queued(Tail(q), x)
  <2>1. PICK i \in 1 .. Len(q) : q[i] = x
    BY <1>2 DEF Queued
  <2>2. i - 1 \in 1 .. Len(q) - 1 /\ q[(i - 1) + 1] = x
    BY <1>2, <2>1, Handled
  <2> QED
    BY <2>2, Handled DEF Queued
<1>3. ASSUME Head(q) = x PROVE Queued(q, x)
  BY <1>3, Handled DEF Queued
<1> QED
  BY <1>1, <1>2, <1>3

LEMMA NewsAppended ==
  ASSUME NEW q \in Seq(Event), NEW e \in Event
  PROVE  /\ e = "CONNECTED" => LinkNews(Append(q, e))
         /\ LinkNews(q) /\ e # "DISCONNECTED" => LinkNews(Append(q, e))
<1>1. Len(q) \in Nat
  OBVIOUS
<1>2. ASSUME e = "CONNECTED" PROVE LinkNews(Append(q, e))
  <2>1. Len(q) + 1 \in 1 .. Len(Append(q, e))
    BY <1>1, Appended
  <2> QED
    BY <1>1, <1>2, <2>1, Appended DEF LinkNews
<1>3. ASSUME LinkNews(q), e # "DISCONNECTED" PROVE LinkNews(Append(q, e))
  BY <1>1, <1>3, Appended DEF LinkNews
<1> QED
  BY <1>2, <1>3

LEMMA NewsHandled ==
  ASSUME NEW q \in Seq(Event), q # <<>>, LinkNews(q)
  PROVE  \/ LinkNews(Tail(q))
         \/ Head(q) = "CONNECTED" /\ ~Queued(Tail(q), "DISCONNECTED")
<1>1. PICK i \in 1 .. Len(q) :
        /\ q[i] = "CONNECTED"
        /\ \A k \in 1 .. Len(q) : k > i => q[k] # "DISCONNECTED"
  BY DEF LinkNews
<1>2. CASE i = 1
  <2>1. \A k \in 1 .. Len(q) - 1 : Tail(q)[k] # "DISCONNECTED"
    BY <1>1, <1>2, Handled
  <2> QED
    BY <1>1, <1>2, <2>1, Handled DEF Queued
<1>3. CASE i # 1
  <2>1. i - 1 \in 1 .. Len(q) - 1 /\ Tail(q)[i - 1] = "CONNECTED"
    BY <1>1, <1>3, Handled
  <2>2. \A k \in 1 .. Len(q) - 1 : k > i - 1 => Tail(q)[k] # "DISCONNECTED"
    BY <1>1, Handled
  <2> QED
    BY <2>1, <2>2, Handled DEF LinkNews
<1> QED
  BY <1>2, <1>3

-----------------------------------------------------------------------------
(* Types, and what a start finds                                           *)

LEMMA ConnectTypes ==
  ASSUME TypeOK, NEW asked, Connect(asked)
  PROVE  /\ station' \in {"off", "idle", "trying", "linked", "up"}
         /\ using' \in Configs
         /\ station' = "off" <=> station = "off"
         /\ station' \in {"linked", "up"} => station' = station
BY DEF Connect, Connects, TypeOK

LEMMA StateAfterOf ==
  ASSUME NEW e
  PROVE  /\ e = "DISCONNECTED" /\ "sta" \in handlers =>
              StateAfter(e) = "WIFI_DISCONNECTED"
         /\ e = "CONNECTED" /\ "sta" \in handlers =>
              StateAfter(e) = "LOCAL_MODE"
         /\ e \notin {"CONNECTED", "DISCONNECTED"} \/ "sta" \notin handlers =>
              StateAfter(e) = state
BY Zenon DEF StateAfter

LEMMA PostWiEvents ==
  ASSUME EventsOK, PostWi
  PROVE  EventsOK'
<1>1. \/ UNCHANGED events
      \/ \E e \in Event : Post(e)
  BY Zenon DEF PostWi, Event
<1> QED
  BY <1>1, Appended DEF Post, EventsOK

LEMMA TypesInit == Init => TypeOK /\ ModeInv
<1> SUFFICES ASSUME Init PROVE TypeOK /\ ModeInv
  OBVIOUS
<1>1. config \in Configs
  BY BoundsAssumption DEF Init
<1>2. /\ presses \in 0 .. MaxPresses /\ drops \in 0 .. MaxDrops
      /\ losses \in 0 .. MaxPowerLosses /\ posts \in 0 .. MaxPosts
  BY BoundsAssumption DEF Init
<1>3. /\ events \in Seq({"START", "CONNECTED", "DISCONNECTED", "GOT_IP"})
      /\ Len(events) <= 4
  BY DEF Init
<1> QED
  BY <1>1, <1>2, <1>3
  DEF Init, TypeOK, ModeInv, Configs, Modes, Pairing

LEMMA RebootTypes ==
  ASSUME TypeOK, NEW why \in {"poweron", "brownout", "sw"}, BootAfter(why),
         was' \in Modes \cup {"none"}, answered' \in BOOLEAN,
         {Flag_quick_pair', Flag_compatible_pair', inited'} \subseteq BOOLEAN,
         config' \in Configs, UNCHANGED <<drops, posts>>,
         presses' \in 0 .. MaxPresses, losses' \in 0 .. MaxPowerLosses
  PROVE  TypeOK' /\ ModeInv'
<1>1. EventsOK'
  BY DEF BootAfter, EventsOK
<1> QED
  BY <1>1
  DEF BootAfter, TypeOK, ModeInv, EventsOK, Event, Configs, Modes, Pairing

LEMMA RebootStep ==
  ASSUME TypeOK, Reboot,
         {Flag_quick_pair', Flag_compatible_pair', inited'} \subseteq BOOLEAN,
         presses' \in 0 .. MaxPresses, UNCHANGED losses
  PROVE  TypeOK' /\ ModeInv'
<1>1. was' \in Modes \cup {"none"} /\ answered' \in BOOLEAN
  BY DEF Reboot, TypeOK
<1> QED
  BY <1>1, RebootTypes DEF Reboot, TypeOK

LEMMA TypesStep == TypeOK /\ ModeInv /\ [Next]_vars => TypeOK' /\ ModeInv'
<1> SUFFICES ASSUME TypeOK, ModeInv, [Next]_vars PROVE TypeOK' /\ ModeInv'
  OBVIOUS
<1>e. EventsOK
  BY DEF TypeOK, EventsOK, Event
<1>1. CASE EnterQuick
  <2>1. EventsOK'
    BY <1>1, <1>e, Appended
    DEF EnterQuick, ModeInv, ReadFlags, EventsOK, Event
  <2> QED
    BY <1>1, <2>1, BoundsAssumption
    DEF EnterQuick, ReadFlags, AfterReset, ClearsFlags, TypeOK, ModeInv,
        Modes, Pairing, serving, past, counts, EventsOK, Event
<1>2. CASE EnterCompatible
  BY <1>2
  DEF EnterCompatible, ReadFlags, AfterReset, ClearsFlags, start_webserver,
      TypeOK, ModeInv, Modes, Pairing, radio, past, counts
<1>3. CASE EnterNormal
  <2>1. EventsOK'
    BY <1>3, <1>e, Appended
    DEF EnterNormal, ModeInv, ReadFlags, EventsOK, Event
  <2> QED
    BY <1>3, <2>1, BoundsAssumption
    DEF EnterNormal, ReadFlags, AfterReset, ClearsFlags, TypeOK, ModeInv,
        Modes, Pairing, serving, past, counts, EventsOK, Event
<1>4. CASE WaitEnds
  BY ZenonT(30), <1>4
  DEF WaitEnds, TypeOK, ModeInv, Modes, Pairing, flags, radio, serving,
      past, counts
<1>5. CASE HandleEvent
  <2>1. EventsOK'
    BY <1>5, <1>e, Handled DEF HandleEvent, EventsOK
  <2>2. PICK asked : Connect(asked)
    BY <1>5 DEF HandleEvent
  <2>3. StateAfter(Head(events)) \in {state, "WIFI_DISCONNECTED", "LOCAL_MODE"}
    BY StateAfterOf
  <2> QED
    BY <1>5, <2>1, <2>2, <2>3, ConnectTypes
    DEF HandleEvent, ConnectedBit, StartsSmartconfig, TypeOK, ModeInv, Modes,
        Pairing, flags, past, counts, EventsOK, Event
<1>6. CASE Associate
  <2>1. EventsOK'
    BY <1>6, <1>e, Appended
    DEF Associate, Post, EventsOK, Event
  <2> QED
    BY <1>6, <2>1, BoundsAssumption
    DEF Associate, RadioStep, Configs, TypeOK, ModeInv, Modes, Pairing,
        serving, past, counts, flags, EventsOK, Event
<1>7. CASE Refuse
  <2>1. EventsOK'
    BY <1>7, <1>e, Appended
    DEF Refuse, Post, EventsOK, Event
  <2> QED
    BY <1>7, <2>1, BoundsAssumption
    DEF Refuse, RadioStep, Configs, TypeOK, ModeInv, Modes, Pairing, serving,
        past, counts, flags, EventsOK, Event
<1>8. CASE Lease
  <2>1. EventsOK'
    BY <1>8, <1>e, Appended
    DEF Lease, Post, EventsOK, Event
  <2> QED
    BY <1>8, <2>1, BoundsAssumption
    DEF Lease, RadioStep, Configs, TypeOK, ModeInv, Modes, Pairing, serving,
        past, counts, flags, EventsOK, Event
<1>9. CASE LoseLink
  <2>1. EventsOK'
    BY <1>9, <1>e, Appended
    DEF LoseLink, Post, EventsOK, Event
  <2> QED
    BY <1>9, <2>1, BoundsAssumption
    DEF LoseLink, RadioStep, Configs, TypeOK, ModeInv, Modes, Pairing,
        serving, past, counts, flags, EventsOK, Event
<1>10. CASE SessionUp
  BY <1>10
  DEF SessionUp, SessionStep, TypeOK, ModeInv, Modes, Pairing, flags, radio,
      serving, past, counts
<1>11. CASE SessionDown
  BY <1>11
  DEF SessionDown, SessionStep, DownState, TypeOK, ModeInv, Modes, Pairing,
      flags, radio, serving, past, counts
<1>12. CASE RestartCommand
  BY <1>12, RebootStep DEF RestartCommand, flags, TypeOK, Reboot
<1>13. CASE GotCredentials
  BY <1>13
  DEF GotCredentials, Configs, TypeOK, ModeInv, Modes, Pairing, flags,
      past, counts
<1>14. CASE AckSent
  BY <1>14
  DEF AckSent, start_webserver, TypeOK, ModeInv, Modes, Pairing, flags, radio,
      past, counts
<1>15. CASE PostWi
  <2>1. EventsOK'
    BY <1>15, <1>e, PostWiEvents
  <2>2. /\ {Flag_quick_pair', Flag_compatible_pair', inited'} \subseteq BOOLEAN
      /\ {bit', leased', answered'} \subseteq BOOLEAN
    BY <1>15
    DEF PostWi, TypeOK, flags, past
  <2> QED
    BY <1>15, <2>1, BoundsAssumption, <2>2
    DEF PostWi, Requested, Configs, TypeOK, ModeInv, Modes, Pairing, flags,
        past, counts, EventsOK, Event
<1>16. CASE PostWiConfig
  BY <1>16
  DEF PostWiConfig, Configs, TypeOK, ModeInv, Modes, Pairing, flags, radio,
      past, counts
<1>17. CASE PostWiAborts
  BY <1>17, RebootStep DEF PostWiAborts, flags, TypeOK, Reboot
<1>18. CASE PostWiAnswer
  <2>1. /\ {Flag_quick_pair', Flag_compatible_pair', inited'} \subseteq BOOLEAN
      /\ {bit', leased', answered'} \subseteq BOOLEAN
    BY <1>18
    DEF PostWiAnswer, TypeOK, flags, past
  <2> QED
    BY <1>18, <2>1
    DEF PostWiAnswer, TypeOK, ModeInv, Modes, Pairing, flags, radio, past,
        counts
<1>19. CASE PostAp
  <2>1. /\ {Flag_quick_pair', Flag_compatible_pair', inited'} \subseteq BOOLEAN
      /\ {bit', leased', answered'} \subseteq BOOLEAN
    BY <1>19
    DEF PostAp, TypeOK, flags, past
  <2> QED
    BY <1>19, <2>1
    DEF PostAp, Requested, TypeOK, ModeInv, Modes, Pairing, radio, past,
        counts
<1>20. CASE PostApRestart
  BY <1>20, RebootStep DEF PostApRestart, flags, TypeOK, Reboot
<1>21. CASE GetRestart
  <2>1. EventsOK'
    BY <1>21, <1>e, Appended
    DEF GetRestart, Post, EventsOK, Event
  <2>2. /\ {Flag_quick_pair', Flag_compatible_pair', inited'} \subseteq BOOLEAN
      /\ {bit', leased', answered'} \subseteq BOOLEAN
    BY <1>21
    DEF GetRestart, TypeOK, flags, past
  <2>3. station' \in {"idle", "trying", "linked", "up"} /\ main \in Pairing
    BY <1>21 DEF GetRestart, Requested, TypeOK
  <2>4. ModeInv'
    BY <1>21, <2>3 DEF GetRestart, ModeInv, Pairing
  <2>5. /\ (session # "off" => main = "running")'
        /\ (httpd # "off" => main \in Pairing)'
        /\ (sc # "off" => main = "quick")'
        /\ ap' \in BOOLEAN /\ (ap' => main' \in Pairing)
        /\ (main = "compat" /\ station = "off" => ap)'
    BY <1>21, <2>3 DEF GetRestart, TypeOK
  <2>6. TypeOK'
    BY <1>21, <2>1, <2>2, <2>3, <2>5
    DEF GetRestart, TypeOK, Modes, flags, past, counts, EventsOK, Event
  <2> QED
    BY <2>4, <2>6
<1>22. CASE FivePresses
  <2>1. presses' \in 0 .. MaxPresses
    BY <1>22, BoundsAssumption DEF FivePresses, TypeOK
  <2>2. {Flag_quick_pair', Flag_compatible_pair', inited'} \subseteq BOOLEAN
    BY <1>22 DEF FivePresses, QuickAfterPress, CompatibleAfterPress, TypeOK
  <2> QED
    BY <1>22, <2>1, <2>2, RebootStep DEF FivePresses, Reboot
<1>23. CASE PowerLoss
  <2>1. losses' \in 0 .. MaxPowerLosses /\ presses' \in 0 .. MaxPresses
    BY <1>23, BoundsAssumption DEF PowerLoss, TypeOK
  <2>2. /\ {Flag_quick_pair', Flag_compatible_pair', inited'} \subseteq BOOLEAN
        /\ was' \in Modes \cup {"none"} /\ answered' \in BOOLEAN
        /\ config' \in Configs /\ UNCHANGED <<drops, posts>>
    BY <1>23 DEF PowerLoss, TypeOK
  <2>3. PICK why \in {"poweron", "brownout"} : BootAfter(why)
    BY <1>23 DEF PowerLoss
  <2> QED
    BY <2>1, <2>2, <2>3, RebootTypes
<1>24. CASE UNCHANGED vars
  BY <1>24
  DEF vars, flags, radio, serving, past, counts, TypeOK, ModeInv, Modes,
      Pairing
<1> QED
  BY <1>1, <1>2, <1>3, <1>4, <1>5, <1>6, <1>7, <1>8, <1>9, <1>10, <1>11,
     <1>12, <1>13, <1>14, <1>15, <1>16, <1>17, <1>18, <1>19, <1>20, <1>21,
     <1>22, <1>23, <1>24
  DEF Next

-----------------------------------------------------------------------------
(* Quick pairing                                                           *)

LEMMA QuickInit == Init => QuickInv
BY DEF Init, QuickInv

LEMMA QuickFramed ==
  ASSUME QuickInv, UNCHANGED <<sc, httpd, handlers>>,
         main' = "quick" => main = "quick",
         station' = station
           \/ (station # "off" /\ station' # "off" /\ sc # "off"),
         \/ UNCHANGED events
         \/ /\ sc # "off" /\ EventsOK
            /\ \E e \in Event \ {"START"} : events' = Append(events, e)
  PROVE  QuickInv'
<1>1. ASSUME sc # "off", ~Queued(events, "START"), ~UNCHANGED events
      PROVE  ~Queued(events', "START")
  <2>1. ASSUME NEW e \in Event \ {"START"}, events' = Append(events, e)
        PROVE  ~Queued(events', "START")
    BY <1>1, <2>1, QueuedAppended DEF EventsOK
  <2> QED
    BY <1>1, <2>1
<1> QED
  BY <1>1 DEF QuickInv

LEMMA QuickStep == TypeOK /\ ModeInv /\ QuickInv /\ [Next]_vars => QuickInv'
<1> SUFFICES ASSUME TypeOK, ModeInv, QuickInv, [Next]_vars PROVE QuickInv'
  OBVIOUS
<1>e. EventsOK
  BY DEF TypeOK, EventsOK, Event
<1>1. CASE main' # "quick"
  BY <1>1 DEF QuickInv
<1>2. CASE EnterQuick
  <2>1. /\ main = "boot" /\ events' = Append(events, "START")
        /\ station' = "idle" /\ handlers' = {"sc"} /\ UNCHANGED serving
    BY <1>2 DEF EnterQuick, ReadFlags
  <2>2. sc = "off" /\ httpd = "off" /\ events' = <<"START">>
    BY <2>1 DEF TypeOK, ModeInv, Pairing
  <2> QED
    BY <2>1, <2>2 DEF QuickInv, serving
<1>3. CASE HandleEvent /\ main = "quick"
  <2>1. UNCHANGED <<main, handlers, httpd>> /\ events' = Tail(events)
    BY <1>3 DEF HandleEvent
  <2>2. station' = "off" <=> station = "off"
    BY <1>3, ConnectTypes DEF HandleEvent
  <2>3. CASE sc = "off"
    <3>1. events' = <<>> /\ Head(events) = "START" /\ "sc" \in handlers
      BY <1>3, <2>1, <2>3 DEF QuickInv
    <3>2. sc' = "listening"
      BY <1>3, <3>1 DEF HandleEvent, StartsSmartconfig
    <3>3. ~Queued(events', "START")
      BY <3>1 DEF Queued
    <3> QED
      BY <1>3, <2>1, <2>2, <2>3, <3>2, <3>3 DEF QuickInv
  <2>4. CASE sc # "off"
    <3>1. Head(events) # "START" /\ ~Queued(events', "START")
      BY <1>3, <1>e, <2>1, <2>4, QueuedHandled
      DEF HandleEvent, QuickInv, EventsOK
    <3>2. sc' = sc
      BY <1>3, <3>1 DEF HandleEvent, StartsSmartconfig
    <3> QED
      BY <1>3, <2>1, <2>2, <2>4, <3>1, <3>2 DEF QuickInv
  <2> QED
    BY <2>3, <2>4
<1>4. CASE (Associate \/ Refuse \/ Lease \/ LoseLink) /\ main = "quick"
  <2>1. station \notin {"off", "idle"} /\ station' # "off"
    BY <1>4 DEF Associate, Refuse, Lease, LoseLink
  <2>2. sc # "off"
    BY <1>4, <2>1 DEF QuickInv
  <2> QED
    BY <1>4, <1>e, <2>1, <2>2, QuickFramed
    DEF Associate, Refuse, Lease, LoseLink, Post, RadioStep, serving, Event
<1>5. CASE SessionUp \/ SessionDown
  BY <1>5, QuickFramed DEF SessionUp, SessionDown, SessionStep, serving, radio
<1>6. CASE GotCredentials /\ main = "quick"
  BY <1>6 DEF GotCredentials, QuickInv
<1>7. CASE AckSent /\ main = "quick"
  BY <1>7 DEF AckSent, QuickInv, radio
<1>8. CASE PostWi /\ main = "quick"
  <2>1. sc = "done" /\ station # "off"
    BY <1>8 DEF PostWi, Requested, QuickInv, TypeOK
  <2>2. UNCHANGED events \/ \E e \in Event \ {"START"} : Post(e)
    BY <1>8, <2>1, Zenon DEF PostWi, Event
  <2>3. ~Queued(events', "START")
    <3>1. ASSUME NEW e \in Event \ {"START"}, Post(e)
          PROVE  ~Queued(events', "START")
      BY <1>8, <1>e, <2>1, <3>1, QueuedAppended DEF Post, EventsOK, QuickInv
    <3> QED
      BY <1>8, <2>1, <2>2, <3>1 DEF QuickInv
  <2> QED
    BY <1>8, <2>1, <2>3 DEF PostWi, QuickInv
<1>9. CASE (PostWiConfig \/ PostWiAnswer \/ PostAp) /\ main = "quick"
  <2>1. sc = "done" /\ UNCHANGED <<sc, events, station>>
    BY <1>9
    DEF PostWiConfig, PostWiAnswer, PostAp, Requested, radio, QuickInv, TypeOK
  <2> QED
    BY <1>9, <2>1 DEF QuickInv
<1>10. CASE GetRestart /\ main = "quick"
  <2>1. station # "off"
    BY <1>10 DEF QuickInv
  <2> QED
    BY <1>10, <2>1, QuickFramed DEF GetRestart
<1>11. CASE UNCHANGED vars
  BY <1>11, QuickFramed DEF vars, serving, radio
<1>12. CASE \/ EnterCompatible \/ EnterNormal \/ WaitEnds
           \/ RestartCommand \/ PostWiAborts \/ PostApRestart
           \/ FivePresses \/ PowerLoss
  <2>1. main' # "quick"
    BY <1>12
    DEF EnterCompatible, EnterNormal, WaitEnds, RestartCommand, PostWiAborts,
        PostApRestart, FivePresses, PowerLoss, Reboot, BootAfter
  <2> QED
    BY <1>1, <2>1
<1>13. EnterQuick \/ EnterCompatible \/ EnterNormal \/ WaitEnds
         \/ RestartCommand \/ PostWiAborts \/ PostApRestart
         \/ FivePresses \/ PowerLoss \/ main' = main
  BY Zenon
  DEF Next, vars, HandleEvent, Associate, Refuse, Lease, LoseLink, RadioStep,
      SessionUp, SessionDown, SessionStep, GotCredentials, AckSent, PostWi,
      PostWiConfig, PostWiAnswer, PostAp, GetRestart
<1> QED
  BY <1>1, <1>2, <1>3, <1>4, <1>5, <1>6, <1>7, <1>8, <1>9, <1>10, <1>11,
     <1>12, <1>13
  DEF Next

-----------------------------------------------------------------------------
(* The flags and the mode                                                  *)

LEMMA FlagsInit == Init => FlagInv
BY DEF Init, FlagInv, PairingKept, Modes, Pairing, PairingFlag

(* A step that leaves alone what FlagInv speaks of, but for app_main going *)
(* from the wait to the work and the HTTP server not being in POST /ap.    *)
LEMMA FlagsFramed ==
  ASSUME TypeOK, FlagInv, UNCHANGED <<flags, reset, past>>,
         main' = main \/ (main = "waiting" /\ main' = "running"),
         httpd' = "ap_done" \/ httpd # "ap_done"
  PROVE  FlagInv'
BY DEF FlagInv, PairingKept, Modes, Pairing, PairingFlag, flags, past

(* A restart that keeps the flags, from any mode.                          *)
LEMMA FlagsRebooted ==
  ASSUME TypeOK, FlagInv, Reboot, UNCHANGED flags
  PROVE  FlagInv'
<1>1. main' = "boot" /\ reset' = "sw"
  BY DEF Reboot, BootAfter
<1>2. ASSUME was' \in Pairing, ~answered' PROVE PairingFlag
  BY <1>2 DEF Reboot, FlagInv, TypeOK, Modes, Pairing
<1> QED
  BY <1>1, <1>2
  DEF FlagInv, PairingKept, Modes, Pairing, PairingFlag, flags

(* app_main reads the flags: it clears them only where nothing was         *)
(* remembered of a mode.                                                   *)
LEMMA FlagsRead ==
  ASSUME TypeOK, ModeInv, FlagInv, ReadFlags,
         UNCHANGED <<reset, was, answered>>, main' \in Modes,
         main' = "quick" <=> Flag_quick_pair',
         main' = "compat" <=> ~Flag_quick_pair' /\ Flag_compatible_pair'
  PROVE  FlagInv'
<1>1. main = "boot"
  BY DEF ReadFlags
<1>2. CASE ClearsFlags
  <2>1. was = "none" /\ ~Flag_quick_pair' /\ ~Flag_compatible_pair'
    BY <1>2 DEF ClearsFlags, FlagInv, ReadFlags, AfterReset
  <2> QED
    BY <2>1 DEF FlagInv, PairingKept, Modes, Pairing, PairingFlag
<1>3. CASE ~ClearsFlags
  <2>1. UNCHANGED flags
    BY <1>3 DEF ReadFlags, AfterReset, ClearsFlags, TypeOK, flags
  <2> QED
    BY <1>1, <2>1 DEF FlagInv, PairingKept, Modes, Pairing, PairingFlag, flags
<1> QED
  BY <1>2, <1>3

LEMMA FlagsStep ==
  TypeOK /\ ModeInv /\ QuickInv /\ FlagInv /\ [Next]_vars => FlagInv'
<1> SUFFICES ASSUME TypeOK, ModeInv, QuickInv, FlagInv, [Next]_vars
             PROVE  FlagInv'
  OBVIOUS
<1>1. CASE EnterQuick
  BY <1>1, FlagsRead
  DEF EnterQuick, ReadFlags, AfterReset, past, Modes
<1>2. CASE EnterCompatible
  BY <1>2, FlagsRead
  DEF EnterCompatible, ReadFlags, AfterReset, past, Modes
<1>3. CASE EnterNormal
  BY <1>3, FlagsRead
  DEF EnterNormal, ReadFlags, AfterReset, past, Modes
<1>4. CASE WaitEnds
  BY <1>4, FlagsFramed DEF WaitEnds, serving
<1>5. CASE HandleEvent
  BY <1>5, FlagsFramed DEF HandleEvent
<1>6. CASE Associate \/ Refuse \/ Lease \/ LoseLink
  BY <1>6, FlagsFramed
  DEF Associate, Refuse, Lease, LoseLink, RadioStep, serving
<1>7. CASE SessionUp \/ SessionDown
  BY <1>7, FlagsFramed DEF SessionUp, SessionDown, SessionStep, serving
<1>8. CASE RestartCommand \/ PostWiAborts \/ PostApRestart
  BY <1>8, FlagsRebooted DEF RestartCommand, PostWiAborts, PostApRestart
<1>9. CASE GotCredentials
  BY <1>9, FlagsFramed DEF GotCredentials
<1>15. CASE AckSent
  <2>1. httpd = "off"
    BY <1>15 DEF AckSent, TypeOK, QuickInv
  <2> QED
    BY <1>15, <2>1, FlagsFramed DEF AckSent
<1>10. CASE PostWi \/ PostWiConfig \/ PostWiAnswer \/ GetRestart
  BY <1>10, FlagsFramed
  DEF PostWi, PostWiConfig, PostWiAnswer, GetRestart, Requested
<1>11. CASE PostAp
  <2>1. main \in Pairing
    BY <1>11 DEF PostAp, Requested, TypeOK
  <2> QED
    BY <1>11, <2>1
    DEF PostAp, FlagInv, PairingKept, Modes, Pairing, PairingFlag, past
<1>12. CASE FivePresses
  <2>1. main' = "boot" /\ reset' = "sw" /\ inited' = inited
    BY <1>12 DEF FivePresses, Reboot, BootAfter
  <2>2. Flag_quick_pair' \/ Flag_compatible_pair'
    BY <1>12 DEF FivePresses, QuickAfterPress, CompatibleAfterPress
  <2>3. inited => ~(Flag_quick_pair' /\ Flag_compatible_pair')
    BY <1>12
    DEF FivePresses, QuickAfterPress, CompatibleAfterPress, FlagInv
  <2> QED
    BY <2>1, <2>2, <2>3 DEF FlagInv, PairingKept, Modes, Pairing, PairingFlag
<1>13. CASE PowerLoss
  <2>1. main' = "boot" /\ ~inited' /\ was' = "none"
    BY <1>13 DEF PowerLoss, BootAfter
  <2> QED
    BY <2>1 DEF FlagInv, PairingKept, Modes, Pairing, PairingFlag
<1>14. CASE UNCHANGED vars
  BY <1>14, FlagsFramed DEF vars, serving
<1> QED
  BY <1>1, <1>2, <1>3, <1>4, <1>5, <1>6, <1>7, <1>8, <1>9, <1>10, <1>11,
     <1>12, <1>13, <1>14, <1>15
  DEF Next

-----------------------------------------------------------------------------
(* The event loop and the link                                             *)

LEMMA RadioInit == Init => RadioInv
BY DEF Init, RadioInv, Queued

(* A step of a task that the link does not see.                            *)
LEMMA RadioFramed ==
  ASSUME RadioInv, UNCHANGED <<events, station, handlers, leased>>,
         state' # "WIFI_DISCONNECTED" \/ state' = state,
         bit' => bit, main' = "running" => main = "running" \/ bit,
         state' = "NORMAL" => session' = "up"
  PROVE  RadioInv'
BY DEF RadioInv

(* The station stays without a link, or loses it, and says so or not.      *)
LEMMA RadioIdle ==
  ASSUME RadioInv, EventsOK, station' \notin {"linked", "up"},
         \/ UNCHANGED events
         \/ \E e \in Event \ {"GOT_IP"} : events' = Append(events, e),
         UNCHANGED <<state, leased, session>>, handlers \subseteq handlers',
         bit' => bit, main' = "running" => main = "running"
  PROVE  RadioInv'
<1>1. Queued(events', "GOT_IP") => Queued(events, "GOT_IP")
  <2>1. ASSUME NEW e \in Event \ {"GOT_IP"}, events' = Append(events, e)
        PROVE  Queued(events', "GOT_IP") => Queued(events, "GOT_IP")
    BY <2>1, QueuedAppended DEF EventsOK
  <2> QED
    BY <2>1
<1> QED
  BY <1>1 DEF RadioInv

LEMMA RadioRebooted ==
  ASSUME NEW why, BootAfter(why)
  PROVE  RadioInv'
<1>1. ~Queued(events', "GOT_IP")
  BY DEF BootAfter, Queued
<1> QED
  BY <1>1 DEF BootAfter, RadioInv

LEMMA RadioKept == TypeOK /\ ModeInv /\ RadioInv /\ [Next]_vars => RadioInv'
<1> SUFFICES ASSUME TypeOK, ModeInv, RadioInv, [Next]_vars PROVE RadioInv'
  OBVIOUS
<1>e. EventsOK
  BY DEF TypeOK, EventsOK, Event
<1>1. CASE EnterQuick
  <2>1. /\ handlers' = {"sc"} /\ station' = "idle" /\ state' = "QUICK_MODE"
        /\ main' = "quick" /\ UNCHANGED <<bit, leased>>
    BY <1>1 DEF EnterQuick
  <2>2. Queued(events', "GOT_IP") => Queued(events, "GOT_IP")
    BY <1>1, <1>e, QueuedAppended DEF EnterQuick, EventsOK, Event
  <2> QED
    BY <2>1, <2>2 DEF RadioInv
<1>2. CASE EnterCompatible
  BY <1>2 DEF EnterCompatible, RadioInv, radio
<1>3. CASE EnterNormal
  <2>1. /\ handlers = {} /\ handlers' = {"sta"} /\ station' = "idle"
        /\ main' = "waiting" /\ UNCHANGED <<state, bit, leased, session>>
    BY <1>3 DEF EnterNormal, ReadFlags, ModeInv
  <2>2. Queued(events', "GOT_IP") => Queued(events, "GOT_IP")
    BY <1>3, <1>e, QueuedAppended DEF EnterNormal, EventsOK, Event
  <2> QED
    BY <2>1, <2>2 DEF RadioInv
<1>4. CASE WaitEnds
  <2>1. state # "NORMAL"
    BY <1>4 DEF WaitEnds, TypeOK, RadioInv
  <2> QED
    BY <1>4, <2>1, RadioFramed DEF WaitEnds, radio
<1>5. CASE HandleEvent
  <2> DEFINE e == Head(events)
  <2>1. /\ e \in Event /\ events' = Tail(events) /\ events # <<>>
        /\ UNCHANGED <<main, handlers, leased, session>>
        /\ state' = StateAfter(e) /\ bit' = ConnectedBit(e)
    BY <1>5, <1>e, Handled DEF HandleEvent, EventsOK
  <2>2. station' \in {"linked", "up"} => station' = station
    BY <1>5, ConnectTypes DEF HandleEvent
  <2>3. \A x : Queued(events, x) <=> e = x \/ Queued(events', x)
    BY <1>e, <2>1, QueuedHandled DEF EventsOK
  <2>4. bit' \/ main' = "running" \/ Queued(events', "GOT_IP") => leased'
    BY <2>1, <2>3 DEF ConnectedBit, RadioInv
  <2>5. /\ state' = "NORMAL" => session' = "up"
        /\ "sta" \notin handlers' => state' # "WIFI_DISCONNECTED"
    BY <2>1, StateAfterOf DEF RadioInv, Event
  <2>6. ASSUME station' \in {"linked", "up"}, ~LinkNews(events')
        PROVE  state' # "WIFI_DISCONNECTED" /\ ~Queued(events', "DISCONNECTED")
    <3>1. CASE LinkNews(events)
      <4>1. e = "CONNECTED" /\ ~Queued(events', "DISCONNECTED")
        BY <1>e, <2>1, <2>6, <3>1, NewsHandled DEF EventsOK
      <4> QED
        BY <2>1, <2>5, <4>1, StateAfterOf
    <3>2. CASE ~LinkNews(events)
      <4>1. state # "WIFI_DISCONNECTED" /\ ~Queued(events, "DISCONNECTED")
        BY <2>2, <2>6, <3>2 DEF RadioInv
      <4>2. e # "DISCONNECTED" /\ ~Queued(events', "DISCONNECTED")
        BY <2>3, <4>1
      <4> QED
        BY <2>1, <4>1, <4>2, StateAfterOf DEF Event
    <3> QED
      BY <3>1, <3>2
  <2> QED
    BY <2>4, <2>5, <2>6 DEF RadioInv
<1>6. CASE Associate
  <2>1. /\ events' = Append(events, "CONNECTED") /\ UNCHANGED leased
        /\ UNCHANGED <<main, state, handlers, bit, session>>
    BY <1>6 DEF Associate, Post, RadioStep
  <2>2. /\ LinkNews(events')
        /\ Queued(events', "GOT_IP") => Queued(events, "GOT_IP")
    BY <1>e, <2>1, NewsAppended, QueuedAppended DEF EventsOK, Event
  <2> QED
    BY <2>1, <2>2 DEF RadioInv
<1>7. CASE Refuse \/ LoseLink
  BY <1>7, <1>e, RadioIdle DEF Refuse, LoseLink, Post, RadioStep, Event
<1>8. CASE Lease
  <2>1. /\ events' = Append(events, "GOT_IP") /\ leased'
        /\ station = "linked" /\ UNCHANGED <<state, handlers, session>>
    BY <1>8 DEF Lease, Post, RadioStep
  <2>2. /\ LinkNews(events) => LinkNews(events')
        /\ Queued(events', "DISCONNECTED") => Queued(events, "DISCONNECTED")
    BY <1>e, <2>1, NewsAppended, QueuedAppended DEF EventsOK, Event
  <2> QED
    BY <2>1, <2>2 DEF RadioInv
<1>9. CASE SessionUp \/ SessionDown
  BY <1>9, RadioFramed
  DEF SessionUp, SessionDown, DownState, SessionStep, radio
<1>10. CASE RestartCommand \/ PostWiAborts \/ PostApRestart \/ FivePresses
  BY <1>10, RadioRebooted
  DEF RestartCommand, PostWiAborts, PostApRestart, FivePresses, Reboot
<1>11. CASE GotCredentials
  BY <1>11, <1>e, RadioIdle DEF GotCredentials
<1>12. CASE AckSent \/ PostWiConfig \/ PostWiAnswer \/ PostAp
  BY <1>12, RadioFramed
  DEF AckSent, PostWiConfig, PostWiAnswer, PostAp, radio, RadioInv
<1>13. CASE PostWi
  <2>1. UNCHANGED events \/ \E e \in Event \ {"GOT_IP"} : Post(e)
    BY <1>13, Zenon DEF PostWi, Event
  <2> QED
    BY <1>13, <1>e, <2>1, RadioIdle DEF PostWi, Post
<1>14. CASE GetRestart
  <2>1. CASE station = "off"
    BY <1>14, <1>e, <2>1, RadioIdle DEF GetRestart, Post, Event
  <2>2. CASE station # "off"
    BY <1>14, <2>2, RadioFramed DEF GetRestart, RadioInv
  <2> QED
    BY <2>1, <2>2
<1>15. CASE PowerLoss
  BY <1>15, RadioRebooted DEF PowerLoss
<1>16. CASE UNCHANGED vars
  BY <1>16 DEF vars, radio, RadioInv
<1> QED
  BY <1>1, <1>2, <1>3, <1>4, <1>5, <1>6, <1>7, <1>8, <1>9, <1>10, <1>11,
     <1>12, <1>13, <1>14, <1>15, <1>16
  DEF Next

-----------------------------------------------------------------------------
(* The theorems                                                            *)

LEMMA Invariant == Spec => []Inv
<1>1. Init => Inv
  BY TypesInit, QuickInit, FlagsInit, RadioInit DEF Inv
<1>2. Inv /\ [Next]_vars => Inv'
  BY TypesStep, QuickStep, FlagsStep, RadioKept DEF Inv
<1> QED
  BY <1>1, <1>2, PTL DEF Spec

(* Each variable keeps its type, whatever the bounds, and each task runs   *)
(* only in the mode that starts it.                                        *)
THEOREM TypeCorrect == Spec => []TypeOK
<1>1. Inv => TypeOK
  BY DEF Inv
<1> QED
  BY <1>1, Invariant, PTL

(* A gateway that was being paired and comes back in the normal mode has   *)
(* answered POST /ap, or has lost its power.                               *)
THEOREM PairingIsKept == Spec => []PairingKept
<1>1. Inv => PairingKept
  BY DEF Inv, FlagInv
<1> QED
  BY <1>1, Invariant, PTL

(* What three tasks write without a lock is true for those who read it:    *)
(* the end of the wait, the state NORMAL, and the lamp of a lost network.  *)
THEOREM SignalsAreTrue == Spec => []SignalsTrue
<1>1. Inv => SignalsTrue
  <2> SUFFICES ASSUME Inv PROVE SignalsTrue
    OBVIOUS
  <2>1. AddressBehindTheBit /\ NormalMeansSession
    BY DEF Inv, RadioInv, AddressBehindTheBit, NormalMeansSession
  <2>2. ASSUME Lamp = "one flash", events = <<>>
        PROVE  station \notin {"linked", "up"}
    <3>1. state = "WIFI_DISCONNECTED"
      <4>1. ASSUME state = "UNKNOW" PROVE Lamp = "dark"
        BY <4>1 DEF Lamp
      <4>2. ASSUME state = "NORMAL" PROVE Lamp = "steady"
        BY <4>2 DEF Lamp
      <4>3. ASSUME state = "LOCAL_MODE" PROVE Lamp = "two flashes"
        BY <4>3 DEF Lamp
      <4>4. ASSUME state = "QUICK_MODE" PROVE Lamp = "fast"
        BY <4>4 DEF Lamp
      <4>5. ASSUME state = "COMPATIBLE_MODE" PROVE Lamp = "slow"
        BY <4>5 DEF Lamp
      <4> QED
        BY <2>2, <4>1, <4>2, <4>3, <4>4, <4>5 DEF Inv, TypeOK
    <3>2. ~LinkNews(events)
      <4>1. Len(events) = 0
        BY <2>2
      <4> QED
        BY <4>1 DEF LinkNews
    <3> QED
      BY <3>1, <3>2 DEF Inv, RadioInv
  <2> QED
    BY <2>1, <2>2 DEF SignalsTrue, DownShownTruly
<1> QED
  BY <1>1, Invariant, PTL

(* Five presses lead from each mode to the one that follows it, however    *)
(* many presses, restarts and requests came before.                        *)
THEOREM PressesSwitchMode == Spec => PressSwitchesMode
<1> DEFINE Switches ==
      presses' # presses /\ inited /\ main \in Modes /\ httpd # "ap_done"
        => Chosen' = IF main = "quick" THEN "compat" ELSE "quick"
<1>1. ASSUME Inv, Next PROVE Switches
  <2>1. presses' # presses => FivePresses
    BY <1>1, Zenon
    DEF Next, EnterQuick, EnterCompatible, EnterNormal, WaitEnds, HandleEvent,
        Associate, Refuse, Lease, LoseLink, RadioStep, SessionUp, SessionDown,
        SessionStep, RestartCommand, GotCredentials, AckSent, PostWi,
        PostWiConfig, PostWiAborts, PostWiAnswer, PostAp, PostApRestart,
        GetRestart, PowerLoss, counts
  <2>2. ASSUME FivePresses, inited, main \in Modes, httpd # "ap_done"
        PROVE  Chosen' = IF main = "quick" THEN "compat" ELSE "quick"
    <3>1. /\ Flag_quick_pair <=> main = "quick"
          /\ Flag_compatible_pair <=> main = "compat"
      BY <1>1, <2>2 DEF Inv, FlagInv
    <3>2. /\ Flag_quick_pair' = (~Flag_quick_pair \/ Flag_compatible_pair)
          /\ Flag_compatible_pair' = Flag_quick_pair
      BY <2>2 DEF FivePresses, QuickAfterPress, CompatibleAfterPress
    <3> QED
      BY <3>1, <3>2 DEF Chosen
  <2> QED
    BY <2>1, <2>2
<1>2. Inv /\ [Next]_vars => [Switches]_vars
  BY <1>1
<1> QED
  BY <1>2, Invariant, PTL DEF Spec, PressSwitchesMode

-----------------------------------------------------------------------------
(***************************************************************************)
(* What the button does, for any MASK, lateness of the debouncer, window   *)
(* and number of presses.  HistoryInv: until a change is noticed the       *)
(* oldest samples are those from before it, and from then on all samples   *)
(* are as the hand is, so the bounce of one change cannot be taken for     *)
(* another.  TimeInv: a press is noticed at least New and at most MaxLate  *)
(* * Settled after it, so the times of two presses and the times at which  *)
(* they were noticed are as far apart, up to Slack.  CountInv: therefore   *)
(* press_count lies between near and far, as long as the clock fits into   *)
(* 32 bits.                                                                *)
(***************************************************************************)

Level == {Pressed, Released}

\* What the hand did, and has not been noticed.
Change == IF hand = Pressed THEN "DOWN" ELSE "UP"
Other(level) == IF level = Pressed THEN Released ELSE Pressed

OwedInv ==
  /\ owed \in [{"DOWN", "UP"} -> {0, 1}]
  /\ owed["DOWN"] = 1 => hand = Pressed
  /\ owed["UP"] = 1 => hand = Released
  /\ since = Settled => owed["DOWN"] = 0 /\ owed["UP"] = 0

HistoryInv ==
  IF owed[Change] = 0
  THEN since >= New /\ \A n \in 1 .. Bits : history[n] = hand
  ELSE /\ \A n \in 1 .. Bits : n <= Bits - since => history[n] = Other(hand)
       /\ \A n \in 1 .. Bits : n > Bits - since + Bounce => history[n] = hand

\* down_time is 0 before a press has been noticed.
DownInv ==
  /\ down_time # 0 => IF hand = Pressed THEN owed["DOWN"] = 0 ELSE owed["UP"] = 1
  /\ event = "DOWN" => IF hand = Pressed THEN owed["DOWN"] = 0
                       ELSE owed["UP"] = 1 /\ since = 0

\* The last press has not been counted yet.
Waiting == owed["DOWN"] = 1 \/ event = "DOWN"

TimeInv ==
  /\ last \in Nat /\ last <= clock
  /\ far = 0 => press_count = 0 /\ near = 0
  /\ owed["DOWN"] = 1 => last + since <= clock /\ clock <= last + MaxLate * since
  /\ event = "DOWN" => last + New <= clock /\ clock <= last + MaxLate * Settled
  /\ press_count > 0 => capture <= clock
  /\ ~Waiting /\ clock < Wrap /\ press_count > 0 =>
       last + New <= capture /\ capture <= last + MaxLate * Settled
  /\ near \in 0 .. Needed /\ far \in 0 .. Needed

Fits == clock < Wrap
FitsLong == clock + Window < Wrap

CountInv ==
  /\ Waiting => far > 0
  /\ Fits => IF Waiting THEN press_count < far \/ last > capture + Window - New
                        ELSE press_count <= far
  /\ FitsLong => IF Waiting
       THEN \/ near <= 1
            \/ /\ near <= press_count + 1
               /\ last <= capture + Window - MaxLate * Settled
       ELSE near <= press_count

RestartInv ==
  /\ restarted <=> press_count = Needed
  /\ restarted => event = "none" /\ clock < Wrap
  /\ restarted => owed["DOWN"] = 0
  /\ quick \in BOOLEAN /\ compatible \in BOOLEAN

ButtonInv ==
  /\ ButtonTypeOK /\ OwedInv /\ HistoryInv /\ DownInv /\ TimeInv /\ CountInv
  /\ RestartInv

-----------------------------------------------------------------------------
(* Numbers *)

LEMMA Sizes ==
  /\ Bits \in Nat /\ Old \in Nat /\ New \in Nat /\ Bounce \in Nat
  /\ Old > 0 /\ New > 0 /\ Bounce <= New /\ Old + Settled <= Bits
  /\ Settled = Bounce + New /\ Settled \in Nat /\ Bits > 0
  /\ Window \in Nat /\ Needed \in Nat /\ Needed > 1
  /\ Wrap \in Nat /\ Wrap > 0 /\ MaxLate \in Nat /\ MaxLate > 0
  /\ MaxTime \in Nat /\ MaxTime > 0 /\ Long \in Nat /\ Repeat \in Nat
BY SizeAssumption, NeededAssumption, BounceAssumption, BoundAssumption
   DEF Settled

LEMMA MinOf ==
  ASSUME NEW a \in Int, NEW b \in Int
  PROVE  Min({a, b}) = IF a <= b THEN a ELSE b
<1> DEFINE P(x) == x \in {a, b} /\ \A y \in {a, b} : x <= y
           m == IF a <= b THEN a ELSE b
<1>1. P(m)
  OBVIOUS
<1>2. \A x : P(x) => x = m
  OBVIOUS
<1>3. P(CHOOSE x \in {a, b} : \A y \in {a, b} : x <= y)
  BY <1>1
<1> QED
  BY <1>2, <1>3 DEF Min

LEMMA Remainder ==
  ASSUME NEW t \in Nat
  PROVE  /\ t % Wrap \in 0 .. Wrap - 1 /\ t % Wrap <= t
         /\ t < Wrap => t % Wrap = t
BY Sizes

\* The pass that makes since one greater takes at most MaxLate.
LEMMA Lateness ==
  ASSUME NEW s \in Nat, s <= Settled
  PROVE  /\ MaxLate * s \in Nat /\ MaxLate * Settled \in Nat
         /\ MaxLate * (s + 1) = MaxLate * s + MaxLate
         /\ MaxLate * s <= MaxLate * Settled
         /\ s <= MaxLate * s
BY Sizes

LEMMA Shorter ==
  ASSUME NEW a \in Int, NEW b \in Int, NEW c \in Int, NEW d \in Int, d <= b
  PROVE  /\ a + b <= c => a + d <= c
         /\ b + a < c => d + a < c
OBVIOUS

-----------------------------------------------------------------------------
(* A pass over the pin *)

LEMMA Updated ==
  ASSUME history \in [1 .. Bits -> Level], NEW level \in Level
  PROVE  /\ update_button(level) \in [1 .. Bits -> Level]
         /\ update_button(level)[Bits] = level
         /\ \A n \in 1 .. Bits - 1 : update_button(level)[n] = history[n + 1]
<1>1. history \in Seq(Level) /\ Len(history) = Bits /\ Bits \in Nat \ {0}
  BY Sizes
<1>2. /\ Tail(history) \in Seq(Level) /\ Len(Tail(history)) = Bits - 1
      /\ \A n \in 1 .. Bits - 1 : Tail(history)[n] = history[n + 1]
  BY <1>1
<1> DEFINE t == Tail(history)
<1> HIDE DEF t
<1>3. /\ Append(t, level) \in Seq(Level) /\ Len(Append(t, level)) = Bits
      /\ Append(t, level)[Bits] = level
      /\ \A n \in 1 .. Bits - 1 : Append(t, level)[n] = t[n]
  BY <1>1, <1>2 DEF t
<1>4. Append(t, level) \in [1 .. Bits -> Level]
  <2>1. ASSUME NEW a \in Seq(Level), Len(a) = Bits
        PROVE  a \in [1 .. Bits -> Level]
    BY <2>1
  <2> QED
    BY <1>3, <2>1
<1> QED
  BY <1>2, <1>3, <1>4 DEF update_button, t

\* While a change has not been noticed it is the only one that can be: the
\* oldest samples are from before it, and it is when the bounce is over.
LEMMA OnlyThisChange ==
  ASSUME ButtonInv, owed[Change] = 1, NEW level \in Level,
         since < Bounce \/ level = hand
  PROVE  /\ since < Settled
         /\ Oldest(update_button(level), Other(hand))
         /\ since + 1 < New => ~Newest(update_button(level), hand)
         /\ since + 1 = Settled => Newest(update_button(level), hand)
         /\ \A n \in 1 .. Bits :
              /\ n <= Bits - (since + 1) => update_button(level)[n] = Other(hand)
              /\ n > Bits - (since + 1) + Bounce => update_button(level)[n] = hand
<1> DEFINE h == update_button(level)
<1>1. /\ since \in 0 .. Settled /\ hand \in Level
      /\ history \in [1 .. Bits -> Level]
  BY DEF ButtonInv, ButtonTypeOK, Level
<1>2. since < Settled
  BY <1>1, Sizes DEF ButtonInv, OwedInv, Change
<1>3. /\ h[Bits] = level
      /\ \A n \in 1 .. Bits - 1 : h[n] = history[n + 1]
  BY <1>1, Updated
<1>4. /\ \A n \in 1 .. Bits : n <= Bits - since => history[n] = Other(hand)
      /\ \A n \in 1 .. Bits : n > Bits - since + Bounce => history[n] = hand
  BY Sizes DEF ButtonInv, HistoryInv
<1> HIDE DEF h
<1>5. ASSUME NEW n \in 1 .. Bits
      PROVE  /\ n <= Bits - (since + 1) => h[n] = Other(hand)
             /\ n > Bits - (since + 1) + Bounce => h[n] = hand
  <2>1. CASE n = Bits
    BY <1>1, <1>3, <2>1, Sizes
  <2>2. CASE n # Bits
    <3>1. n \in 1 .. Bits - 1 /\ n + 1 \in 1 .. Bits /\ h[n] = history[n + 1]
      BY <1>3, <2>2, Sizes
    <3> QED
      BY <1>1, <1>4, <3>1, Sizes
  <2> QED
    BY <2>1, <2>2
<1>6. Oldest(h, Other(hand))
  BY <1>1, <1>2, <1>5, Sizes DEF Oldest
<1>7. Other(hand) # hand
  BY <1>1 DEF Other, Level, Pressed, Released
<1>8. ASSUME since + 1 < New PROVE ~Newest(h, hand)
  <2>1. Bits - New + 1 \in 1 .. Bits /\ Bits - New + 1 <= Bits - (since + 1)
    BY <1>1, <1>8, Sizes
  <2>2. h[Bits - New + 1] # hand
    BY <1>5, <1>7, <2>1
  <2> QED
    BY <2>1, <2>2, Sizes DEF Newest
<1>9. ASSUME since + 1 = Settled PROVE Newest(h, hand)
  BY <1>1, <1>5, <1>9, Sizes DEF Newest
<1> QED
  BY <1>2, <1>5, <1>6, <1>8, <1>9 DEF h

\* A change that has been noticed is not noticed again, nor undone.
LEMMA NoChange ==
  ASSUME ButtonInv, owed[Change] = 0, NEW level \in Level,
         since < Bounce \/ level = hand
  PROVE  /\ \A n \in 1 .. Bits : update_button(level)[n] = hand
         /\ ~button_down(update_button(level))
         /\ ~button_up(update_button(level))
<1> DEFINE h == update_button(level)
<1>1. /\ since \in 0 .. Settled /\ history \in [1 .. Bits -> Level]
  BY DEF ButtonInv, ButtonTypeOK, Level
<1>2. level = hand /\ \A n \in 1 .. Bits : history[n] = hand
  BY <1>1, Sizes DEF ButtonInv, HistoryInv
<1>3. \A n \in 1 .. Bits : h[n] = hand
  <2>1. h[Bits] = level /\ \A n \in 1 .. Bits - 1 : h[n] = history[n + 1]
    BY <1>1, Updated
  <2> HIDE DEF h
  <2>2. \A n \in 1 .. Bits - 1 : n + 1 \in 1 .. Bits
    BY Sizes
  <2>3. \A n \in 1 .. Bits : n \in 1 .. Bits - 1 \/ n = Bits
    BY Sizes
  <2> QED
    BY <1>2, <2>1, <2>2, <2>3
<1> HIDE DEF h
<1>4. 1 \in 1 .. Old /\ 1 \in 1 .. Bits /\ Bits \in Bits - New + 1 .. Bits
      /\ Bits \in 1 .. Bits
  BY Sizes
<1>5. ~button_down(h) /\ ~button_up(h)
  BY <1>3, <1>4 DEF button_down, button_up, Oldest, Newest, Pressed, Released
<1> QED
  BY <1>3, <1>5 DEF h

Kept(h) ==
  /\ history' = h /\ owed' = owed /\ UNCHANGED down_time
  /\ event' \in {"none", "HELD"}
  /\ owed[Change] = 1 => since' < Settled

Noticed(e) ==
  /\ Change = e /\ owed[e] = 1 /\ owed' = [owed EXCEPT ![e] = 0]
  /\ event' = e /\ history' = All(hand) /\ since' >= New
  /\ e = "UP" => down_time' = 0

\* A pass notices the change of the hand, or nothing has happened to the
\* counts and the last change is as it was.
LEMMA Sampled ==
  ASSUME ButtonInv, Sample
  PROVE  /\ clock' \in clock + 1 .. clock + MaxLate /\ clock' <= MaxTime
         /\ since' = IF since < Settled THEN since + 1 ELSE Settled
         /\ {down_time', next_long_time'} \subseteq 0 .. Wrap - 1
         /\ \E level \in Level :
              /\ since < Bounce \/ level = hand
              /\ \/ Kept(update_button(level))
                 \/ \E e \in {"DOWN", "UP"} : Noticed(e)
         /\ UNCHANGED <<counting, hand, last, near, far>>
<1>1. PICK late \in 1 .. MaxLate, level \in Level :
        /\ since < Bounce \/ level = hand
        /\ clock' = clock + late /\ clock' <= MaxTime
        /\ Pass(clock', update_button(level))
  BY DEF Sample, Level
<1> DEFINE h == update_button(level)
<1>2. /\ event = "none" /\ since' = Min({since + 1, Settled})
      /\ owed' = IF event' \in {"DOWN", "UP"}
                 THEN [owed EXCEPT ![event'] = @ - 1] ELSE owed
      /\ UNCHANGED <<counting, hand, last, near, far>>
  BY DEF Sample
<1>3. /\ clock \in Nat /\ since \in 0 .. Settled /\ hand \in Level
      /\ {down_time, next_long_time} \subseteq 0 .. Wrap - 1
      /\ owed \in [{"DOWN", "UP"} -> {0, 1}] /\ Change \in {"DOWN", "UP"}
  BY DEF ButtonInv, ButtonTypeOK, OwedInv, Level, Change
<1>4. since' = IF since < Settled THEN since + 1 ELSE Settled
  <2>1. since + 1 \in Int /\ Settled \in Int
    BY <1>3, Sizes
  <2>2. since' = IF since + 1 <= Settled THEN since + 1 ELSE Settled
    BY <1>2, <2>1, MinOf
  <2> QED
    BY <1>3, <2>2, Sizes
<1>5. clock' \in clock + 1 .. clock + MaxLate /\ clock' \in Nat
  BY <1>1, <1>3, Sizes
<1>6. \A n \in Nat : n % Wrap \in 0 .. Wrap - 1
  BY Remainder
<1>7. /\ millis(clock') \in 0 .. Wrap - 1
      /\ (next_long_time + Repeat) % Wrap \in 0 .. Wrap - 1
      /\ (millis(clock') + Long) % Wrap \in 0 .. Wrap - 1
  <2>1. millis(clock') \in 0 .. Wrap - 1
    BY <1>5, <1>6 DEF millis
  <2>2. next_long_time + Repeat \in Nat /\ millis(clock') + Long \in Nat
    BY <1>3, <2>1, Sizes
  <2> QED
    BY <1>6, <2>1, <2>2
<1> HIDE DEF h
<1>8. Pass(clock', h)
  BY <1>1 DEF h
<1>9. 0 \in 0 .. Wrap - 1
  BY Sizes
<1>10. {down_time', next_long_time'} \subseteq 0 .. Wrap - 1
  <2>1. down_time' \in {down_time, 0, millis(clock')}
    BY <1>8 DEF Pass
  <2>2. next_long_time' \in {next_long_time, (next_long_time + Repeat) % Wrap,
                             (millis(clock') + Long) % Wrap}
    BY <1>8 DEF Pass
  <2> QED
    BY <1>3, <1>7, <1>9, <2>1, <2>2
<1>11. CASE owed[Change] = 0
  <2>1. ~button_down(h) /\ ~button_up(h)
    BY <1>1, <1>11, NoChange DEF h
  <2>2. history' = h /\ UNCHANGED down_time /\ event' \in {"none", "HELD"}
    BY <1>2, <1>8, <2>1 DEF Pass
  <2>3. Kept(h)
    BY <1>2, <1>11, <2>2 DEF Kept
  <2> QED
    BY <1>1, <1>2, <1>4, <1>5, <1>10, <2>3 DEF h
<1>12. CASE owed[Change] = 1
  <2>1. /\ since < Settled /\ Oldest(h, Other(hand))
        /\ since + 1 < New => ~Newest(h, hand)
        /\ since + 1 = Settled => Newest(h, hand)
    BY <1>1, <1>12, OnlyThisChange DEF h
  <2>2. since' = since + 1 /\ since' \in Nat /\ New \in Nat /\ since' <= Settled
    BY <1>3, <1>4, <2>1, Sizes
  <2>3. ASSUME Newest(h, hand) PROVE since' >= New
    BY <2>1, <2>2, <2>3
  <2>4. ASSUME ~Newest(h, hand) PROVE since' < Settled
    BY <2>1, <2>2, <2>4, Sizes
  <2>5. ~Oldest(h, hand)
    <3>1. 1 \in 1 .. Old
      BY Sizes
    <3>2. Other(hand) # hand
      BY <1>3 DEF Other, Level, Pressed, Released
    <3> QED
      BY <2>1, <3>1, <3>2 DEF Oldest
  <2>6. CASE hand = Released
    <3>1. /\ Change = "UP" /\ Other(hand) = Pressed /\ ~button_down(h)
          /\ button_up(h) <=> Newest(h, hand)
      BY <2>1, <2>5, <2>6
      DEF Change, Other, button_down, button_up, Pressed, Released
    <3>2. CASE Newest(h, hand)
      <4>1. history' = All(hand) /\ down_time' = 0 /\ event' = "UP"
        BY <1>8, <2>6, <3>1, <3>2 DEF Pass
      <4>2. owed' = [owed EXCEPT !["UP"] = 0]
        <5>1. owed' = [owed EXCEPT !["UP"] = owed["UP"] - 1]
          BY <1>2, <4>1
        <5>2. owed["UP"] - 1 = 0
          BY <1>12, <3>1
        <5> QED
          BY <5>1, <5>2
      <4>3. Noticed("UP")
        BY <1>12, <2>3, <3>1, <3>2, <4>1, <4>2 DEF Noticed
      <4> QED
        BY <1>1, <1>2, <1>4, <1>5, <1>10, <4>3 DEF h
    <3>3. CASE ~Newest(h, hand)
      <4>1. history' = h /\ UNCHANGED down_time /\ event' \in {"none", "HELD"}
        BY <1>2, <1>8, <3>1, <3>3 DEF Pass
      <4>2. Kept(h)
        BY <1>2, <2>4, <3>3, <4>1 DEF Kept
      <4> QED
        BY <1>1, <1>2, <1>4, <1>5, <1>10, <4>2 DEF h
    <3> QED
      BY <3>2, <3>3
  <2>7. CASE hand = Pressed
    <3>1. /\ Change = "DOWN" /\ Other(hand) = Released /\ ~button_up(h)
          /\ button_down(h) <=> Newest(h, hand)
      BY <2>1, <2>5, <2>7
      DEF Change, Other, button_down, button_up, Pressed, Released
    <3>2. down_time = 0
      BY <1>12, <2>7, <3>1 DEF ButtonInv, DownInv
    <3>3. CASE Newest(h, hand)
      <4>1. history' = All(hand) /\ event' = "DOWN"
        BY <1>8, <2>7, <3>1, <3>2, <3>3 DEF Pass
      <4>2. owed' = [owed EXCEPT !["DOWN"] = 0]
        <5>1. owed' = [owed EXCEPT !["DOWN"] = owed["DOWN"] - 1]
          BY <1>2, <4>1
        <5>2. owed["DOWN"] - 1 = 0
          BY <1>12, <3>1
        <5> QED
          BY <5>1, <5>2
      <4>3. Noticed("DOWN")
        BY <1>12, <2>3, <3>1, <3>3, <4>1, <4>2 DEF Noticed
      <4> QED
        BY <1>1, <1>2, <1>4, <1>5, <1>10, <4>3 DEF h
    <3>4. CASE ~Newest(h, hand)
      <4>1. history' = h /\ UNCHANGED down_time /\ event' \in {"none", "HELD"}
        BY <1>2, <1>8, <3>1, <3>2, <3>4 DEF Pass
      <4>2. Kept(h)
        BY <1>2, <2>4, <3>4, <4>1 DEF Kept
      <4> QED
        BY <1>1, <1>2, <1>4, <1>5, <1>10, <4>2 DEF h
    <3> QED
      BY <3>3, <3>4
  <2> QED
    BY <1>3, <2>6, <2>7 DEF Level
<1> QED
  BY <1>3, <1>11, <1>12

-----------------------------------------------------------------------------
(* The initial states *)

LEMMA InitHolds == ButtonInit => ButtonInv
<1> SUFFICES ASSUME ButtonInit PROVE ButtonInv
  OBVIOUS
<1>1. /\ clock = 1 /\ history = [n \in 1 .. Bits |-> Released]
      /\ down_time = 0 /\ next_long_time = 0 /\ event = "none"
      /\ press_count = 0 /\ capture = 0 /\ restarted = FALSE
      /\ hand = Released /\ since = Settled /\ last = 0 /\ near = 0 /\ far = 0
      /\ owed = [DOWN |-> 0, UP |-> 0]
      /\ quick \in BOOLEAN /\ compatible \in BOOLEAN /\ ~(quick /\ compatible)
  BY DEF ButtonInit
<1>2. /\ owed \in [{"DOWN", "UP"} -> {0, 1}]
      /\ owed["DOWN"] = 0 /\ owed["UP"] = 0
  BY <1>1
<1>3. ButtonTypeOK
  <2>1. history \in [1 .. Bits -> {Pressed, Released}]
    BY <1>1
  <2>2. {down_time, next_long_time, capture} \subseteq 0 .. Wrap - 1
    BY <1>1, Sizes
  <2>3. clock \in 1 .. MaxTime /\ press_count \in 0 .. Needed /\ since \in 0 .. Settled
    BY <1>1, Sizes
  <2> QED
    BY <1>1, <2>1, <2>2, <2>3 DEF ButtonTypeOK
<1>4. OwedInv /\ HistoryInv /\ DownInv
  BY <1>1, <1>2, Sizes
  DEF OwedInv, HistoryInv, DownInv, Change, Pressed, Released
<1>5. TimeInv /\ CountInv
  BY <1>1, <1>2, Sizes DEF TimeInv, CountInv, Waiting
<1>6. RestartInv
  BY <1>1, Sizes DEF RestartInv
<1> QED
  BY <1>3, <1>4, <1>5, <1>6 DEF ButtonInv

-----------------------------------------------------------------------------
(* A pass *)

LEMMA SampleTypes ==
  ASSUME ButtonInv, Sample
  PROVE  ButtonTypeOK' /\ OwedInv' /\ DownInv'
<1>1. /\ clock' \in clock + 1 .. clock + MaxLate /\ clock' <= MaxTime
      /\ since' = IF since < Settled THEN since + 1 ELSE Settled
      /\ {down_time', next_long_time'} \subseteq 0 .. Wrap - 1
      /\ UNCHANGED <<counting, hand, last, near, far>>
  BY Sampled
<1>2. PICK level \in Level :
        Kept(update_button(level)) \/ \E e \in {"DOWN", "UP"} : Noticed(e)
  BY Sampled
<1>3. /\ clock \in Nat /\ since \in 0 .. Settled /\ hand \in Level
      /\ history \in [1 .. Bits -> Level]
      /\ owed \in [{"DOWN", "UP"} -> {0, 1}] /\ Change \in {"DOWN", "UP"}
      /\ {down_time, next_long_time, capture} \subseteq 0 .. Wrap - 1
  BY DEF ButtonInv, ButtonTypeOK, OwedInv, Level, Change
<1>4. history' \in [1 .. Bits -> Level] /\ event' \in {"none", "DOWN", "UP", "HELD"}
  <2>1. update_button(level) \in [1 .. Bits -> Level]
    BY <1>3, Updated
  <2>2. All(hand) \in [1 .. Bits -> Level]
    BY <1>3 DEF All
  <2> QED
    BY <1>2, <2>1, <2>2 DEF Kept, Noticed
<1>5. clock' \in 1 .. MaxTime /\ since' \in 0 .. Settled
  BY <1>1, <1>3, Sizes
<1>6. ButtonTypeOK'
  BY <1>1, <1>3, <1>4, <1>5 DEF ButtonInv, ButtonTypeOK, counting, Level
<1>7. Change' = Change /\ hand' = hand
  BY <1>1 DEF Change
<1>8. CASE Kept(update_button(level))
  <2>1. owed' = owed /\ down_time' = down_time /\ event' # "DOWN"
    BY <1>8 DEF Kept
  <2>2. since' = Settled => owed[Change] = 0
    BY <1>3, <1>5, <1>8, Sizes DEF Kept
  <2>3. since' = Settled => owed["DOWN"] = 0 /\ owed["UP"] = 0
    BY <1>3, <2>2 DEF ButtonInv, OwedInv, Change, Pressed, Released
  <2>4. OwedInv'
    BY <1>7, <2>1, <2>3 DEF ButtonInv, OwedInv, Settled
  <2>5. DownInv'
    BY <1>7, <2>1 DEF ButtonInv, DownInv
  <2> QED
    BY <1>6, <2>4, <2>5
<1>9. ASSUME NEW e \in {"DOWN", "UP"}, Noticed(e) PROVE OwedInv' /\ DownInv'
  <2>1. /\ Change = e /\ owed' = [owed EXCEPT ![e] = 0] /\ event' = e
        /\ e = "UP" => down_time' = 0
    BY <1>9 DEF Noticed
  <2>2. owed' \in [{"DOWN", "UP"} -> {0, 1}] /\ owed'[e] = 0
    BY <1>3, <2>1
  <2>3. owed'["DOWN"] = 0 /\ owed'["UP"] = 0
    <3>1. \A x \in {"DOWN", "UP"} : x # e => owed'[x] = owed[x]
      BY <1>3, <2>1
    <3>2. \A x \in {"DOWN", "UP"} : x # Change => owed[x] = 0
      BY <1>3 DEF ButtonInv, OwedInv, Change, Pressed, Released
    <3> QED
      BY <2>1, <2>2, <3>1, <3>2
  <2>4. OwedInv'
    BY <2>2, <2>3 DEF OwedInv
  <2>5. event' = "DOWN" => hand' = Pressed
    BY <1>7, <2>1 DEF Change
  <2>6. down_time' # 0 => hand' = Pressed
    BY <1>7, <2>1 DEF Change
  <2>7. DownInv'
    BY <2>3, <2>5, <2>6 DEF DownInv
  <2> QED
    BY <2>4, <2>7
<1> QED
  BY <1>2, <1>6, <1>8, <1>9

LEMMA SampleHistory ==
  ASSUME ButtonInv, Sample
  PROVE  HistoryInv'
<1>1. /\ since' = IF since < Settled THEN since + 1 ELSE Settled
      /\ hand' = hand
  BY Sampled
<1>2. PICK level \in Level :
        /\ since < Bounce \/ level = hand
        /\ Kept(update_button(level)) \/ \E e \in {"DOWN", "UP"} : Noticed(e)
  BY Sampled
<1>3. /\ since \in 0 .. Settled /\ Change' = Change
      /\ owed \in [{"DOWN", "UP"} -> {0, 1}] /\ Change \in {"DOWN", "UP"}
  BY <1>1 DEF ButtonInv, ButtonTypeOK, OwedInv, Change
<1>4. CASE Kept(update_button(level)) /\ owed[Change] = 0
  <2>1. /\ history' = update_button(level) /\ owed'[Change'] = 0
        /\ \A n \in 1 .. Bits : update_button(level)[n] = hand
    BY <1>2, <1>3, <1>4, NoChange DEF Kept
  <2>2. since >= New
    BY <1>4 DEF ButtonInv, HistoryInv
  <2>3. since' >= New
    BY <1>1, <1>3, <2>2, Sizes
  <2> QED
    BY <1>1, <2>1, <2>3 DEF HistoryInv
<1>5. CASE Kept(update_button(level)) /\ owed[Change] = 1
  <2>1. /\ history' = update_button(level) /\ owed'[Change'] = 1
        /\ since' = since + 1
        /\ \A n \in 1 .. Bits :
             /\ n <= Bits - (since + 1) => update_button(level)[n] = Other(hand)
             /\ n > Bits - (since + 1) + Bounce => update_button(level)[n] = hand
    BY <1>1, <1>2, <1>3, <1>5, OnlyThisChange DEF Kept
  <2> QED
    BY <1>1, <2>1 DEF HistoryInv
<1>6. ASSUME NEW e \in {"DOWN", "UP"}, Noticed(e) PROVE HistoryInv'
  <2>1. /\ Change = e /\ owed' = [owed EXCEPT ![e] = 0] /\ since' >= New
        /\ history' = All(hand)
    BY <1>6 DEF Noticed
  <2>2. owed'[Change'] = 0
    BY <1>3, <2>1
  <2> QED
    BY <1>1, <2>1, <2>2 DEF HistoryInv, All
<1> QED
  BY <1>2, <1>3, <1>4, <1>5, <1>6

LEMMA SampleTimes ==
  ASSUME ButtonInv, Sample
  PROVE  /\ TimeInv' /\ CountInv' /\ RestartInv'
<1>1. /\ clock' \in clock + 1 .. clock + MaxLate
      /\ since' = IF since < Settled THEN since + 1 ELSE Settled
      /\ UNCHANGED <<press_count, capture, quick, compatible, restarted>>
      /\ UNCHANGED <<hand, last, near, far>>
  BY Sampled DEF counting
<1>2. PICK level \in Level :
        Kept(update_button(level)) \/ \E e \in {"DOWN", "UP"} : Noticed(e)
  BY Sampled
<1>3. /\ clock \in Nat /\ since \in 0 .. Settled /\ event = "none" /\ ~restarted
      /\ owed \in [{"DOWN", "UP"} -> {0, 1}] /\ Change \in {"DOWN", "UP"}
      /\ owed["DOWN"] = 1 => Change = "DOWN"
      /\ owed["DOWN"] = 1 => since # Settled
      /\ last \in Nat /\ capture \in Nat /\ press_count \in Nat
      /\ near \in Nat /\ far \in Nat
  BY Sizes DEF ButtonInv, ButtonTypeOK, OwedInv, TimeInv, Change, Sample
<1>4. Waiting' <=> Waiting
  <2>1. CASE Kept(update_button(level))
    BY <1>3, <2>1 DEF Kept, Waiting
  <2>2. ASSUME NEW e \in {"DOWN", "UP"}, Noticed(e) PROVE Waiting' <=> Waiting
    <3>1. /\ owed[e] = 1 /\ owed' = [owed EXCEPT ![e] = 0] /\ event' = e
          /\ Change = e
      BY <2>2 DEF Noticed
    <3>2. CASE e = "DOWN"
      BY <3>1, <3>2 DEF Waiting
    <3>3. CASE e = "UP"
      <4>1. owed'["DOWN"] = owed["DOWN"]
        BY <1>3, <3>1, <3>3
      <4> QED
        BY <1>3, <3>1, <3>3, <4>1 DEF Waiting
    <3> QED
      BY <3>2, <3>3
  <2> QED
    BY <1>2, <2>1, <2>2
<1>5. clock' \in Nat /\ clock < clock' /\ clock' <= clock + MaxLate /\ MaxLate \in Nat
  BY <1>1, <1>3, Sizes
<1>6. ASSUME owed["DOWN"] = 1
      PROVE  /\ since' = since + 1 /\ since' <= Settled /\ since' \in Nat
             /\ last + since' <= clock' /\ clock' <= last + MaxLate * since'
             /\ MaxLate * since' <= MaxLate * Settled
             /\ MaxLate * since' \in Nat /\ MaxLate * Settled \in Nat
  <2>1. /\ since' = since + 1 /\ since' <= Settled /\ since' \in Nat
        /\ since \in Nat /\ since <= Settled
    BY <1>1, <1>3, <1>6, Sizes
  <2>2. last + since <= clock /\ clock <= last + MaxLate * since
    BY <1>6 DEF ButtonInv, TimeInv
  <2>3. /\ MaxLate * since' = MaxLate * since + MaxLate
        /\ MaxLate * since \in Nat
    BY <2>1, Lateness
  <2>4. /\ MaxLate * since' <= MaxLate * Settled
        /\ MaxLate * since' \in Nat /\ MaxLate * Settled \in Nat
    BY <2>1, Lateness
  <2>5. last + since' <= clock'
    BY <1>3, <1>5, <2>1, <2>2
  <2> HIDE <2>1
  <2> DEFINE a == MaxLate * since
             b == MaxLate * since'
  <2>6. clock' <= last + b
    <3>1. a \in Nat /\ b = a + MaxLate /\ clock <= last + a
      BY <2>2, <2>3
    <3> HIDE DEF a, b
    <3> QED
      BY <1>3, <1>5, <3>1
  <2> QED
    BY <2>1, <2>4, <2>5, <2>6
<1>7. owed'["DOWN"] = 1 => owed["DOWN"] = 1
  <2>1. CASE Kept(update_button(level))
    BY <2>1 DEF Kept
  <2>2. ASSUME NEW e \in {"DOWN", "UP"}, Noticed(e)
        PROVE  owed'["DOWN"] = 1 => owed["DOWN"] = 1
    BY <1>3, <2>2 DEF Noticed
  <2> QED
    BY <1>2, <2>1, <2>2
<1>8. event' = "DOWN" => owed["DOWN"] = 1 /\ since' >= New
  BY <1>2 DEF Kept, Noticed
<1>9. event' = "DOWN" => last + New <= clock' /\ clock' <= last + MaxLate * Settled
  <2> SUFFICES ASSUME event' = "DOWN"
               PROVE  last + New <= clock' /\ clock' <= last + MaxLate * Settled
    OBVIOUS
  <2>1. owed["DOWN"] = 1 /\ since' >= New
    BY <1>8
  <2>2. /\ since' \in Nat /\ last + since' <= clock'
        /\ clock' <= last + MaxLate * since'
        /\ MaxLate * since' <= MaxLate * Settled
        /\ MaxLate * since' \in Nat /\ MaxLate * Settled \in Nat
    BY <1>6, <2>1
  <2>3. last + New <= clock'
    <3>1. since' \in Int /\ New \in Int /\ last \in Int /\ clock' \in Int
      BY <1>3, <1>5, <2>2, Sizes
    <3>2. last + since' <= clock' /\ New <= since'
      BY <2>1, <2>2
    <3> QED
      BY <3>1, <3>2, Shorter
  <2> DEFINE a == MaxLate * since'
             b == MaxLate * Settled
  <2>4. a \in Nat /\ b \in Nat /\ a <= b /\ clock' <= last + a
    BY <2>2
  <2> HIDE DEF a, b
  <2>5. clock' <= last + b
    BY <1>3, <1>5, <2>4
  <2> QED
    BY <2>3, <2>5 DEF b
<1>10. TimeInv'
  <2>1. /\ last <= clock' /\ press_count > 0 => capture <= clock'
    BY <1>3, <1>5 DEF ButtonInv, TimeInv
  <2>2. clock' < Wrap => clock < Wrap
    BY <1>3, <1>5, Sizes
  <2> QED
    BY <1>1, <1>3, <1>4, <1>6, <1>7, <1>9, <2>1, <2>2 DEF ButtonInv, TimeInv, Settled
<1>11. CountInv'
  <2>1. Fits' => Fits
    BY <1>3, <1>5, Sizes DEF Fits
  <2>2. FitsLong' => FitsLong
    <3>1. /\ Window \in Int /\ Wrap \in Int /\ clock \in Int /\ clock' \in Int
          /\ clock <= clock'
      BY <1>3, <1>5, Sizes
    <3> QED
      BY <3>1, Shorter DEF FitsLong
  <2> QED
    BY <1>1, <1>4, <2>1, <2>2 DEF ButtonInv, CountInv, Settled
<1>12. RestartInv'
  BY <1>1, <1>3 DEF ButtonInv, RestartInv
<1> QED
  BY <1>10, <1>11, <1>12

-----------------------------------------------------------------------------
(* The hand *)

LEMMA FollowsIs ==
  ASSUME ButtonInv, NEW run \in 0 .. Needed, NEW gap \in Int
  PROVE  /\ Follows(run, gap) \in 1 .. Needed
         /\ run > 0 /\ clock - last <= gap =>
              Follows(run, gap) = IF run < Needed THEN run + 1 ELSE Needed
         /\ ~(run > 0 /\ clock - last <= gap) => Follows(run, gap) = 1
<1>1. run + 1 \in Int /\ Needed \in Int /\ 1 \in 1 .. Needed
  BY Sizes
<1>2. Min({run + 1, Needed}) = IF run + 1 <= Needed THEN run + 1 ELSE Needed
  BY <1>1, MinOf
<1>3. /\ Min({run + 1, Needed}) = IF run < Needed THEN run + 1 ELSE Needed
      /\ Min({run + 1, Needed}) \in 1 .. Needed
  BY <1>2, Sizes
<1> QED
  BY <1>1, <1>3 DEF Follows

LEMMA PressKeeps ==
  ASSUME ButtonInv, Press
  PROVE  ButtonInv'
<1>1. /\ ~restarted /\ hand = Released /\ since = Settled
      /\ hand' = Pressed /\ since' = 0 /\ last' = clock
      /\ near' = Follows(near, Window - Slack)
      /\ far' = Follows(far, Window + Slack)
      /\ owed' = [owed EXCEPT !["DOWN"] = @ + 1]
      /\ UNCHANGED <<clock, history, down_time, next_long_time, event>>
      /\ UNCHANGED <<press_count, capture, quick, compatible, restarted>>
  BY DEF Press, debounce, counting
<1>2. /\ clock \in Nat /\ since \in 0 .. Settled /\ capture \in Nat
      /\ press_count \in 0 .. Needed /\ press_count # Needed
      /\ owed \in [{"DOWN", "UP"} -> {0, 1}]
      /\ last \in Nat /\ near \in 0 .. Needed /\ far \in 0 .. Needed
  BY <1>1, Sizes DEF ButtonInv, ButtonTypeOK, OwedInv, TimeInv, RestartInv
<1>3. owed["DOWN"] = 0 /\ owed["UP"] = 0
  BY <1>1 DEF ButtonInv, OwedInv
<1>4. /\ owed' = [owed EXCEPT !["DOWN"] = 1] /\ owed'["DOWN"] = 1
      /\ owed'["UP"] = 0 /\ owed' \in [{"DOWN", "UP"} -> {0, 1}]
  <2>1. owed' = [owed EXCEPT !["DOWN"] = owed["DOWN"] + 1]
    BY <1>1
  <2>2. owed["DOWN"] + 1 = 1
    BY <1>3
  <2>3. owed' = [owed EXCEPT !["DOWN"] = 1]
    BY <2>1, <2>2
  <2> QED
    BY <1>2, <1>3, <2>3
<1>5. event # "DOWN"
  BY <1>1, <1>3 DEF ButtonInv, DownInv, Pressed, Released
<1>6. ButtonTypeOK'
  BY <1>1, Sizes DEF ButtonInv, ButtonTypeOK, Settled
<1>7. OwedInv'
  BY <1>1, <1>4, Sizes DEF OwedInv, Settled
<1>8. HistoryInv'
  <2>1. Change = "UP" /\ Change' = "DOWN" /\ Other(hand') = hand
    BY <1>1 DEF Change, Other, Pressed, Released
  <2>2. \A n \in 1 .. Bits : history[n] = hand
    BY <1>3, <2>1 DEF ButtonInv, HistoryInv
  <2>3. \A n \in 1 .. Bits : ~(n > Bits - 0 + Bounce)
    BY Sizes
  <2> QED
    BY <1>1, <1>4, <2>1, <2>2, <2>3 DEF HistoryInv
<1>9. DownInv'
  <2>1. down_time = 0
    BY <1>1, <1>3 DEF ButtonInv, DownInv, Pressed, Released
  <2> QED
    BY <1>1, <1>5, <2>1 DEF DownInv
<1>10. ~Waiting /\ Waiting'
  BY <1>3, <1>4, <1>5 DEF Waiting
<1> DEFINE D == MaxLate * Settled
<1>11. D \in Nat /\ Slack = D - New
  <2>1. MaxLate * Settled \in Nat
    BY Lateness, Sizes
  <2> QED
    BY <2>1 DEF Slack
<1> HIDE DEF D
<1>12. Window - Slack \in Int /\ Window + Slack \in Int
  BY <1>11, Sizes
<1>13. /\ near' \in 1 .. Needed /\ far' \in 1 .. Needed
       /\ far > 0 /\ clock - last <= Window + Slack =>
              far' = IF far < Needed THEN far + 1 ELSE Needed
       /\ ~(near > 0 /\ clock - last <= Window - Slack) => near' = 1
       /\ near > 0 /\ clock - last <= Window - Slack =>
              near' = IF near < Needed THEN near + 1 ELSE Needed
  BY <1>1, <1>2, <1>12, FollowsIs
<1>14. TimeInv'
  <2>1. press_count > 0 => capture <= clock
    BY DEF ButtonInv, TimeInv
  <2>2. far' # 0 /\ near' \in 0 .. Needed /\ far' \in 0 .. Needed
    BY <1>13, Sizes
  <2>3. last' + since' <= clock' /\ clock' <= last' + MaxLate * since'
    <3>1. MaxLate * 0 \in Nat
      BY Lateness, Sizes
    <3> QED
      BY <1>1, <1>2, <3>1
  <2>4. last' \in Nat /\ last' <= clock'
    BY <1>1, <1>2
  <2> QED
    BY <1>1, <1>5, <1>10, <2>1, <2>2, <2>3, <2>4 DEF TimeInv
<1>15. ASSUME Fits'
       PROVE  press_count' < far' \/ last' > capture' + Window - New
  <2>1. CASE press_count = 0
    BY <1>1, <1>13, <2>1, Sizes
  <2>2. CASE press_count > 0
    <3>1. /\ press_count <= far /\ capture <= last + D
      BY <1>1, <1>10, <1>15, <2>2 DEF ButtonInv, CountInv, TimeInv, Fits, D
    <3>2. CASE clock - last <= Window + Slack
      BY <1>1, <1>2, <1>13, <2>2, <3>1, <3>2, Sizes
    <3>3. CASE clock - last > Window + Slack
      BY <1>1, <1>2, <1>11, <3>1, <3>3, Sizes
    <3> QED
      BY <1>2, <1>12, <3>2, <3>3
  <2> QED
    BY <1>2, <2>1, <2>2, Sizes
<1>16. ASSUME FitsLong'
       PROVE  \/ near' <= 1
              \/ /\ near' <= press_count' + 1
                 /\ last' <= capture' + Window - D
  <2> SUFFICES ASSUME near > 0, clock - last <= Window - Slack
               PROVE  near' <= press_count' + 1 /\ last' <= capture' + Window - D
    BY <1>13
  <2>1. FitsLong /\ Fits
    BY <1>1, <1>2, <1>16, Sizes DEF FitsLong, Fits
  <2>2. near <= press_count
    BY <1>10, <2>1 DEF ButtonInv, CountInv
  <2>3. press_count > 0
    BY <1>2, <2>2, Sizes
  <2>4. last + New <= capture
    BY <1>10, <2>1, <2>3 DEF ButtonInv, TimeInv, Fits
  <2>5. near' = near + 1
    BY <1>2, <1>13, <2>2, Sizes
  <2> QED
    BY <1>1, <1>2, <1>11, <2>2, <2>4, <2>5, Sizes
<1>17. CountInv'
  <2>1. far' > 0
    BY <1>13, Sizes
  <2> QED
    BY <1>10, <1>15, <1>16, <2>1 DEF CountInv, D, Settled
<1>18. RestartInv'
  BY <1>1, <1>2 DEF ButtonInv, RestartInv
<1> QED
  BY <1>6, <1>7, <1>8, <1>9, <1>14, <1>17, <1>18 DEF ButtonInv

LEMMA ReleaseKeeps ==
  ASSUME ButtonInv, Release
  PROVE  ButtonInv'
<1>1. /\ ~restarted /\ hand = Pressed /\ since = Settled
      /\ hand' = Released /\ since' = 0
      /\ owed' = [owed EXCEPT !["UP"] = @ + 1]
      /\ UNCHANGED <<clock, history, down_time, next_long_time, event>>
      /\ UNCHANGED <<press_count, capture, quick, compatible, restarted>>
      /\ UNCHANGED <<last, near, far>>
  BY DEF Release, debounce, counting
<1>2. owed \in [{"DOWN", "UP"} -> {0, 1}] /\ owed["DOWN"] = 0 /\ owed["UP"] = 0
  BY <1>1 DEF ButtonInv, OwedInv
<1>3. /\ owed'["UP"] = 1 /\ owed'["DOWN"] = 0
      /\ owed' \in [{"DOWN", "UP"} -> {0, 1}]
  <2>1. owed' = [owed EXCEPT !["UP"] = owed["UP"] + 1]
    BY <1>1
  <2>2. owed["UP"] + 1 = 1
    BY <1>2
  <2>3. owed' = [owed EXCEPT !["UP"] = 1]
    BY <2>1, <2>2
  <2> QED
    BY <1>2, <2>3
<1>4. ButtonTypeOK'
  BY <1>1, Sizes DEF ButtonInv, ButtonTypeOK, Settled
<1>5. OwedInv'
  BY <1>1, <1>3, Sizes DEF OwedInv, Settled
<1>6. HistoryInv'
  <2>1. Change = "DOWN" /\ Change' = "UP" /\ Other(hand') = hand
    BY <1>1 DEF Change, Other, Pressed, Released
  <2>2. \A n \in 1 .. Bits : history[n] = hand
    BY <1>2, <2>1 DEF ButtonInv, HistoryInv
  <2>3. \A n \in 1 .. Bits : ~(n > Bits - 0 + Bounce)
    BY Sizes
  <2> QED
    BY <1>1, <1>3, <2>1, <2>2, <2>3 DEF HistoryInv
<1>7. DownInv'
  BY <1>1, <1>3 DEF DownInv, Pressed, Released
<1>8. Waiting' <=> Waiting
  BY <1>1, <1>2, <1>3 DEF Waiting
<1>9. TimeInv'
  BY <1>1, <1>3, <1>8 DEF ButtonInv, TimeInv, Settled
<1>10. CountInv'
  BY <1>1, <1>8 DEF ButtonInv, CountInv, Fits, FitsLong, Settled
<1>11. RestartInv'
  BY <1>1 DEF ButtonInv, RestartInv
<1> QED
  BY <1>4, <1>5, <1>6, <1>7, <1>9, <1>10, <1>11 DEF ButtonInv

-----------------------------------------------------------------------------
(* button_task *)

LEMMA TakeOtherKeeps ==
  ASSUME ButtonInv, TakeOther
  PROVE  ButtonInv'
<1>1. /\ event # "DOWN" /\ event' = "none"
      /\ UNCHANGED <<clock, history, down_time, next_long_time, owed>>
      /\ UNCHANGED <<press_count, capture, quick, compatible, restarted>>
      /\ UNCHANGED <<hand, since, last, near, far>>
  BY DEF TakeOther, debounce, counting, user
<1>2. ButtonTypeOK'
  BY <1>1 DEF ButtonInv, ButtonTypeOK, Settled
<1>3. OwedInv' /\ HistoryInv' /\ DownInv'
  BY <1>1 DEF ButtonInv, OwedInv, HistoryInv, DownInv, Change, Settled
<1>4. Waiting' <=> Waiting
  BY <1>1 DEF Waiting
<1>5. TimeInv'
  BY <1>1, <1>4 DEF ButtonInv, TimeInv, Settled
<1>6. CountInv'
  BY <1>1, <1>4 DEF ButtonInv, CountInv, Fits, FitsLong, Settled
<1>7. RestartInv'
  BY <1>1 DEF ButtonInv, RestartInv
<1> QED
  BY <1>2, <1>3, <1>5, <1>6, <1>7 DEF ButtonInv

\* While the clock fits into 32 bits capture is the time of the last press
\* itself, and afterwards no press follows another quickly.
LEMMA QuickMeans ==
  ASSUME ButtonInv
  PROVE  /\ Quick => clock <= capture + Window /\ (press_count > 0 => clock < Wrap)
         /\ FitsLong /\ press_count > 0 =>
              (Quick <=> clock <= capture + Window)
<1>1. /\ clock \in Nat /\ capture \in 0 .. Wrap - 1 /\ capture \in Nat
      /\ press_count > 0 => capture <= clock
  BY Sizes DEF ButtonInv, ButtonTypeOK, TimeInv
<1>2. capture + Window \in Nat
  BY <1>1, Sizes
<1> DEFINE r == (capture + Window) % Wrap
<1>3. /\ r \in 0 .. Wrap - 1 /\ r <= capture + Window
      /\ capture + Window < Wrap => r = capture + Window
  BY <1>2, Remainder
<1>4. Quick <=> clock <= r
  BY DEF Quick
<1> HIDE DEF r
<1>5. Wrap \in Nat /\ Window \in Nat
  BY Sizes
<1>6. Quick => clock <= capture + Window /\ clock < Wrap
  BY <1>1, <1>3, <1>4, <1>5
<1>7. ASSUME FitsLong, press_count > 0
      PROVE  Quick <=> clock <= capture + Window
  <2>1. capture + Window < Wrap
    BY <1>1, <1>5, <1>7 DEF FitsLong
  <2> QED
    BY <1>3, <1>4, <2>1
<1> QED
  BY <1>6, <1>7

LEMMA TakeDownKeeps ==
  ASSUME ButtonInv, TakeDown
  PROVE  ButtonInv'
<1>1. /\ event = "DOWN" /\ event' = "none"
      /\ press_count' = (IF Quick THEN press_count ELSE 0) + 1
      /\ capture' = millis(clock)
      /\ restarted' = (press_count' = Needed)
      /\ IF restarted'
           THEN /\ quick' = (~quick \/ compatible)
                /\ compatible' = quick
           ELSE UNCHANGED <<quick, compatible>>
      /\ UNCHANGED <<clock, history, down_time, next_long_time, owed>>
      /\ UNCHANGED <<hand, since, last, near, far>>
  BY DEF TakeDown, debounce, user
<1>2. /\ clock \in Nat /\ press_count \in 0 .. Needed /\ press_count # Needed
      /\ capture \in Nat /\ last \in Nat /\ near \in 0 .. Needed
      /\ far \in 0 .. Needed /\ clock >= 1
      /\ last + New <= clock /\ clock <= last + MaxLate * Settled
      /\ owed["DOWN"] = 0 /\ Waiting /\ far > 0
      /\ quick \in BOOLEAN /\ compatible \in BOOLEAN /\ ~(quick /\ compatible)
  <2>1. owed["DOWN"] = 0
    BY <1>1 DEF ButtonInv, DownInv, OwedInv, Pressed, Released
  <2>2. press_count # Needed
    BY <1>1 DEF ButtonInv, RestartInv
  <2>3. Waiting
    BY <1>1 DEF Waiting
  <2> QED
    BY <1>1, <2>1, <2>2, <2>3, Sizes
    DEF ButtonInv, ButtonTypeOK, TimeInv, CountInv, RestartInv
<1>3. millis(clock) \in 0 .. Wrap - 1 /\ (clock < Wrap => millis(clock) = clock)
      /\ millis(clock) <= clock
  BY <1>2, Remainder DEF millis
<1>4. press_count' \in 1 .. Needed
  BY <1>1, <1>2, Sizes
<1>5. ~(quick' /\ compatible') /\ quick' \in BOOLEAN /\ compatible' \in BOOLEAN
  BY <1>1, <1>2
<1>6. ButtonTypeOK'
  <2>1. press_count' \in 0 .. Needed /\ restarted' \in BOOLEAN
    BY <1>1, <1>4, Sizes
  <2>2. capture' \in 0 .. Wrap - 1
    BY <1>1, <1>3
  <2> QED
    BY <1>1, <1>5, <2>1, <2>2 DEF ButtonInv, ButtonTypeOK, Settled
<1>7. OwedInv' /\ HistoryInv' /\ DownInv'
  BY <1>1 DEF ButtonInv, OwedInv, HistoryInv, DownInv, Change, Settled
<1>8. ~Waiting'
  BY <1>1, <1>2 DEF Waiting
<1> DEFINE D == MaxLate * Settled
<1>9. D \in Nat /\ clock <= last + D
  <2>1. MaxLate * Settled \in Nat
    BY Lateness, Sizes
  <2> QED
    BY <1>2, <2>1
<1>10. TimeInv'
  <2>1. capture' <= clock'
    BY <1>1, <1>3
  <2>2. clock' < Wrap => last' + New <= capture' /\ capture' <= last' + D
    BY <1>1, <1>2, <1>3, <1>9
  <2> QED
    BY <1>1, <1>2, <2>1, <2>2 DEF ButtonInv, TimeInv, Settled, D
<1> HIDE DEF D
<1>11. ASSUME Fits' PROVE press_count' <= far'
  <2>1. CASE Quick
    <3>1. clock <= capture + Window
      BY <2>1, QuickMeans
    <3>2. press_count < far \/ last > capture + Window - New
      BY <1>1, <1>2, <1>11 DEF ButtonInv, CountInv, Fits
    <3>3. press_count < far
      BY <1>2, <3>1, <3>2, Sizes
    <3> QED
      BY <1>1, <1>2, <2>1, <3>3, Sizes
  <2>2. CASE ~Quick
    BY <1>1, <1>2, <2>2
  <2> QED
    BY <2>1, <2>2
<1>12. ASSUME FitsLong' PROVE near' <= press_count'
  <2>1. FitsLong
    BY <1>1, <1>12 DEF FitsLong
  <2>2. near <= 1 \/ (near <= press_count + 1 /\ last <= capture + Window - D)
    BY <1>2, <2>1 DEF ButtonInv, CountInv, D
  <2>3. CASE near <= 1
    BY <1>1, <1>2, <1>4, <2>3, Sizes
  <2>4. CASE near > 1 /\ near <= press_count + 1 /\ last <= capture + Window - D
    <3>1. press_count > 0 /\ clock <= capture + Window
      BY <1>2, <1>9, <2>4, Sizes
    <3>2. Quick
      BY <2>1, <3>1, QuickMeans
    <3> QED
      BY <1>1, <1>2, <2>4, <3>2, Sizes
  <2> QED
    BY <1>2, <2>2, <2>3, <2>4, Sizes
<1>13. CountInv'
  BY <1>8, <1>11, <1>12 DEF CountInv
<1>14. RestartInv'
  <2>1. ASSUME restarted' PROVE clock < Wrap
    <3>1. Quick /\ press_count > 0
      BY <1>1, <1>2, <2>1, Sizes
    <3> QED
      BY <3>1, QuickMeans
  <2> QED
    BY <1>1, <1>2, <1>5, <2>1 DEF RestartInv
<1> QED
  BY <1>6, <1>7, <1>10, <1>13, <1>14 DEF ButtonInv

LEMMA StepKeeps == ButtonInv /\ [ButtonNext]_button_vars => ButtonInv'
<1> SUFFICES ASSUME ButtonInv, [ButtonNext]_button_vars PROVE ButtonInv'
  OBVIOUS
<1>1. CASE Sample
  BY <1>1, SampleTypes, SampleHistory, SampleTimes DEF ButtonInv
<1>2. CASE UNCHANGED button_vars
  <2>1. /\ UNCHANGED <<clock, history, down_time, next_long_time, event, owed>>
        /\ UNCHANGED <<press_count, capture, quick, compatible, restarted>>
        /\ UNCHANGED <<hand, since, last, near, far>>
    BY <1>2 DEF button_vars, debounce, counting, user
  <2>2. ButtonTypeOK' /\ OwedInv' /\ HistoryInv' /\ DownInv'
    BY <2>1 DEF ButtonInv, ButtonTypeOK, OwedInv, HistoryInv, DownInv, Change, Settled
  <2>3. TimeInv' /\ CountInv' /\ RestartInv'
    BY <2>1 DEF ButtonInv, TimeInv, CountInv, RestartInv, Waiting, Fits, FitsLong,
                Settled
  <2> QED
    BY <2>2, <2>3 DEF ButtonInv
<1> QED
  BY <1>1, <1>2, PressKeeps, ReleaseKeeps, TakeOtherKeeps, TakeDownKeeps
  DEF ButtonNext

LEMMA InvAlways == ButtonSpec => []ButtonInv
BY InitHolds, StepKeeps, PTL DEF ButtonSpec

-----------------------------------------------------------------------------
(* Theorems *)

\* Every variable keeps its type; in particular the count of presses never
\* passes the one at which the gateway restarts.
THEOREM ButtonTypeCorrect == ButtonSpec => []ButtonTypeOK
<1>1. ButtonInv => ButtonTypeOK
  BY DEF ButtonInv
<1> QED
  BY <1>1, InvAlways, PTL

\* A press and a release give one event each, however the pin bounces, for
\* any MASK whose newest samples are no fewer than a bounce lasts.
THEOREM EventsAreTrue == ButtonSpec => []Debounced
<1>1. ButtonInv => Debounced
  <2> SUFFICES ASSUME ButtonInv PROVE Debounced
    OBVIOUS
  <2>1. owed \in [{"DOWN", "UP"} -> {0, 1}]
    BY DEF ButtonInv, OwedInv
  <2>2. owed = [e \in {"DOWN", "UP"} |-> owed[e]]
    BY <2>1
  <2>3. ASSUME since = Settled PROVE owed = [DOWN |-> 0, UP |-> 0]
    <3>1. owed["DOWN"] = 0 /\ owed["UP"] = 0
      BY <2>3 DEF ButtonInv, OwedInv
    <3> QED
      BY <2>2, <3>1
  <2> QED
    BY <2>1, <2>3 DEF Debounced
<1> QED
  BY <1>1, InvAlways, PTL

\* Presses within the window of each other, and only those, restart the
\* gateway, for any number of presses, window and lateness of the debouncer;
\* and none does any more when the clock has outgrown 32 bits.
THEOREM QuickPressesRestart == ButtonSpec => []PressesRestart
<1>1. ButtonInv => PressesRestart
  <2> SUFFICES ASSUME ButtonInv PROVE PressesRestart
    OBVIOUS
  <2>1. /\ press_count \in 0 .. Needed /\ near \in 0 .. Needed
        /\ far \in 0 .. Needed /\ restarted \in BOOLEAN /\ clock \in Nat
        /\ restarted <=> press_count = Needed
        /\ restarted => clock < Wrap /\ ~Waiting
    BY DEF ButtonInv, ButtonTypeOK, TimeInv, RestartInv, Waiting, OwedInv
  <2>2. restarted => far = Needed
    <3>1. restarted => press_count <= far
      BY <2>1 DEF ButtonInv, CountInv, Fits
    <3> QED
      BY <2>1, <3>1, Sizes
  <2>3. near = Needed /\ since = Settled /\ event = "none" /\ clock + Window < Wrap
          => restarted
    <3> SUFFICES ASSUME near = Needed, since = Settled, event = "none", FitsLong
                 PROVE  press_count = Needed
      BY <2>1 DEF FitsLong
    <3>1. ~Waiting
      BY DEF ButtonInv, OwedInv, Waiting
    <3>2. near <= press_count
      BY <3>1 DEF ButtonInv, CountInv
    <3> QED
      BY <2>1, <3>2, Sizes
  <2> QED
    BY <2>1, <2>2, <2>3 DEF PressesRestart
<1> QED
  BY <1>1, InvAlways, PTL

=============================================================================
