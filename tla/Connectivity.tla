---------------------------- MODULE Connectivity ----------------------------
(***************************************************************************)
(* How the gateway chooses its mode at boot and gets onto the network.     *)
(*                                                                         *)
(* app_main (main.c) reads two flags that survive a restart and enters one *)
(* of three modes.  Quick pairing listens for credentials (SmartConfig.c); *)
(* compatible pairing opens an access point (AP.c); both serve the HTTP    *)
(* requests of the phone (WebServer.c).  Otherwise the gateway joins the   *)
(* stored network (WiFi_proc.c) and starts the MQTT client (mqtt.c).  Five *)
(* presses of the button (Button.c) change the flags and restart.          *)
(*                                                                         *)
(* The tasks interleave freely: app_main, the default event loop, the      *)
(* MQTT client, the HTTP server, the button task.  STATE is one global     *)
(* that three of them assign without a lock.                               *)
(***************************************************************************)
EXTENDS Integers, Sequences

CONSTANTS
    InitialConfigs, \* the station configurations that flash may hold
    MaxPresses,     \* bound: runs of five presses
    MaxDrops,       \* bound: links lost, or refused with good credentials
    MaxPowerLosses, \* bound: power cuts and brownouts
    MaxPosts        \* bound: POST /wi requests

Configs == {"none", "good", "bad"}

ASSUME BoundsAssumption ==
    /\ InitialConfigs \subseteq Configs
    /\ {MaxPresses, MaxDrops, MaxPowerLosses, MaxPosts} \subseteq Nat

VARIABLES
    Flag_quick_pair, Flag_compatible_pair, \* __NOINIT_ATTR: kept over a restart
    inited,     \* history: the flags hold what the firmware wrote
    reset,      \* esp_reset_reason()
    main,       \* where app_main is: "boot", a pairing mode, "waiting" in
                \* wifi_init_sta, or "running" with the MQTT client started
    state,      \* STATE: what the status LED shows and uart.c publishes by
    config,     \* the station configuration in flash
    using,      \* the configuration of the current attempt or link
    station,    \* "off", "idle", "trying", "linked", "up" (has an address)
    events,     \* the default event loop's queue
    handlers,   \* registered handlers: "sta" WiFi_proc.c, "sc" SmartConfig.c
    bit,        \* WIFI_CONNECTED_BIT of the current event group
    leased,     \* history: an address was obtained since boot
    session,    \* the MQTT client: "off", "down", "up"
    sc,         \* smartconfig_task: "off", "listening", "got", "done"
    httpd,      \* "off", "idle", inside POST /wi or POST /ap
    posted,     \* the configuration of the POST /wi being served
    ap,         \* the gateway's own access point is open
    was,        \* history: the mode before the last restart
    answered,   \* history: POST /ap was answered before the last restart
    presses, drops, losses, posts

flags   == <<Flag_quick_pair, Flag_compatible_pair, inited>>
radio   == <<using, station, drops>>
serving == <<httpd, posted, posts, sc, ap>>
past == <<was, answered>>
counts  == <<presses, losses>>
vars == <<flags, reset, main, state, config, radio, events, handlers, bit,
          leased, session, serving, past, counts>>

Modes == {"quick", "compat", "waiting", "running"}
Pairing == {"quick", "compat"}

TypeOK ==
    /\ {Flag_quick_pair, Flag_compatible_pair, inited, bit, leased,
        answered} \subseteq BOOLEAN
    /\ reset \in {"poweron", "brownout", "sw"}
    /\ main \in Modes \cup {"boot"}
    /\ state \in {"UNKNOW", "NORMAL", "WIFI_DISCONNECTED", "LOCAL_MODE",
                  "QUICK_MODE", "COMPATIBLE_MODE"}
    /\ {config, using, posted} \subseteq Configs
    /\ station \in {"off", "idle", "trying", "linked", "up"}
    /\ events \in Seq({"START", "CONNECTED", "DISCONNECTED", "GOT_IP"})
    /\ Len(events) <= 4
    /\ handlers \subseteq {"sta", "sc"}
    /\ session \in {"off", "down", "up"}
    /\ sc \in {"off", "listening", "got", "done"}
    /\ httpd \in {"off", "idle", "wi_mode", "wi_wait", "ap_done"}
    /\ was \in Modes \cup {"none"}
    /\ (session # "off" => main = "running")
    /\ (httpd # "off" => main \in Pairing)
    /\ (sc # "off" => main = "quick")
    /\ ap \in BOOLEAN /\ (ap => main \in Pairing)
    /\ (main = "compat" /\ station = "off" => ap)
    /\ presses \in 0..MaxPresses /\ drops \in 0..MaxDrops
    /\ losses \in 0..MaxPowerLosses /\ posts \in 0..MaxPosts

Init ==
    /\ Flag_quick_pair \in BOOLEAN /\ Flag_compatible_pair \in BOOLEAN
    /\ inited = FALSE
    /\ reset = "poweron" /\ main = "boot" /\ state = "UNKNOW"
    /\ using = "none" /\ station = "off" /\ events = <<>> /\ handlers = {}
    /\ bit = FALSE /\ leased = FALSE /\ session = "off" /\ sc = "off"
    /\ httpd = "off" /\ posted = "none" /\ ap = FALSE
    /\ config \in InitialConfigs
    /\ was = "none" /\ answered = FALSE
    /\ presses = 0 /\ drops = 0 /\ losses = 0 /\ posts = 0

(* Everything in ordinary RAM and in the radio starts afresh.              *)
BootAfter(why) ==
    /\ reset' = why /\ main' = "boot" /\ state' = "UNKNOW"
    /\ using' = "none" /\ station' = "off" /\ events' = <<>>
    /\ handlers' = {} /\ bit' = FALSE /\ leased' = FALSE
    /\ session' = "off" /\ sc' = "off" /\ httpd' = "off" /\ posted' = "none"
    /\ ap' = FALSE

(* esp_restart, or an abort: the flags and the flash are kept.             *)
Reboot ==
    /\ BootAfter("sw")
    /\ was' = IF main = "boot" THEN was ELSE main
    /\ answered' = (httpd = "ap_done" \/ (main = "boot" /\ answered))
    /\ UNCHANGED <<config, drops, losses, posts>>

-----------------------------------------------------------------------------
(* app_main.                                                               *)

ClearsFlags == reset = "poweron"

AfterReset(flag) == flag /\ ~ClearsFlags

(* Lines 108-113, the same in each of the three modes.                     *)
ReadFlags ==
    /\ main = "boot"
    /\ Flag_quick_pair' = AfterReset(Flag_quick_pair)
    /\ Flag_compatible_pair' = AfterReset(Flag_compatible_pair)
    /\ inited' = (inited \/ ClearsFlags)

(* start_smartconfig: its handler is registered, the station started.      *)
EnterQuick ==
    /\ ReadFlags
    /\ AfterReset(Flag_quick_pair)
    /\ main' = "quick" /\ state' = "QUICK_MODE"
    /\ handlers' = {"sc"}
    /\ station' = "idle" /\ events' = Append(events, "START")
    /\ UNCHANGED <<reset, config, using, drops, bit, leased, session,
                   serving, past, counts>>

(* httpd_start may fail; its callers do not look at the result.            *)
start_webserver == httpd' \in {"idle", "off"}

(* wifi_init_softap: the access point only, then the HTTP server.          *)
EnterCompatible ==
    /\ ReadFlags
    /\ ~AfterReset(Flag_quick_pair) /\ AfterReset(Flag_compatible_pair)
    /\ main' = "compat" /\ state' = "COMPATIBLE_MODE"
    /\ ap' = TRUE /\ start_webserver
    /\ UNCHANGED <<reset, config, radio, events, handlers, bit, leased,
                   session, posted, posts, sc, past, counts>>

(* The normal mode calls wifi_init_sta, which blocks at its line 94.       *)
EnterNormal ==
    /\ ReadFlags
    /\ ~AfterReset(Flag_quick_pair) /\ ~AfterReset(Flag_compatible_pair)
    /\ main' = "waiting"
    /\ handlers' = {"sta"}
    /\ station' = "idle" /\ events' = Append(events, "START")
    /\ UNCHANGED <<reset, state, config, using, drops, bit, leased, session,
                   serving, past, counts>>

(* The wait consumes the bit (pdTRUE) and mqtt_app_start follows.          *)
WaitEnds ==
    /\ main = "waiting" /\ bit
    /\ bit' = FALSE
    /\ main' = "running" /\ session' = "down"
    /\ UNCHANGED <<flags, reset, state, config, radio, events, handlers,
                   leased, serving, past, counts>>

-----------------------------------------------------------------------------
(* The event loop: an event goes to every registered handler.              *)

(* esp_wifi_connect takes the stored configuration; it does nothing while  *)
(* an attempt or a link exists, and fails when no network is stored.       *)
Connects == station = "idle" /\ config # "none"

Connect(asked) ==
    IF asked /\ Connects
    THEN station' = "trying" /\ using' = config
    ELSE UNCHANGED <<station, using>>

ConnectedBit(e) == bit \/ (e = "GOT_IP" /\ "sta" \in handlers)

(* Mutant: a lost link is not joined again.                                *)
ReconnectsAtStart(e) == e = "START" /\ "sta" \in handlers

Reconnects(e) ==
    \/ e = "START" /\ "sta" \in handlers
    \/ e = "DISCONNECTED"

(* Mutant: smartconfig_task is started in every mode.                      *)
StartsSmartconfigAlways(e) == e = "START"

StartsSmartconfig(e) == e = "START" /\ "sc" \in handlers

StateAfter(e) ==
    CASE "sta" \in handlers /\ e = "DISCONNECTED" -> "WIFI_DISCONNECTED"
      [] "sta" \in handlers /\ e = "CONNECTED" -> "LOCAL_MODE"
      [] OTHER -> state

(* Both handlers reconnect on a loss; only the station's connects at the   *)
(* start, where the other one starts smartconfig_task instead.             *)
HandleEvent ==
    /\ events # <<>>
    /\ LET e == Head(events) IN
       /\ Connect(handlers # {} /\ Reconnects(e))
       /\ state' = StateAfter(e)
       /\ bit' = ConnectedBit(e)
       /\ sc' = IF StartsSmartconfig(e) THEN "listening" ELSE sc
    /\ events' = Tail(events)
    /\ UNCHANGED <<flags, reset, main, config, drops, handlers, leased,
                   session, httpd, posted, posts, ap, past, counts>>

-----------------------------------------------------------------------------
(* The radio and the network (external).                                   *)

Post(e) == Len(events) < 4 /\ events' = Append(events, e)

RadioStep ==
    UNCHANGED <<flags, reset, main, state, config, handlers, bit, session,
                serving, past, counts>>

(* An attempt takes longer than the calls between esp_wifi_set_mode and    *)
(* esp_wifi_set_config in a POST /wi.                                      *)
Associate ==
    /\ station = "trying" /\ using = "good" /\ httpd # "wi_mode"
    /\ station' = "linked" /\ Post("CONNECTED")
    /\ UNCHANGED <<using, drops, leased>> /\ RadioStep

Refuse ==
    /\ station = "trying" /\ httpd # "wi_mode"
    /\ IF using = "bad" THEN UNCHANGED drops
       ELSE drops < MaxDrops /\ drops' = drops + 1
    /\ station' = "idle" /\ Post("DISCONNECTED")
    /\ UNCHANGED <<using, leased>> /\ RadioStep

Lease ==
    /\ station = "linked"
    /\ station' = "up" /\ leased' = TRUE /\ Post("GOT_IP")
    /\ UNCHANGED <<using, drops>> /\ RadioStep

LoseLink ==
    /\ station \in {"linked", "up"} /\ drops < MaxDrops
    /\ station' = "idle" /\ drops' = drops + 1 /\ Post("DISCONNECTED")
    /\ UNCHANGED <<using, leased>> /\ RadioStep

-----------------------------------------------------------------------------
(* The MQTT client's events (mqtt_event_handler runs in the client's task). *)

SessionStep ==
    UNCHANGED <<flags, reset, main, config, radio, events, handlers, bit,
                leased, serving, past, counts>>

SessionUp ==
    /\ session = "down" /\ station = "up"
    /\ session' = "up" /\ state' = "NORMAL"
    /\ SessionStep

(* Mutant: the end of a session leaves STATE as it was.                    *)
DownStateKept(s) == s

DownState(s) == "LOCAL_MODE"

(* A session that ends, or an attempt to open one that fails.              *)
SessionDown ==
    /\ session # "off"
    /\ session' = "down" /\ state' = DownState(state)
    /\ SessionStep

(* The "restart" command.                                                  *)
RestartCommand ==
    /\ session = "up"
    /\ Reboot
    /\ UNCHANGED <<flags, presses>>

-----------------------------------------------------------------------------
(* Pairing.                                                                *)

(* SC_EVENT_GOT_SSID_PSWD: store the credentials and connect.              *)
GotCredentials ==
    /\ sc = "listening"
    /\ \E c \in {"good", "bad"} : config' = c /\ using' = c
    /\ station' = "trying" /\ sc' = "got"
    /\ UNCHANGED <<flags, reset, main, state, drops, events, handlers, bit,
                   leased, session, httpd, posted, posts, ap, past,
                   counts>>

(* SC_EVENT_SEND_ACK_DONE: the task starts the HTTP server and ends.       *)
AckSent ==
    /\ sc = "got" /\ station = "up"
    /\ sc' = "done" /\ start_webserver
    /\ UNCHANGED <<flags, reset, main, state, config, radio, events,
                   handlers, bit, leased, session, posted, posts, ap,
                   past, counts>>

(* The server is free, and a phone reaches it: through the gateway's own   *)
(* access point or through the network it has joined.                      *)
Requested == httpd = "idle" /\ (ap \/ station = "up")

(* AP_POST_handler up to esp_wifi_set_mode: leave the network, make a new  *)
(* event group, register the handler, switch station and access point on.  *)
PostWi ==
    /\ Requested /\ posts < MaxPosts
    /\ \E c \in {"good", "bad"} : posted' = c
    /\ posts' = posts + 1
    /\ httpd' = "wi_mode" /\ ap' = TRUE
    /\ bit' = FALSE
    /\ handlers' = handlers \cup {"sta"}
    /\ station' = "idle"
    /\ CASE station = "off" -> Post("START")
         [] station = "idle" -> UNCHANGED events
         [] OTHER -> Post("DISCONNECTED")
    /\ UNCHANGED <<flags, reset, main, state, config, using, drops, leased,
                   session, sc, past, counts>>

(* esp_wifi_set_config; then the handler blocks in the wait.               *)
PostWiConfig ==
    /\ httpd = "wi_mode"
    /\ config' = posted /\ httpd' = "wi_wait"
    /\ UNCHANGED <<flags, reset, main, state, radio, events, handlers, bit,
                   leased, session, posted, posts, sc, ap, past, counts>>

(* The driver may refuse a configuration while it connects, and then       *)
(* ESP_ERROR_CHECK aborts.                                                 *)
PostWiAborts ==
    /\ httpd = "wi_mode" /\ station = "trying"
    /\ Reboot
    /\ UNCHANGED <<flags, presses>>

PostWiAnswer ==
    /\ httpd = "wi_wait" /\ bit
    /\ bit' = FALSE /\ httpd' = "idle"
    /\ UNCHANGED <<flags, reset, main, state, config, radio, events,
                   handlers, leased, session, posted, posts, sc, ap,
                   past, counts>>

(* POST_handler: save the device's identity, answer, clear the flags.      *)
PostAp ==
    /\ Requested
    /\ httpd' = "ap_done"
    /\ Flag_quick_pair' = FALSE /\ Flag_compatible_pair' = FALSE
    /\ inited' = TRUE
    /\ UNCHANGED <<reset, main, state, config, radio, events, handlers, bit,
                   leased, session, posted, posts, sc, ap, past, counts>>

(* ... and restart two seconds later.                                      *)
PostApRestart ==
    /\ httpd = "ap_done"
    /\ Reboot
    /\ UNCHANGED <<flags, presses>>

(* GET /restart restarts nothing.  If its answer could not be sent, the     *)
(* gateway's access point is closed, and the station started in its place. *)
GetRestart ==
    /\ Requested
    /\ ap' = FALSE
    /\ IF station = "off" THEN station' = "idle" /\ Post("START")
                          ELSE UNCHANGED <<station, events>>
    /\ UNCHANGED <<flags, reset, main, state, config, using, drops, handlers,
                   bit, leased, session, httpd, posted, posts, sc, past,
                   counts>>

-----------------------------------------------------------------------------
(* The button and the power.                                               *)

(* Mutant: five presses in compatible pairing leave pairing.               *)
QuickAfterPressCycle == ~Flag_quick_pair /\ ~Flag_compatible_pair

(* Lines 113-124: quick pairing unless it was chosen already, compatible   *)
(* pairing in its place then; nothing if both flags are set.               *)
QuickAfterPress == ~Flag_quick_pair \/ Flag_compatible_pair

(* Mutant: the other flag is not reset.                                    *)
CompatibleAfterPressKept == Flag_quick_pair \/ Flag_compatible_pair

CompatibleAfterPress == Flag_quick_pair

(* button_task is created before app_main clears the flags: presses count  *)
(* during the boot too.                                                    *)
FivePresses ==
    /\ presses < MaxPresses
    /\ presses' = presses + 1
    /\ Flag_quick_pair' = QuickAfterPress
    /\ Flag_compatible_pair' = CompatibleAfterPress
    /\ UNCHANGED inited
    /\ Reboot

(* RAM that is not initialised holds anything afterwards; a brownout does  *)
(* not make app_main clear it.                                             *)
PowerLoss ==
    /\ losses < MaxPowerLosses
    /\ losses' = losses + 1
    /\ \E why \in {"poweron", "brownout"} : BootAfter(why)
    /\ Flag_quick_pair' \in BOOLEAN /\ Flag_compatible_pair' \in BOOLEAN
    /\ inited' = FALSE
    /\ was' = "none" /\ answered' = FALSE
    /\ UNCHANGED <<config, drops, posts, presses>>

(* led_status_task: how the status LED shows STATE, from its next period   *)
(* of about a second on.                                                   *)
Lamp == [UNKNOW |-> "dark", NORMAL |-> "steady",
         WIFI_DISCONNECTED |-> "one flash", LOCAL_MODE |-> "two flashes",
         QUICK_MODE |-> "fast", COMPATIBLE_MODE |-> "slow"][state]

Next ==
    \/ EnterQuick \/ EnterCompatible \/ EnterNormal \/ WaitEnds
    \/ HandleEvent
    \/ Associate \/ Refuse \/ Lease \/ LoseLink
    \/ SessionUp \/ SessionDown \/ RestartCommand
    \/ GotCredentials \/ AckSent
    \/ PostWi \/ PostWiConfig \/ PostWiAborts \/ PostWiAnswer
    \/ PostAp \/ PostApRestart \/ GetRestart
    \/ FivePresses \/ PowerLoss

Spec == Init /\ [][Next]_vars

(* The tasks are scheduled by priority and block when idle, so each gets   *)
(* its turn; the radio settles each attempt; a reachable broker accepts.   *)
Fairness ==
    /\ WF_vars(EnterNormal) /\ WF_vars(WaitEnds) /\ WF_vars(HandleEvent)
    /\ WF_vars(Associate \/ Refuse) /\ WF_vars(Lease) /\ WF_vars(SessionUp)

FairSpec == Spec /\ Fairness

-----------------------------------------------------------------------------
(* The mode app_main will choose by the flags.                             *)
Chosen ==
    IF Flag_quick_pair THEN "quick"
    ELSE IF Flag_compatible_pair THEN "compat" ELSE "waiting"

(* Once the firmware itself has written the flags, five presses in a mode  *)
(* always lead to another one: quick pairing from the normal mode and from *)
(* compatible pairing, compatible pairing from quick pairing (Button.c     *)
(* 111-127 with main.c 108-126).  It takes several presses and restarts to *)
(* reach the flags that would make the button dead.  Excepted are presses  *)
(* between the flags' clearing by an answered POST /ap and its restart     *)
(* (WebServer.c 263-267).                                                  *)
PressSwitchesMode ==
    [][presses' # presses /\ inited /\ main \in Modes /\ httpd # "ap_done"
       => Chosen' = IF main = "quick" THEN "compat" ELSE "quick"]_vars

(* A gateway in a pairing mode comes back in normal mode only once a POST  *)
(* /ap was answered (WebServer.c 263) or the power was lost: no press,     *)
(* abort or refused request makes it forget that it is being paired.       *)
PairingKept == main \in {"waiting", "running"} /\ was \in Pairing => answered

(* wifi_init_sta returns to its callers, app_main and POST /wi, only once  *)
(* the station has had an address since boot (WiFi_proc.c 26-28, 59, 94),  *)
(* whatever links were lost and groups replaced in between.                *)
AddressBehindTheBit == bit \/ main = "running" => leased

(* STATE is NORMAL only during an MQTT session (mqtt.c 71, 79), although   *)
(* the event loop assigns it too: uart.c 83-105 publishes by it.           *)
NormalMeansSession == state = "NORMAL" => session = "up"

(* Once the event loop has caught up, the LED does not show a missing      *)
(* Wi-Fi while the station is linked (WiFi_proc.c 46, 53; led.c 67).       *)
DownShownTruly ==
    Lamp = "one flash" /\ events = <<>> => station \notin {"linked", "up"}

(* What the handlers of three tasks write without a lock for others to act *)
(* on is true, in whatever order links, addresses and sessions come and go.*)
SignalsTrue == AddressBehindTheBit /\ NormalMeansSession /\ DownShownTruly

(* With the right network stored, the normal mode ends in an MQTT session, *)
(* although links are lost on the way (WiFi_proc.c 45), unless it is       *)
(* restarted first.                                                        *)
GoodConfigConnects ==
    main = "waiting" /\ config = "good" ~> session = "up" \/ main = "boot"

(* WiFi_proc.c 92-93: the wait lasts "until either the connection is       *)
(* established (WIFI_CONNECTED_BIT) or connection failed for the maximum   *)
(* number of re-tries (WIFI_FAIL_BIT)".                                    *)
ConnectionAttemptEnds == main = "waiting" ~> main # "waiting"
=============================================================================
