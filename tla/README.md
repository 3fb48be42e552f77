# Verification of the VHT gateway firmware

The firmware in `src/VhomeBridge/main` runs on an ESP32-C3 and bridges BLE mesh and Zigbee
devices to an MQTT broker over Wi-Fi. It is a single-core FreeRTOS program: some ten tasks and
the callbacks of the vendor's stacks share global variables, queues and one UART. This
directory holds TLA+ models of its parts, TLC runs that check them on small instances, and
TLAPS proofs of the main properties for all sizes. Paths below are relative to
`src/VhomeBridge/main`.

## 1. Inventory

| Component | Files | State it keeps | Operations | Talks to |
|---|---|---|---|---|
| BLE mesh provisioning | `BLE/ble_mesh.c` 29-45, 138-706 | `provision_status`, `global_node`, statics `i j k temp wait_*` of the configuration callback | open/close window, advertisement, provisioning complete, configuration statuses, timeouts | mesh stack (callbacks in its task), MQTT client, `queueGetStateOnoffBLE` |
| BLE on-off commands | `BLE/ble_mesh.c` 779-906, 1078-1280 | static message and parameters, `stateButtonBLE` | set, get, reset node, status, publish, timeout with retry | called from `mqtt_handle`, `sendCommandBLE` and the stack's task |
| BLE sensors, vendor model | `BLE/ble_mesh.c` 707-777, 908-1047, 1327-1353 | `sensor_prop_id` | format and publish | MQTT client |
| Zigbee upgrade | `Zigbee/fota.c`, `controller.c` | file, buffer, `packetno`, position | download, XMODEM upload, reset, restart | HTTP, UART, `xmodem_ack` |
| Zigbee receiver | `Zigbee/uart.c` | line buffer, `xmodem_ack` | split lines, publish reports, feed linked buttons | UART, MQTT client (only if `STATE` is `NORMAL`), `queueIdButton` |
| Linked buttons | `linkNode/` | map of links, three command queues | look up, fan out, send by UART or mesh, parse a new table | UART, BLE commands, MQTT, file `link_node` |
| MQTT | `Mqtt/mqtt.c` | client, ring buffer, `STATE` | session events, command dispatch | every other component |
| Boot and modes | `main.c` | `Flag_quick_pair`, `Flag_compatible_pair` (kept over a restart), `STATE` | choose the mode, start the tasks | all |
| Wi-Fi | `WiFi/WiFi_proc.c` | event group, `STATE` | wait for an address, reconnect | event loop; callers `app_main`, POST /wi |
| Pairing | `Pair/` | event group, HTTP server, access point | SmartConfig, access point, GET /device, GET /restart, POST /wi, POST /ap | Wi-Fi, flags, file `deviceinfor` |
| Button | `Button/Button.c` | debouncer, press count, flags | five presses switch the pairing mode and restart | event queue |
| Firmware OTA | `OTA/fota.c` | a task per command, the update partition | copy the address, download, check, restart | HTTP, `mqtt_handle`'s `command_set` |
| Files, JSON | `SPIFFS/`, `jsonUser/`, `linkNode/json_parser` | SPIFFS files | write, read first line | boot, pairing, MQTT |
| LED | `LED/led.c` | - | blink by `STATE` | - |
| WebSocket server | `webSocket/` | client table, mutex, queue | add, read, send, remove | not started by this firmware |
| Manager | `manager/` | - | stub | - |

What is hard here, and what would make each part correct:

* **Provisioning** is a chain of requests, each sent by the callback of the previous answer,
  with one set of static variables for all nodes. Messages get lost, late or repeated, sends
  may be refused, the gateway may restart. A device must be announced only after each of
  its models was bound or refused, once, with data that is its own; the chain must not stop while the network works;
  the scan of the model table must stay inside it.
* **On-off commands** are built in static variables by tasks of different priority; what is
  sent must be what was commanded, and a repetition must repeat the same command.
* **The upgrade** spins on a flag another task sets; a block must wait for the
  acknowledgement of the previous one, the image must arrive complete and in order, and the
  task must end.
* **Modes and network**: the flags live in uninitialised memory over restarts, `STATE` is
  written by three tasks without a lock, event groups are replaced while events are queued,
  and a wait has no timeout. The button must always lead to another mode, pairing must not be
  forgotten, `STATE` must tell the truth, and good credentials must lead to a session.
* **Linked buttons**: bounded queues between tasks, a map replaced under its reader, loops of
  reports and commands. No command may be lost or go to a wrong device, and the traffic of one
  press must die out.
* **Commands** go through a ring buffer into one variable; an upgrade task is handed a pointer
  into it. A command must be executed as it was sent, with nothing of the one before it, and an
  upgrade must load what its own command named.
* **The button** bounces, and its presses are counted with a 32-bit time. Each press must count
  once, five quick ones must restart the gateway, and nothing else may.
* **A table of links** comes as JSON, from MQTT or from a file that a restart may have cut. It
  must be read as it was meant or not at all.
* **The WebSocket server** shares a client table, a queue and reused memory between tasks. What
  arrives must be read, whole and once.
* **Files**: power may fail between truncation and write.

`PROJECT.json` lists these hazards with their lines and the properties that cover them.

## 2. Plan

Done, in this order, most important behaviour first:

1. `BleProvision` with `BleProvision_proofs`.
2. `XmodemUpload` (abstract), `Xmodem`, `Xmodem_proofs`.
3. `Connectivity` with `Connectivity_proofs`.
4. `LinkButton` (queues, tasks, both radios) with `LinkButton_proofs`.
5. `HashMap` and `LinkTable` with `LinkTable_proofs` for both.
6. `LinkJson`: jsmn, the cursor of `json_parser.c` and `json_parsing`, below `LinkTable`, with
   `LinkJson_proofs`; `JsonTable`: how a table is written and what is promised of its reading.
7. `BleOnOff`, and `Commands` on top of it, with `Commands_proofs` for both: command sending step
   by step with the statics, the state query after joining, the ring buffer, the dispatch and the
   firmware upgrade.
8. `Button` (debouncer and press counter with its 32-bit time), proved in `Connectivity_proofs`.
9. `WsServer` with `WsServer_proofs`.

The liveness properties and `TableRead`, which compares two recursive walks over the same value,
stay with TLC.

Composition: `LinkTable` is built on `HashMap`, and the table it promises is the constant `Targets`
of `LinkButton`. `LinkJson` shows what `LinkTable` takes for granted: a text stands for its table, a
half of one is refused. `Commands` extends `BleOnOff`; the command that is one step in `LinkButton` is
four in `BleOnOff`. `Button` shows when the action `FivePresses` of `Connectivity` happens; `Xmodem`
implements `XmodemUpload`.

## 3. Modules

### BleProvision (provisioning)

All callbacks of the mesh stack run in its one task, so a callback is one action. Variables
have the names of the code: `unicast_addr`, `MAC`, `element_num`, `models` are the fields of
`global_node` (a model is a record of its id and company, the two arrays of the code), `i`,
`j`, `k`, `temp` and `wait` the static variables of `ble_mesh_config_client_cb`. The mesh
stack is external: `link` and `prov` are its tables, `pending` its one outstanding
configuration request per node. `requests` and `answers` are messages on the air, which may be
lost (`Lose`), late (`Timeout` while the message is under way, at most `maxLate` times) or
repeated by a retry. A status that answers the outstanding request is an event of the
callback; any other one is a `PUBLISH` event, which the code ignores.

| Action | Code |
|---|---|
| `BleOpen`, `BleClose`, `Restart` | `mqtt.c` 140, 149, 154 |
| `RecvUnprovAdv` | 214-266 |
| `ProvComplete` | 170-212 |
| `OnCompositionStatus` (with `ParsedTable`) | 464-486, 390-436 |
| `OnAppKeyStatus` | 531-548 |
| `OnBindMismatch`, `OnBindNextModel`, `OnBindNextElement`, `OnBindLast` | 549-646 |
| `OnSubStatus` | 493-530 |
| `Timeout` | 658-699 |

Sending may be refused (`SendMayFail`): then nothing is outstanding and the chain stands, as in
the code. A device may refuse what it is asked (`Refusing`): the key, a bind (each one, without the
key) or a subscription. The callback reads the status of no answer (531, 549-552, 495), so the chain
goes on; `bound` and `refused` say what became of each model on the device. What the
gateway meets is the variable `env`, one of the constant `Environments`, chosen at the start and
never changed: the wall switches, the devices that refuse, whether sending may fail, the bounds on
restarts and late timeouts, and `OneAtATime`: a device appears only when no link or request is open.
With it `FALSE` chains overlap.

### XmodemUpload and Xmodem (Zigbee upgrade)

`XmodemUpload` says what an upload is: blocks in order, without gaps, committed only when
complete. `Xmodem` has the task `zigbee_fota_task` with a location per step (`pc`), the
receiving task's `UartRead`, the wires, and the bootloader (external: expected packet number,
ACK for the expected packet and for a repeated one, NAK otherwise). The spin
`while(!xmodem_ack)` is `SeeAck`; the flag is read anew on each turn because the build uses
`-Og`. A packet is its header, number and position in the file: the content is the file's, and
the position is what the properties tell apart. Both tasks have the same clamped priority and
are time-sliced, so every step interleaves. Leaving the task function (`return` at 90 and 96)
restarts the chip like `END` does, because FreeRTOS aborts on it in this configuration.

### Connectivity (boot, pairing, Wi-Fi, session, button)

`main` says where `app_main` is and with it the mode; `station` is the radio, `events` the
default event loop's queue with both possible handlers (`handlers`), `bit` the
`WIFI_CONNECTED_BIT` of the current event group, `session` the MQTT client, `sc` the SmartConfig
task and `httpd` the HTTP server's request in progress. `config` is in flash, the two flags in
memory that a restart keeps and a power loss turns to garbage. `state` is the firmware's `STATE`
(a reserved word in TLA+). History variables (`inited`, `leased`, `was`, `answered`) are read by
the properties only.

| Action | Code |
|---|---|
| `EnterQuick`, `EnterCompatible`, `EnterNormal` | `main.c` 108-153, `SmartConfig.c` 114, `AP.c` 43 |
| `WaitEnds` | `WiFi_proc.c` 94-112 and `mqtt_app_start` |
| `HandleEvent` | `WiFi_proc.c` 36-66, `SmartConfig.c` 61-71 |
| `SessionUp`, `SessionDown`, `RestartCommand` | `mqtt.c` 70, 78, 154 |
| `GotCredentials`, `AckSent` | `SmartConfig.c` 75-112, 129-148 |
| `PostWi`, `PostWiConfig`, `PostWiAborts`, `PostWiAnswer` | `WebServer.c` 276-362, `WiFi_proc.c` 68-98 |
| `PostAp`, `PostApRestart`, `GetRestart` | `WebServer.c` 204-267, 34-107 |
| `FivePresses` | `Button.c` 111-127 |
| `PowerLoss` | the flags of `main.c` 56-57 and 108 |

`Requested` says that a phone reaches the HTTP server, through the gateway's access point (`ap`) or
the network it has joined: GET /restart restarts nothing, but closes the access point if its answer
could not be sent (the test of line 99 is taken as it stands). `Lamp` is what the LED shows of
`STATE`.

External: `Associate`, `Refuse`, `Lease`, `LoseLink`. The driver's refusal of a configuration
while it connects is an outcome that may or may not happen (`PostWiAborts`, `PostWiConfig`).

### LinkButton (linked buttons)

A press or a switched Zigbee device sends a report; `uart_rx_task` or the mesh callback puts it
into `queueIdButton`; `sendIdButton` takes the members of its link out of the table and deals
them out to the two command queues; a task per radio sends. `tokens` is the local string that
`strtok` walks over, `value` the `command_set.value` that `uart_rx_task` never clears,
`stateButtonBLE` the variable of `ble_mesh.c`, `pending` the mesh stack's outstanding command
per destination. `wanted` and `lost` are history.

The repetition of a command that timed out runs in the Bluetooth task, and `sendCommandBLE`, of
higher priority, overtakes it between any two steps of `ble_mesh_command_set`: `repeat` is where the
repetition is and what its message will hold, `Overtaken` what a call in between puts there instead.
The repetition then goes to the other button, or carries the newer value; `lost` records it
(`Spoilt`). The overtaking call is one step, because nothing has a higher priority; the call of
`mqtt_handle` is one, because it is made when nothing else is under way (otherwise see `BleOnOff`).
While the Bluetooth task repeats, no answer gets to it (`TaskFree`). What is posted to that task is
taken up at once.

A button is an `Endpoint`. The code sends a command to the last character of an id (`linkButton.c`
152, 169), so the module is about endpoints of one digit.

| Action | Code |
|---|---|
| `ZigbeeReport` | `uart.c` 72-93 |
| `BleStatus`, `BlePublish`, `Timeout` | `ble_mesh.c` 830, 856, 877 |
| `RepeatValue`, `RepeatFill`, `RepeatSend` | `ble_mesh.c` 885, 1202-1242 |
| `MqttOnOff`, `MqttLink` | `mqtt.c` 156-176 |
| `LookUp`, `TakeToken`, `Deal` | `linkButton.c` 109-137 |
| `SendCommandZigbee`, `SendCommandBLE` | `linkButton.c` 143-175 |

External: `Press`, `Execute`, `LoseCommand`, `LoseStatus`. `OtherReport` is a report that is not
about the button: the code takes any attribute for one. The Zigbee network repeats what it loses
by itself, so only mesh messages are lost.

### HashMap and LinkTable (the table of links)

`HashMap` has the operators of `map.c`. A chain is a set of nodes: `WellFormed` says that a key
has one node, so its order decides nothing. `room` is the number of bytes of value a node was
allocated with, and a value is set with its size in bytes (`VSize`: the names of the other buttons of
the link, each with a blank, and a zero), as `map_set_` gets it. The
mask `hash & (nbuckets - 1)` is the remainder because `nbuckets` is a power of two, which
`MapsInBounds` checks. `map_remove_` and `map_deinit_` are never called.

`LinkTable` follows one table from the MQTT command through the file, `json_parsing` and the
word-by-word copy of the map, and from the file at boot. `pc` is where `app_main`, then
`mqtt_handle`, is; `item` the text being parsed, `at` the loop counters `i` and `j`, `new` the
local map, `todo` the words still to be copied. A text is the table it stands for; its elements
have all three fields (what happens otherwise is in `LinkJson`). A torn file makes the
parser fail, or, when it is empty and what the uninitialised buffer holds is accepted, yields no
links. A whole text fails, too, if there is no memory for its tokens (`ParseNoMemory`) or jsmn, which
is strict, refuses what cJSON took (`ParseRefused`, `Strict`): `json_parsing` logs it and goes on with
a null pointer. When a value is written over a shorter one, memory behind it is overwritten: `pc` may then
be `"wild"`, from where only a restart is modelled.

| Action | Code |
|---|---|
| `BootWithoutFile`, `BootWithFile`, `BootWithTornFile` | `main.c` 87-94, `spiffs_user.c` 37-60 |
| `BootPanics` | `json_parser.c` 103-107, 370-391 under `linkButton.c` 52-61 |
| `Command`, `CommandNotSaved` | `mqtt.c` 196, `spiffs_user.c` 15-26 |
| `CloseFile`, `CloseFails` | `spiffs_user.c` 28-34 |
| `StartParse`, `ParseStart`, `ParseRefused`, `ParseNoMemory` | `linkButton.c` 47-56, `json_parser.c` 370-391 |
| `ParseButton`, `LeaveLink`, `ParseEnd` | `linkButton.c` 56-107 |
| `CopyWord` | `mqtt.c` 197 |
| `Restart` | power, `Button.c`, `WebServer.c`, `mqtt.c` 154 |

### LinkJson (the text of a table)

A text is a sequence of symbols (brackets, colon, comma, blank, strings, primitives). `Init` has
the texts of the commanded tables (`Written`, a constant), those of a file cut at any symbol or within
a string (`TornAt`), and what an uninitialised buffer may hold (`Junk`). In the proofs `Written` gives
any text and `Junk` is any set of texts; in the run `Written` is `TextOf` of `JsonTable`, over JSON values.
`jsmn_parse` goes over the text once to count and once to fill `tokens` (`super` is `toksuper`,
`PrimitiveEnd`, `up` and `Mismatch` its scans), each symbol an action. `json_parsing` then
walks with the cursor `cur`; `Part` is what `json_skip_elem` finds, `Up` what the leave functions
do. `pc = "panic"` is a null pointer followed, `"wild"` memory that is not the parser's. Places
count from 1, and 0 stands for -1 and NULL.

| Action | Code |
|---|---|
| `OpenBracket`, `CloseBracket`, `ParseString`, `ParsePrimitive`, `Colon`, `Comma`, `Blank`, `Refuse` | `jsmn.h` 106-453 |
| `Allocate`, `Parsed` | `json_parser.c` 370-391 |
| `EnterTable`, `EnterLink`, `ReadButton`, `ReadOther`, `SetButton`, `LeaveLink`, `LeaveTable` | `linkButton.c` 47-107 with `json_parser.c` 103-319 |

### BleOnOff and Commands (on-off commands, dispatch, firmware upgrade)

`BleOnOff` has `ble_mesh_command_set` in the steps between which a task may be overtaken: keep the
value, fill the message, fill the parameters, send. `call` says where each of its three callers
is, `Runs` that on this one core no task of higher priority is ready. The Bluetooth task runs the
callbacks too, so while one of them waits (`joining`) or sends, nothing is delivered: `TaskFree`.
`btc` is its queue of requests, `pending` the stack's outstanding ones, `stack` and `bound` what
`ble_init` has got done. History: `shown`, `astray`.

`Commands` extends it with `mqtt_handle`: `ring` is the ring buffer, an item of it a command and
whether its length is still whole; `command_set` the one variable all commands are parsed into;
`at` where the task is. `upgrade` are the tasks `esp_ota_task`, `update` the image each part of the
update partition is of, `boot` the partition to be booted. A created upgrade task has a higher
priority than `mqtt_handle` and runs first until it has copied the address (`Scheduled`); from then
on it waits for the network, and everything may interleave.

| Action | Code |
|---|---|
| `Start`, `Restart`, `BleInit`, `BleDeinit`, `AppKeyAdded` | `ble_mesh.c` 297-378, 1078-1163, `main.c` 61-131 |
| `KeepValue`, `FillMessage`, `FillParameters`, `SendMessage` | `ble_mesh.c` 1165-1242 |
| `StartAsking`, `AskState`, `ShowState` | `ble_mesh.c` 598-612, 1244-1272 |
| `TakeRequest`, `SetAnswered`, `GetAnswered`, `TimedOut` | `ble_mesh.c` 806-906 |
| `ReportElsewhere`, `LinkCommand` | `linkButton.c` 109-175 |
| `Arrive` | `mqtt.c` 93-103 |
| `Receive`, `ReceiveCrashes`, `ReceiveEmpty`, `ReceiveDerailed`, `Return` | `mqtt.c` 113-126, 199-203, `json_user.c` 31-71 |
| `ExecuteUpgrade`, `ExecuteZigbeeUpgrade`, `ExecuteBleReset`, `ExecuteRadio`, `ExecuteRestart`, `ExecuteLock`, `SendLock`, `ExecuteOnOffBle`, `ExecuteOnOffZigbee`, `PassOn`, `ExecuteOther` | `mqtt.c` 126-198 |
| `ReadAddress`, `Begin`, `Perform`, `Finish`, `RestartInto` | `OTA/fota.c` 51-139 |

External: the ring buffer of ESP-IDF, where an item follows the length of the item before, rounded
up to four bytes: the zero written behind a command may fall into the next item's length
(`Terminate`). The length is then zero for commands below 256 bytes; longer ones are treated alike.
The boot loader falls back to the running image if the other is not whole. Addresses are 16 bits
(`MaxAddress`): what a command or an element adds to one is cut off there. Left out: transaction
numbers, the text of node addresses (`mParseHex`), strings longer than the fields of `command_set`,
the bit that a reset node is taken out of the mesh's table of nodes. A device may join any number of
times, before and after a reset: each time it is asked for its state.

### Button

Time counts the passes of the debouncer, 10 ms each, and a pass may be late. `Sample` reads the pin
and decides by `MASK` (`Oldest` and `Newest` samples of the `history`); `TakeDown` is `button_task`
with the press count and its 32-bit `capture` (`Quick`). `Press` and `Release` are the hand, after
which the pin may read as anything for `Bounce` samples. `button_task` has the highest priority, so
it takes an event before the next pass. History: `near`, `far`, `owed`. A bounce is not longer than
the newest samples of `MASK`: a longer one could be taken for a press and its release.

| Action | Code |
|---|---|
| `Sample` (with `Pass`) | `Button.c` 28-94 |
| `TakeDown`, `TakeOther` | `Button.c` 96-131 |

### WsServer

The server's three tasks, the TCP/IP task that queues an event per segment, and the callers of
the sending and removing functions. A frame is a sequence of units, and a segment any run of units,
so frames are split and joined. What lwIP hands on together after segments came out of order is a
chain of pbufs, of which `ws_read` reads the first (166, 215): `Arrive` keeps the units of that one,
and the rest is deleted. There may be no memory for a frame (`RecvNoMemory`). `clients` is the table, `mutex` its lock, `queue` the event queue,
`net` the connections, whose memory is used again. `server` is where `ws_server_task` is: between
two pieces of a frame it waits with the mutex held. No code calls `websocket_start` in this
firmware; the module takes the component as it would run. A header or a request split over two
segments, the masking of the payload and the restart after a failed malloc that is not checked (242,
246, 259) are left out. `ws_server_remove_clients` removes, and
`ws_server_len_url` counts, the clients of the other addresses, because `strcmp` is not 0 for
those; the model does the same, while `websocket_server.h` 52 says the clients connected to it.

| Action | Code |
|---|---|
| `Accept`, `ServeOther`, `ServeWebsocket`, `Answer`, `AddClient` | `websocketAPP.c` 25-202, `websocket_server.c` 127-200 |
| `Arrive`, `ClientCloses` (with `background_callback`) | `websocket_server.c` 15-23 |
| `TakeEvent`, `SkipUnknown`, `SkipRead`, `StartRead`, `RecvFrame`, `RecvNoMemory`, `RecvFails`, `RecvPiece`, `RecvLastPiece`, `RecvTooMuch`, `PieceFails` | `websocket_server.c` 25-98, `websocket.c` 144-279 |
| `SendClient`, `SendClients`, `SendAll`, `ws_server_ping`, the removals, `Stop` | `websocket_server.c` 121-422, `websocket.c` 9-142 |

## 4. Runs

| Run | Question | Bounds and why they are enough | Result |
|---|---|---|---|
| `ble` | is what is announced true, does the scan of a row stay in the table, is every provisioned device announced | two devices whose tables differ in both dimensions, with equal ids in two elements and in a SIG and a vendor model, so each comparison of line 550-552 is needed; three environments (`MCEnvironments`): added one after the other, one of them refusing, with refused sends, 1 late timeout and 1 restart; added at the same time, with refused sends, so that either composition is parsed into the table while the other's binds are outstanding; added one after the other with losses without limit and refusals only, because each of the other causes stops a chain in the code | holds |
| `xmodem` | is the upload in order, complete, and does it end | packets of 2 bytes, buffers of 2 packets, numbers modulo 3 (so they wrap), images up to 9 bytes (three buffers, all remainders), 2 upgrades, 1 disturbance | holds |
| `connectivity` | modes, `STATE`, the wait, the session | 4 presses (two rounds of the modes and a press during the boot), 2 lost links, 1 power loss (garbage flags), 2 POST /wi | holds |
| `link_one` | do linked buttons follow a press or an MQTT command, with losses and repetitions | a link of one Zigbee and two BLE buttons, so that the repetition to the one is overtaken by the command to the other; 1 press and 1 command, one after the other, 1 late timeout, queues of 2 | holds |
| `link_race` | do the ends of a link agree after overlapping presses | a Zigbee and the only BLE button linked, a Zigbee one alone, 3 presses, queues of 2; more buttons and presses are left to the theorem `LinksAgree` | holds |
| `link_table` | are the links in force those last commanded | 4 buttons with colliding hashes and names of different lengths, tables that need 0, 1, 2 and 4 buckets, have a button twice in a link and in two links (with values of as many buttons but not as many bytes), are on several lines, or are refused by jsmn; 2 commands (a table replaces another), 1 restart, 1 failure of flash or memory | holds |
| `link_json` | is a table read as it was meant, is half of one refused, do the tokens of any text hold together | all tables of up to two links of up to two elements of 6 kinds (fields in any order, missing, too long, of another type, nested values with the same names, no object at all), longer links, 2 tables cut at every symbol and in every string, all texts of up to 4 symbols and of 5 punctuation marks; a buffer for 2 other buttons | holds |
| `commands` | is what was commanded what is executed, sent and loaded | 2 BLE devices of 1 and 2 buttons, a command of each kind and one with a field that is no string, 3 things that happen from outside, 2 starts, a ring buffer of 2, 2 upgrade tasks, images of 2 parts: two commands in the buffer with a third behind, an overtaken and an overtaking sender, two upgrades at a time | holds |
| `button` | does each press count once | 6 samples instead of 16 with 2 oldest and newest, 2 bouncing, 3 presses instead of 5, passes late by up to one, a clock that wraps at 36 and runs to 54, so presses fall before, over and after the wrap | holds |
| `websocket` | is what arrives read, and told to the callback whole and once | 2 connections for 1 place, 2 frames (a text in three units, a first part of a message, a close), a queue of 2, 1 call by another task, 4 of these 5 things in a behaviour: the second client waits, memory is used again, a frame is cut, chained, or finds no memory | holds |
| `joined_state` | is what is published after joining the device's state (comment at `ble_mesh.c` 598) | 2 devices of 1 and 2 buttons, no commands, 3 things that happen, 1 start | violated: it is an answer of the device that joined before |
| `wifi_retries` | does the wait end (comment at `WiFi_proc.c` 92-93) | one set of refused credentials | violated: `WIFI_FAIL_BIT` is never set |

Deadlock is checked in `ble`. It is not in the others, which stop when upgrades,
presses, commands, clients or time are used up, or in `connectivity`, where a gateway without a
stored network idles then.

Properties, in short:

* `CursorInBounds`: the scan for `0xffff` finds it inside the row, even when another node's
  table was parsed in the middle.
* `AnnouncedConfigured`, `AnnouncementAccurate`, `AnnouncedOnce`: each model of an announced device
  is bound to the key, or the device itself has refused that bind: no loss, repetition or late answer
  makes the chain skip one. A device is described by its own data, and appears once. They are claims
  about devices added one after the other; with overlapping chains the fields of `global_node` mix.
  That a device which refuses is announced all the same is what the code does: it reads no status.
* `StopAndWait`, `CommitComplete`, `UploadRefined`, `UploadEnds`: see the module. `UploadEnds`
  and `CommitComplete` name the cases the code does not survive: a disturbed wire or a swallowed
  acknowledgement (the task spins for ever), a flash error (a short image is committed).
* `PressSwitchesMode`, `PairingKept`: the flags' protocol over presses, requests, restarts and
  power losses.
* `SignalsTrue`, of `AddressBehindTheBit`, `NormalMeansSession`, `DownShownTruly`: what the bit and
  `STATE` mean.
  The converse of `NormalMeansSession` does not hold: after a short loss of Wi-Fi that the
  session survives, `STATE` stays `LOCAL_MODE` and `uart.c` drops device reports.
* `GoodConfigConnects`: the normal mode reaches a session.
* `LinkedFollow`, `SwitchedAsWanted`, `PressSettles`: a press or command reaches the whole link,
  never switches a button back, and its traffic dies out, although every Zigbee button it switches
  reports again. The link is not reached if the repetition to one of its buttons was overtaken by the
  command to another: it is then sent to that one, and nobody repeats the first. They are claims about one press at a time: with overlapping ones the repetition of
  a BLE command carries another link's value, two BLE buttons may end differently, and two Zigbee
  buttons may switch each other for ever.
* `LinkedAgree`: with overlapping presses too the ends of a link agree once the traffic has died out,
  if one of all the buttons is BLE, because commands and reports of a device stay in order. With two
  BLE buttons, in different links, they may not: the repetition of the one's lost command carries
  what `stateButtonBLE` was set to for the other. A late answer taken for the answer to a
  repetition, a repetition overtaken by a newer command, a command refused because another is
  outstanding, and a full queue are excluded: the code does not recover from them.
* `LinksInForce`: relates what `map_get_` returns to the table last commanded, over restarts,
  replacement, collisions and growth. `MapsInBounds`: the counts that make the mask right, and that
  a value outgrows its room, in bytes, only for a table with a button in two links.
* `LookupDuringCopy`: what `sendIdButton` may find between two words of the copy. The index is
  claimed to lie in the array only if both maps have the same size: it does not otherwise.
* `PanicExplained`: a command or a boot fails for no other cause than those named: the file was spoilt
  by a restart or the flash, the table has several lines or jsmn refuses it, or there was no memory
  for the tokens. Only one-line texts that
  `fgets` takes whole are read back; a text of more than 1023 characters does not fit the MQTT client's buffer.
* `TokensNested`: the two passes of jsmn agree for any text, and sizes and places of the tokens are
  what the cursor walks by. `TornRefused`: half of a table is refused, wherever it was cut.
  `TableRead`: a table is read as it was meant, up to the first link with something odd in it.
* `CommandsKept`: commands are executed in order, once, with nothing of the one before, unless the
  zero behind one fell into the next. `UpgradeAsAsked`: an upgrade loads what its own command named,
  although it is told by pointer, and what is booted is one whole image unless two upgrades wrote at
  a time. `SentAsGiven`: only a sender overtaken in the middle sends another's message, never one of
  `sendCommandBLE`. `JoinedState`, what the comment at `ble_mesh.c` 598 says, is violated: the
  callback that waits for the answer holds up the task that would deliver it, so that what is
  published as the state of a device that has joined is an answer to an earlier question. A device
  that joins a second time may be given its own old state.
* `Debounced`, `PressesRestart`: a press gives one event however it bounces; five quick ones restart the
  gateway, until the clock outgrows 32 bits of milliseconds, when nothing does any more.
* `MessagesDelivered`, `DataIsRead`: one-frame messages reach the callback whole, once and in order;
  what arrived is read unless its event was lost or the task stopped. Excused are segments with
  parts of two frames, chains and pieces later than the timeout, which the code misreads, and frames
  for which there was no memory.

### Fairness

* BLE: a timeout of the stack fires (weak fairness). A request or answer that is sent again and
  again gets through (strong fairness per node: the radio loses messages, not all of them).
  Nothing is assumed of operators or of the devices' appearance.
* XMODEM: tasks of equal priority are time-sliced by the 1 kHz tick, the bootloader handles a
  packet that arrived, the server delivers, and the last lines of the task restart the gateway
  (all weak). No fairness for noise, polls or restarts in the middle.
* Connectivity: the event loop, `app_main` and the client block only on what they wait for
  (weak), the radio settles an attempt, the DHCP server and the broker answer. Losses of the
  link are bounded by `MaxDrops`; a refusal with bad credentials is not.
* WebSocket: `ws_server_task` and `server_handle_task` go on when they can (weak); their waits for a
  segment have a timeout. Nothing is assumed of the clients and the other callers.
* Linked buttons: each task goes on (weak), a timeout of the stack fires (weak), and of messages
  that are sent again and again one gets through, per device (strong).

## 5. Proofs

All theorems hold for every value of the constants that satisfies the named assumptions. Those that
say more than that a size is positive or a set has the right members:

* `NameAssumption` (table of links): the names of buttons have lengths, and the size of a value is a
  number. The second follows from the first, by an induction over the link that the prover cannot do.
* `CompositionAssumption` (provisioner): a device fits the table and has a model in each element.
  The code checks neither.
* `DeviceAssumption`, `CommandAssumption` (commands): devices have different addresses of 16 bits,
  and a command has no field but those of `command_set`, a number in `nodeId` and a byte in
  `endpoint`.
* `BounceAssumption`, `NeededAssumption` (button): see `Button` above; more than one press is
  needed, five in the code.
* `LinkAssumption` (linked buttons): no button is linked to itself, and all of a link to each other.
* `CutAssumption` (text of a table): of a text that a cut is claimed to be noticed in, some bracket is
  open behind each symbol but the last, and a primitive is followed by a comma, a blank or a closing
  bracket. So is the text of any JSON object; TLC evaluates it on the tables of the run.

Each proof has one lemma per action and combines them by temporal reasoning in the theorem. What the
invariants add to the properties, because these are not inductive:

* `BleProvision_proofs`: `TypeCorrect` and `CursorSafe`, for overlapping chains. That `j + 1` is a
  row follows from the comparison with `element_num`, and that the scan ends from the terminators,
  so the invariant adds that every row in use holds one at or behind the cursor, also after another
  table was parsed over it. `AnnouncedIsConfigured`, `AnnouncedAccurately`, `AnnouncedAtMostOnce`:
  at most one chain is alive, the table is then its node's, every model before the cursor is bound on the
  device or was refused by it, and an outstanding bind is the cursor's. No assumption is made on
  which devices refuse.
* `Xmodem_proofs`: `TypeCorrect`, `NeverRunsAhead`, `CommitsAreComplete`, `UploadImplemented`.
  `FileInv` and `BufferInv` relate position, buffer and the bytes still to send, `AckInv` says that
  a raised flag or an ACK on its way belongs to the one block sent last, `BootInv` relates the
  bootloader's position and number to the task's. In the refinement each action of `Xmodem` is a
  step of `XmodemUpload` or a stutter under the mapping.
* `Connectivity_proofs`: `TypeCorrect`, `PairingIsKept`, `SignalsAreTrue`, `PressesSwitchMode`.
  `ModeInv`: nothing runs before a mode is entered. `QuickInv`: quick pairing starts its task with
  the first event and its server after it, so a flag is not cleared by a request of another boot.
  `FlagInv`: what the flags and the reason of the reset say of the mode they were left in.
  `RadioInv`: a link that is up and a `STATE` that says otherwise means that the news is still in
  the queue of the event loop, and no `DISCONNECTED` behind it.
* `LinkButton_proofs`: `TypeCorrect`, with the lengths of the queues. `SwitchesAreWanted`: with one
  press at a time everything on its way, in reports, queues, commands and the shared
  `stateButtonBLE` and the message of a repetition, carries one value (`Carried`), whatever the mesh
  loses and repeats and whoever is overtaken. `LinksFollow`: a button that is not yet as wanted has
  something coming (`Follows`), of which a repetition in progress is a kind. `LinksAgree`, for overlapping
  presses: the report that left `queueIdButton` last decides what its link comes to (`LinkOk`): every
  other button has that value or is on the way to it, or has reported another since. The newest
  report of a Zigbee button is its state (`NewestInv`), because it reports every change; a BLE
  button does not report what it is commanded, so `Sourced` and `Overtaken` say that a Zigbee button
  stands behind its last command or has something on the way that overrides it. `held` is a BLE
  button's outstanding command, or the one that is being repeated to it, and `RepeatInv` says that of
  the latter nothing is on the air.
* `LinkTable_proofs`: `MapSetUpdates` says that `map_set_` updates the map as a function, for any
  hash and any number of buckets; `MapSetCounts` that it keeps the number of nodes and a number of
  buckets that is a power of two and not less, and when a value outgrows its node. From these follow
  `TypeCorrect`, `LinksAreInForce`, `LookupIsSafe`, `PanicsAreExplained`, `MapsStayInBounds`. The
  local map holds what the table has before the place of the loop (`ParseInv`), during the copy a
  word is the old one while it is in `todo` and the new one after (`CopyInv`), and the file follows
  the last command unless flash failed or a restart tore it (`FileInv`). A node is as long as the
  rest of the link it was first set for (`RoomInv`), so a longer value is from another link with the
  same button. `PanicsAreExplained` has the causes of a failed parse as steps of their own, at the
  command and at the boot.
* `Commands_proofs`: `Invariant`, `TypeCorrect`, `CommandsAreKept`, `UpgradesAreAsAsked`,
  `LinksAreSentAsGiven`. `SharedInv`: whose address and value the statics hold at each place of each
  caller who was not overtaken. `RingInv`: the ring buffer against the commands it accepted. `OtaInv`: a created
  upgrade task and `command_set` name the same address, which holds because the task overtakes
  `mqtt_handle`; and the update partition has one image unless two tasks wrote at a time.
* `Connectivity_proofs`, second part (of `Button`): `ButtonTypeCorrect` (its types are proved only,
  the run checks what they serve), `EventsAreTrue`, `QuickPressesRestart`. `HistoryInv`: until a
  change is noticed the oldest samples are those from before it, and from then on all samples are
  as the hand is. `TimeInv`: a press is noticed between `New` and `MaxLate * Settled` after it, so
  noticing changes the distance of two presses by `Slack` at most; `CountInv`: `press_count`
  therefore lies between `near` and `far` as long as the clock fits into 32 bits.
* `LinkJson_proofs`: `TypeCorrect`, `TokensAreNested`, `TornIsRefused`, for texts of any length and
  depth. `TokensInv`: the tokens are a forest numbered in preorder (`Forest`), and a token's size
  is the number of its parts (`Sized`). This is what a new token keeps only because its parent is
  one of the tokens that enclose the end of the text read so far, the root's `0` included
  (`Reaches`, `SuperInv`). The walk then needs `SkipIsLast`: by induction down from the last token,
  `json_skip_elem` of a token leads to the last one within it (`IsLast`). Therefore the places it
  finds are the parts of a value (`PartsFound`), and a cursor moved down by a search or up by a
  leave function stays on a token (`WalkInv`). `CountInv`: the first pass counts the places where a
  token starts before its own place, and the second has filled one for each of them, so that it has
  room for those it has not reached. `TornInv`: as long as the second pass goes on, no fewer tokens
  are open than brackets (`Unclosed`, `Depth`), so at the end of a cut text one is open, or it
  ended within a string (`EndsOpen`), and `Parsed` or `Refuse` gives up.
* `WsServer_proofs`: `TypeCorrect`, `MessagesAreDelivered`. `LockInv`: who holds the mutex, and that
  the connection being read or added stays what it is. `AcceptInv`: the connections in the queue are
  accepted, each once, and nothing is sent on one that is not open. `UnitInv`: what is under way is
  the end of the frames that were sent, in order. `Delivery`, for a connection with no excuse: for some k, the callback was told the
  messages among the first k frames of a client, and what was read of the next one, what has arrived
  and what is under way follow each other without a gap up to the last frame sent. Only this says
  where the next header is when a frame comes in several segments.

Only model-checked: the liveness properties (`ProvisionedIsAnnounced`, `UploadEnds`,
`GoodConfigConnects`, `PressSettles`, `DataIsRead`: the prover does not do fairness or `ENABLED`),
the two violations, and `TableRead`. That one says that writing a JSON value and reading it back
give the same, whatever the value's shape: an induction over values on both sides, of which `TextOf` is
a RECURSIVE operator, and both are beyond the prover. What it rests on is proved: the tokens are
nested, and the parts found are those of the value.

## 6. Not modelled

The identity file (written and read by the functions of `LinkTable`'s file), the splitting of UART
lines and what is only published from them, the requests' parsing and GET /device, the two vendor
messages after an announcement, and the message that switches the group of a wall switch on
(`ble_mesh.c` 503-515) with the lamps that obey it. Endpoints of two digits, a hazard of their own. Left out for good: the sensor callbacks (formatting), the signal
lamp, the manager (a stub) and vendored or generated code that `main` does not use. A lost group
subscription of a wall switch is not sent again (`ble_mesh.c` 617, 658); `BleProvision` has it, no
property speaks of it. Two upgrades of the Zigbee chip at once share all their memory; the model
assumes one, and the hazard is listed.
