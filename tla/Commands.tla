------------------------------ MODULE Commands ------------------------------
(***************************************************************************)
(* Commands from the server: the MQTT task puts each into a ring buffer,   *)
(* mqtt_handle takes them out one at a time, parses and executes them      *)
(* (Mqtt/mqtt.c, jsonUser/json_user.c), and starts an upgrade as a task of *)
(* its own (OTA/fota.c).  On-off commands go through BleOnOff.             *)
(*                                                                         *)
(* The ring buffer, the update partition and the boot loader are external. *)
(* An item of the buffer follows the item before it, its length first, at  *)
(* a multiple of four bytes.                                               *)
(***************************************************************************)
EXTENDS BleOnOff

CONSTANTS
  Messages,     \* commands the server sends: records of the fields present
  NotText,      \* value of a field that is not a string
  URL_OTA,      \* where an upgrade comes from if its command does not say
  RingCap,      \* items the ring buffer of 4096 bytes holds
  Blocks,       \* parts an image is written in
  Upgrades,     \* tasks: what an upgrade is run by
  MaxBoots      \* bound on the times the gateway starts

Text == {"action", "nodeId", "eui64", "value", "url", "protocol"}
Cleared == [action |-> "", nodeId |-> 0, eui64 |-> "", endpoint |-> 0,
            value |-> "", url |-> "", protocol |-> ""]

ASSUME CommandAssumption ==
  /\ {RingCap, Blocks} \subseteq Nat \ {0}
  /\ MaxBoots \in Nat
  /\ \A m \in Messages :
       /\ DOMAIN m \subseteq DOMAIN Cleared
       /\ "nodeId" \in DOMAIN m => m.nodeId \in Nat \cup {NotText}
       /\ "endpoint" \in DOMAIN m => m.endpoint \in 0 .. 255

VARIABLES
  running,      \* the gateway has started
  boots,        \* how often
  ring,         \* ring buffer: items neither returned nor overwritten
  taken,        \* how many of them mqtt_handle has received
  derailed,     \* the buffer's read pointer is inside an item
  command_set,  \* the command being executed, and the last one
  at,           \* where mqtt_handle is
  provision_status,
  uart,         \* line last written for the Zigbee chip
  upgrade,      \* the upgrade tasks
  update,       \* update partition: the image each block is of
  boot,         \* partition to be booted
  accepted,        \* history, since start: commands queued, not executed
  executed,        \* history: the command that command_set is of
  damaged,         \* history, since start: an item was written into
  overlapped       \* history: two upgrades wrote at the same time

input == <<ring, taken, derailed, accepted, damaged>>
ota == <<upgrade, update, boot, overlapped>>
system == <<running, boots>>
vars == <<ble, system, input, command_set, at, provision_status, uart,
          ota, executed>>

OneImage == \A b, c \in 1 .. Blocks : update[b] = update[c]

\* given: the pointer is not null; url: the task's copy; asked: history.
NoUpgrade == [pc |-> "none", given |-> FALSE, url |-> "", asked |-> "",
              written |-> 0]
NewUpgrade(a) == [pc |-> "created", given |-> a # "", url |-> "", asked |-> a,
                  written |-> 0]

-----------------------------------------------------------------------------
(* Start and restart *)

RamCleared ==
  /\ BleReset
  /\ ring' = <<>> /\ taken' = 0 /\ derailed' = FALSE
  /\ command_set' = Cleared /\ at' = "poll"
  /\ provision_status' = 0 /\ uart' = ""
  /\ upgrade' = [t \in Upgrades |-> NoUpgrade]
  /\ accepted' = <<>> /\ executed' = <<>> /\ damaged' = FALSE

Init ==
  /\ BleStart
  /\ running = FALSE /\ boots = 0
  /\ ring = <<>> /\ taken = 0 /\ derailed = FALSE
  /\ command_set = Cleared /\ at = "poll"
  /\ provision_status = 0 /\ uart = ""
  /\ upgrade = [t \in Upgrades |-> NoUpgrade]
  /\ update = [b \in 1 .. Blocks |-> "old"] /\ boot = "running"
  /\ accepted = <<>> /\ executed = <<>> /\ damaged = FALSE
  /\ overlapped = FALSE

\* esp_restart, or a panic; the image marked for booting runs from then on, if
\* it is whole, and the other partition is the one to be updated.
Restart ==
  /\ running' = FALSE /\ RamCleared
  /\ boot' = "running"
  /\ update' = IF boot = "update" /\ OneImage
               THEN [b \in 1 .. Blocks |-> "old"] ELSE update
  /\ UNCHANGED <<boots, events, history, overlapped>>

\* app_main: ble_init, then mqtt_app_start.
Start ==
  /\ ~ running /\ boots < MaxBoots
  /\ running' = TRUE /\ boots' = boots + 1
  /\ BleInit
  /\ UNCHANGED <<bound, statics, btc, pending, joining, queues, events,
                 history, input, command_set, at, provision_status, uart, ota,
                 executed>>

-----------------------------------------------------------------------------
(* From the server to the ring buffer *)

\* MQTT_EVENT_DATA: the result of xRingbufferSendFromISR is not looked at.
Arrive(m) ==
  /\ running /\ Happens
  /\ IF Len(ring) < RingCap
     THEN /\ ring' = Append(ring, [msg |-> m, whole |-> TRUE])
          /\ accepted' = Append(accepted, m)
     ELSE UNCHANGED <<ring, accepted>>
  /\ UNCHANGED <<mesh, system, taken, derailed, damaged, command_set, at,
                 provision_status, uart, ota, executed>>

-----------------------------------------------------------------------------
(* mqtt_handle *)

\* Mutant: the new task has the lowest priority.
OtaPriorityLow == 2

OtaPriority == 5

\* A task of higher priority that is ready runs first.
Scheduled ==
  /\ running /\ Runs("mqtt_handle")
  /\ OtaPriority > 3 => \A t \in Upgrades : upgrade[t].pc # "created"

\* JSON_analyze_SUB_MQTT into the cleared command_set.
JSON_analyze_SUB_MQTT(m, c) ==
  [f \in DOMAIN Cleared |-> IF f \in DOMAIN m THEN m[f] ELSE c[f]]

\* Mutant: command_set is not cleared.
ParsedOverLast(m) == JSON_analyze_SUB_MQTT(m, command_set)

Parsed(m) == JSON_analyze_SUB_MQTT(m, Cleared)

Crashes(m) == \E f \in Text \cap DOMAIN m : m[f] = NotText

\* The zero behind an item whose length is a multiple of four is the first
\* byte of the length of the next one, if that is there already.
Terminate ==
  \/ UNCHANGED ring
  \/ /\ taken + 2 \in DOMAIN ring
     /\ ring' = [ring EXCEPT ![taken + 2].whole = FALSE]

Oldest == ring[taken + 1]
Polls == Scheduled /\ at = "poll" /\ taken < Len(ring)

Receive ==
  /\ Polls /\ ~ derailed /\ Oldest.whole /\ ~ Crashes(Oldest.msg)
  /\ Terminate /\ taken' = taken + 1
  /\ damaged' = (damaged \/ ring' # ring)
  /\ command_set' = Parsed(Oldest.msg) /\ at' = "execute"
  /\ executed' = <<Head(accepted)>> /\ accepted' = Tail(accepted)
  /\ UNCHANGED <<ble, system, derailed, provision_status, uart, ota>>

\* strlen of a field that is not a string follows a null pointer.
ReceiveCrashes ==
  /\ Polls /\ ~ derailed /\ Oldest.whole /\ Crashes(Oldest.msg)
  /\ Restart

\* An item of length zero is not executed and never returned.
ReceiveEmpty ==
  /\ Polls /\ ~ derailed /\ ~ Oldest.whole
  /\ taken' = taken + 1 /\ derailed' = TRUE
  /\ UNCHANGED <<ble, system, ring, accepted, damaged, command_set, at,
                 provision_status, uart, ota, executed>>

\* The text of that item is read as a length, which the buffer asserts.
ReceiveDerailed == Polls /\ derailed /\ Restart

-----------------------------------------------------------------------------
(* Executing a command *)

Executes(action) == Scheduled /\ at = "execute" /\ command_set.action = action
Endpoint == command_set.endpoint
OnOff == IF command_set.value = "off" THEN 0 ELSE 1

ble_mesh_node_reset ==
  IF stack = "down" THEN UNCHANGED btc
                    ELSE Post("reset", command_set.nodeId % (MaxAddress + 1), 0)

mqttFrame == <<system, input, command_set, executed>>

\* The mesh is stopped and the task created, or memory is short.
ExecuteUpgrade ==
  /\ Executes("upgrade") /\ BleDeinit /\ at' = "return"
  /\ \/ UNCHANGED upgrade
     \/ \E t \in Upgrades :
          /\ upgrade[t].pc = "none"
          /\ upgrade' = [upgrade EXCEPT ![t] = NewUpgrade(command_set.url)]
  /\ UNCHANGED <<mqttFrame, statics, btc, joining, queues, events,
                 history, provision_status, uart, update, boot, overlapped>>

\* The rest of it is module Xmodem.
ExecuteZigbeeUpgrade ==
  /\ Executes("zigbee_upgrade") /\ BleDeinit /\ at' = "return"
  /\ UNCHANGED <<mqttFrame, statics, btc, joining, queues, events,
                 history, provision_status, uart, ota>>

ExecuteBleReset ==
  /\ Executes("blereset") /\ ble_mesh_node_reset /\ at' = "return"
  /\ UNCHANGED <<mqttFrame, stack, bound, statics, pending, joining,
                 queues, events, history, provision_status, uart, ota>>

Line(l) == uart' = l

ExecuteRadio ==
  /\ Scheduled /\ at = "execute" /\ at' = "return"
  /\ command_set.action \in {"bleopen", "open", "close"}
  /\ LET a == command_set.action IN
     /\ IF a = "bleopen" THEN UNCHANGED uart ELSE Line(a)
     /\ provision_status' = IF a = "open" THEN provision_status
                            ELSE IF a = "bleopen" THEN 1 ELSE 0
  /\ UNCHANGED <<mqttFrame, ble, ota>>

ExecuteRestart == Executes("restart") /\ Restart

\* An action nobody knows; a table of links is module LinkTable.
ExecuteOther ==
  /\ Scheduled /\ at = "execute" /\ at' = "return"
  /\ command_set.action \in {"", "linkButton"}
  /\ UNCHANGED <<mqttFrame, ble, provision_status, uart, ota>>

\* Building the message and sending it are two lines, a pause between them.
ExecuteLock ==
  /\ Scheduled /\ at = "execute" /\ command_set.action \in {"lock", "unlock"}
  /\ Line(command_set.action) /\ at' = "locking"
  /\ UNCHANGED <<mqttFrame, ble, provision_status, ota>>

SendLock ==
  /\ Scheduled /\ at = "locking" /\ Line("send") /\ at' = "return"
  /\ UNCHANGED <<mqttFrame, ble, provision_status, ota>>

ExecuteOnOffBle ==
  /\ Executes("on-off") /\ command_set.protocol = "ble"
  /\ Call("mqtt_handle", ElementAddr(command_set.nodeId, Endpoint), OnOff)
  /\ at' = "link"
  /\ UNCHANGED <<mqttFrame, stack, bound, stateButtonBLE, common, set_state,
                 btc, pending, joining, queues, events, history,
                 provision_status, uart, ota>>

ExecuteOnOffZigbee ==
  /\ Executes("on-off") /\ command_set.protocol # "ble"
  /\ Line("onoff") /\ at' = "link"
  /\ UNCHANGED <<mqttFrame, ble, provision_status, ota>>

\* xQueueSend waits for room for a while, then gives up.
PassOn ==
  /\ Scheduled /\ at = "link" /\ ~ Ready("mqtt_handle") /\ at' = "return"
  /\ queueIdButton' = IF Len(queueIdButton) < IdCap
                      THEN Append(queueIdButton, OnOff) ELSE queueIdButton
  /\ UNCHANGED <<mqttFrame, stack, bound, statics, btc, pending, joining, queueGetStateOnoffBLE, events, history,
                 provision_status, uart, ota>>

\* vRingbufferReturnItem
Return ==
  /\ Scheduled /\ at = "return" /\ at' = "poll"
  /\ ring' = Tail(ring) /\ taken' = taken - 1
  /\ UNCHANGED <<ble, system, derailed, accepted, damaged, command_set,
                 provision_status, uart, ota, executed>>

mqtt_handle ==
  \/ Receive \/ ReceiveCrashes \/ ReceiveEmpty \/ ReceiveDerailed
  \/ ExecuteUpgrade \/ ExecuteZigbeeUpgrade \/ ExecuteBleReset \/ ExecuteRadio
  \/ ExecuteRestart \/ ExecuteOther \/ ExecuteLock \/ SendLock
  \/ ExecuteOnOffBle \/ ExecuteOnOffZigbee \/ PassOn \/ Return

-----------------------------------------------------------------------------
(* esp_ota_task *)

otaFrame == <<ble, system, input, command_set, at, provision_status,
              uart, executed>>
Moves(t, pc) == upgrade' = [upgrade EXCEPT ![t].pc = pc]

\* The address is copied through the pointer into mqtt_handle's variable.
ReadAddress(t) ==
  /\ upgrade[t].pc = "created"
  /\ upgrade' = [upgrade EXCEPT ![t].pc = "begin",
                   ![t].url = IF upgrade[t].given THEN command_set.url
                                                  ELSE URL_OTA]
  /\ UNCHANGED <<otaFrame, update, boot, overlapped>>

Writing(t) == upgrade[t].pc \in {"loading", "booting"}

\* esp_https_ota_begin and the header; on any error the task ends.
Begin(t) ==
  /\ upgrade[t].pc = "begin"
  /\ \/ Moves(t, "loading") /\ overlapped' = (overlapped \/
                                 \E o \in Upgrades \ {t} : Writing(o))
     \/ upgrade' = [upgrade EXCEPT ![t] = NoUpgrade] /\ UNCHANGED overlapped
  /\ UNCHANGED <<otaFrame, update, boot>>

\* esp_https_ota_perform stores a part of the image, or fails.
Perform(t) ==
  /\ upgrade[t].pc = "loading" /\ upgrade[t].written < Blocks
  /\ \/ /\ upgrade' = [upgrade EXCEPT ![t].written = @ + 1]
        /\ update' = [update EXCEPT ![upgrade[t].written + 1] = upgrade[t].url]
     \/ upgrade' = [upgrade EXCEPT ![t] = NoUpgrade] /\ UNCHANGED update
  /\ UNCHANGED <<otaFrame, boot, overlapped>>

\* esp_https_ota_finish checks the image and marks it for booting.
Finish(t) ==
  /\ upgrade[t].pc = "loading" /\ upgrade[t].written = Blocks
  /\ IF OneImage THEN boot' = "update" /\ Moves(t, "booting")
     ELSE upgrade' = [upgrade EXCEPT ![t] = NoUpgrade] /\ UNCHANGED boot
  /\ UNCHANGED <<otaFrame, update, overlapped>>

RestartInto(t) == upgrade[t].pc = "booting" /\ Restart

esp_ota_task(t) ==
  \/ ReadAddress(t) \/ Begin(t) \/ Perform(t) \/ Finish(t) \/ RestartInto(t)

-----------------------------------------------------------------------------

Next ==
  \/ Start
  \/ \E m \in Messages : Arrive(m)
  \/ mqtt_handle
  \/ \E t \in Upgrades : esp_ota_task(t)
  \/ /\ running /\ BleNext
     /\ UNCHANGED <<system, input, command_set, at, provision_status, uart,
                    ota, executed>>

Spec == Init /\ [][Next]_vars

-----------------------------------------------------------------------------
(* Properties *)

TypeOK ==
  /\ BleTypeOK
  /\ {running, derailed, damaged, overlapped} \subseteq BOOLEAN
  /\ boots \in 0 .. MaxBoots /\ events \in 0 .. MaxEvents
  /\ ring \in Seq([msg : Messages, whole : BOOLEAN])
  /\ Len(ring) <= RingCap /\ taken \in 0 .. Len(ring)
  /\ at \in {"poll", "execute", "locking", "link", "return"}
  /\ at # "poll" => taken > 0
  /\ provision_status \in {0, 1}
  /\ \A t \in Upgrades : upgrade[t].written \in 0 .. Blocks
  /\ boot \in {"running", "update"}

\* The commands the ring buffer took are executed in order, each as it was
\* sent and with nothing of the one before it, each once; none is left out,
\* and none stays in the buffer when it is executed, unless the zero behind a
\* command fell into the next one.
CommandsKept ==
  /\ \A x \in DOMAIN executed : \A f \in DOMAIN Cleared :
       command_set[f] = IF f \in DOMAIN executed[x] THEN executed[x][f]
                                                   ELSE Cleared[f]
  /\ ~ damaged => Len(accepted) = Len(ring) - taken /\ taken <= 1

\* An upgrade loads what its own command named, although it is told where by
\* a pointer to a variable that the next command overwrites.  What is marked
\* for booting is one whole image, unless two upgrades wrote at a time.
UpgradeAsAsked ==
  /\ \A t \in Upgrades :
       upgrade[t].pc \in {"begin", "loading", "booting"} =>
         upgrade[t].url = IF upgrade[t].asked = "" THEN URL_OTA
                                                   ELSE upgrade[t].asked
  /\ boot = "update" /\ ~ overlapped => OneImage
=============================================================================
