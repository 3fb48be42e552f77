----------------------------- MODULE MCCommands -----------------------------
(* Two BLE devices, of one button and of two, and a command of each kind. *)
EXTENDS Commands, TLC

CONSTANTS ota1, ota2

Devices == (5 :> 1) @@ (6 :> 2)

OnOffBle == [action |-> "on-off", nodeId |-> 6, endpoint |-> 2,
             value |-> "off", protocol |-> "ble"]
\* Without an endpoint and a value, and with an address nobody reads.
OnOffBare == [action |-> "on-off", nodeId |-> 6, eui64 |-> "mac",
              protocol |-> "ble"]
OnOffZigbee == [action |-> "on-off", nodeId |-> 7, endpoint |-> 1,
                value |-> "on"]
UpgradeFrom == [action |-> "upgrade", url |-> "server"]
Plain == {[action |-> a] : a \in {"upgrade", "zigbee_upgrade", "bleopen",
                                  "close", "restart", "linkButton"}}
AtNode == {[action |-> a, nodeId |-> 5] : a \in {"blereset", "lock"}}
Number == [action |-> "on-off", value |-> NotText]

Every == {OnOffBle, OnOffBare, OnOffZigbee, UpgradeFrom, Number}
           \cup Plain \cup AtNode

TasksAlike == Permutations(Upgrades)
=============================================================================
