---------------------------- MODULE MCLinkButton ----------------------------
(* A link of Zigbee and BLE buttons, a second one, and a button without one. *)
EXTENDS LinkButton, TLC

CONSTANTS z1, z2, b1, b2

Trio == (z1 :> <<b1, b2>>) @@ (b1 :> <<z1, b2>>) @@ (b2 :> <<z1, b1>>)
Pair == (z1 :> <<b1>>) @@ (b1 :> <<z1>>) @@ (z2 :> <<>>)
=============================================================================
