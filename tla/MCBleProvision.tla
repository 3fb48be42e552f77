--------------------------- MODULE MCBleProvision ---------------------------
(* Two devices whose model tables differ in both dimensions.  Device a has  *)
(* the same model in two elements, device b a SIG and a vendor model with   *)
(* the same id, so each part of the match of a status is needed.            *)
EXTENDS BleProvision, TLC

CONSTANTS a, b

Sig(m) == [id |-> m, cid |-> EndId]
Vendor(m) == [id |-> m, cid |-> 529]

\* Unused cells of a composition hold Sig(0), which no row reaches.
Row(ms) == [c \in ColIdx |-> IF c < Len(ms) THEN ms[c + 1] ELSE Sig(0)]

Composition == (a :> <<<<Sig(0), Sig(1)>>, <<Sig(1)>>>>) @@ (b :> <<<<Sig(0), Vendor(0)>>>>)

MCElems == [n \in Node |-> Len(Composition[n])]
MCRows == [n \in Node |-> [e \in ElemIdx |->
  IF e < MCElems[n] THEN Len(Composition[n][e + 1]) ELSE 1]]
MCModelAt == [n \in Node |-> [e \in ElemIdx |->
  IF e < MCElems[n] THEN Row(Composition[n][e + 1]) ELSE Row(<<>>)]]
\* Devices added one after the other through everything that can go wrong,
\* devices whose chains overlap, and chains that nothing breaks.
MCEnvironments ==
  {[wallSwitch |-> {a}, refusing |-> {b}, oneAtATime |-> TRUE,
    sendMayFail |-> TRUE, maxRestarts |-> 1, maxLate |-> 1],
   [wallSwitch |-> {}, refusing |-> {}, oneAtATime |-> FALSE,
    sendMayFail |-> TRUE, maxRestarts |-> 0, maxLate |-> 0],
   [wallSwitch |-> {a}, refusing |-> {a, b}, oneAtATime |-> TRUE,
    sendMayFail |-> FALSE, maxRestarts |-> 0, maxLate |-> 0]}
=============================================================================
