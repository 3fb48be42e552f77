---------------------------- MODULE XmodemUpload ----------------------------
(***************************************************************************)
(* What an upload of a firmware image promises, whatever carries it: the   *)
(* image reaches the other side block by block, in order and without gaps, *)
(* and is committed only when no part of it is missing.  An upload may be  *)
(* abandoned at any time; an error of the flash may shorten the image that *)
(* is still to be sent.                                                    *)
(***************************************************************************)
EXTENDS Naturals

CONSTANT BlockSize

VARIABLES
  received,  \* how far into the image the other side is
  size,      \* size of the image
  outcome    \* "idle", "running" or "committed"

uploadVars == <<received, size, outcome>>

Init == received = 0 /\ size = 0 /\ outcome = "idle"

Prepare ==
  /\ outcome = "idle"
  /\ size' \in Nat
  /\ UNCHANGED <<received, outcome>>

Start ==
  /\ outcome = "idle"
  /\ received' = 0 /\ outcome' = "running"
  /\ UNCHANGED size

Receive ==
  /\ outcome = "running" /\ received < size
  /\ received' = received + BlockSize
  /\ UNCHANGED <<size, outcome>>

Shorten ==
  /\ outcome = "running"
  /\ size' \in 0 .. size /\ size' <= received
  /\ UNCHANGED <<received, outcome>>

Commit ==
  /\ outcome = "running" /\ received >= size
  /\ outcome' = "committed"
  /\ UNCHANGED <<received, size>>

\* Given up, or over: the next image can be prepared.
Leave ==
  /\ outcome' = "idle"
  /\ size' \in Nat
  /\ UNCHANGED received

Next == Prepare \/ Start \/ Receive \/ Shorten \/ Commit \/ Leave

Spec == Init /\ [][Next]_uploadVars
=============================================================================
