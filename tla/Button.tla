------------------------------- MODULE Button -------------------------------
(***************************************************************************)
(* The pairing button, Button.c: button_debounce_task samples the pin and  *)
(* sends an event for each press, release and long press; button_task      *)
(* counts presses and restarts the gateway in the next pairing mode.       *)
(*                                                                         *)
(* Time is counted in passes of the debouncer, 10 ms.  A pass may be late. *)
(* button_task runs at the highest priority: it takes an event before the  *)
(* next pass, and the queue never holds more than one.                     *)
(*                                                                         *)
(* A hand presses and releases the button; after each change the pin       *)
(* bounces: it may read as anything for up to Bounce samples.              *)
(***************************************************************************)
EXTENDS Integers, Sequences, FiniteSetsExt

CONSTANTS
  Bits, Old, New,  \* MASK: 16 bits, the 4 oldest, the 6 newest
  Bounce,          \* samples that a bounce lasts, 6 at most
  Long, Repeat,    \* LONG_PRESS_DURATION_MS, LONG_PRESS_REPEAT_MS
  Window,          \* 1000 ms
  Needed,          \* 5 presses
  Wrap,            \* 2^32 ms, where uint32_t starts anew
  MaxLate,         \* passes of time that one pass takes at most
  MaxTime          \* bound of the clock

ASSUME SizeAssumption ==
  {Bits, Old, New, Long, Repeat, Window, Needed, Wrap, MaxLate} \subseteq Nat \ {0}
ASSUME NeededAssumption == Needed > 1
ASSUME BounceAssumption == Bounce \in 0 .. New /\ Old + Bounce + New <= Bits
ASSUME BoundAssumption == MaxTime \in Nat \ {0}

Pressed == 0
Released == 1

VARIABLES
  clock,        \* esp_timer_get_time() / 1000, of 64 bits
  history,      \* the last samples, the oldest first
  down_time, next_long_time,
  event,        \* in the queue: "none", "DOWN", "UP" or "HELD"
  press_count, capture,
  quick, compatible,   \* Flag_quick_pair, Flag_compatible_pair
  restarted,
  hand,         \* Pressed or Released
  since,        \* samples since the hand moved, up to Settled
  last,         \* history: when the hand last pressed,
  near, far,    \* and how many presses before followed each other quickly
  owed          \* history: presses and releases without their event

debounce == <<history, down_time, next_long_time>>
counting == <<press_count, capture, quick, compatible, restarted>>
user == <<hand, since, last, near, far>>
button_vars == <<clock, debounce, event, counting, user, owed>>

\* Samples after which the bounce is over and a change has been noticed.
Settled == Bounce + New

ButtonInit ==
  /\ clock = 1
  /\ history = [n \in 1 .. Bits |-> Released]
  /\ down_time = 0 /\ next_long_time = 0
  /\ event = "none"
  /\ press_count = 0 /\ capture = 0
  /\ quick \in BOOLEAN /\ compatible \in BOOLEAN /\ ~(quick /\ compatible)
  /\ restarted = FALSE
  /\ hand = Released /\ since = Settled
  /\ last = 0 /\ near = 0 /\ far = 0
  /\ owed = [DOWN |-> 0, UP |-> 0]

-----------------------------------------------------------------------------
(* The hand *)

\* How much later one change can be noticed than another.
Slack == MaxLate * Settled - New

Follows(run, gap) ==
  IF run > 0 /\ clock - last <= gap THEN Min({run + 1, Needed}) ELSE 1

Press ==
  /\ ~restarted /\ hand = Released /\ since = Settled
  /\ hand' = Pressed /\ since' = 0 /\ last' = clock
  /\ near' = Follows(near, Window - Slack)
  /\ far' = Follows(far, Window + Slack)
  /\ owed' = [owed EXCEPT !.DOWN = @ + 1]
  /\ UNCHANGED <<clock, debounce, event, counting>>

Release ==
  /\ ~restarted /\ hand = Pressed /\ since = Settled
  /\ hand' = Released /\ since' = 0
  /\ owed' = [owed EXCEPT !.UP = @ + 1]
  /\ UNCHANGED <<clock, debounce, event, counting, last, near, far>>

-----------------------------------------------------------------------------
(* button_debounce_task *)

Oldest(h, level) == \A n \in 1 .. Old : h[n] = level
Newest(h, level) == \A n \in Bits - New + 1 .. Bits : h[n] = level

\* button_fell, button_rose, for an inverted pin
button_down(h) == Oldest(h, Released) /\ Newest(h, Pressed)

\* Mutant: only the newest samples are compared.
RoseByNewest(h) == Newest(h, Released)

button_up(h) == Oldest(h, Pressed) /\ Newest(h, Released)

All(level) == [n \in 1 .. Bits |-> level]

millis(time) == time % Wrap

\* One pass over the pin, at a time and with the samples h.
Pass(time, h) ==
  CASE button_up(h) ->
         /\ history' = All(Released) /\ down_time' = 0 /\ event' = "UP"
         /\ UNCHANGED next_long_time
    [] ~button_up(h) /\ down_time # 0 /\ millis(time) >= next_long_time ->
         /\ history' = h /\ event' = "HELD"
         /\ next_long_time' = (next_long_time + Repeat) % Wrap
         /\ UNCHANGED down_time
    [] OTHER ->
         /\ history' = IF button_down(h) THEN All(Pressed) ELSE h
         /\ IF button_down(h) /\ down_time = 0
              THEN /\ down_time' = millis(time)
                   /\ next_long_time' = (down_time' + Long) % Wrap
                   /\ event' = "DOWN"
              ELSE UNCHANGED <<down_time, next_long_time, event>>

update_button(level) == Append(Tail(history), level)

Sample ==
  /\ ~restarted /\ event = "none"
  /\ \E late \in 1 .. MaxLate, level \in {Pressed, Released} :
       /\ since < Bounce \/ level = hand
       /\ clock' = clock + late /\ clock' <= MaxTime
       /\ Pass(clock', update_button(level))
  /\ since' = Min({since + 1, Settled})
  /\ owed' = IF event' \in {"DOWN", "UP"} THEN [owed EXCEPT ![event'] = @ - 1] ELSE owed
  /\ UNCHANGED <<counting, hand, last, near, far>>

-----------------------------------------------------------------------------
(* button_task *)

TakeOther ==
  /\ event \in {"UP", "HELD"} /\ event' = "none"
  /\ UNCHANGED <<clock, debounce, counting, user, owed>>

\* Mutant: the time of the last press is not looked at.
QuickAlways == TRUE

\* The clock has 64 bits, and the sum 32.
Quick == clock <= (capture + Window) % Wrap

TakeDown ==
  /\ event = "DOWN" /\ event' = "none"
  /\ press_count' = (IF Quick THEN press_count ELSE 0) + 1
  /\ capture' = millis(clock)
  /\ restarted' = (press_count' = Needed)
  /\ IF restarted'
       THEN /\ quick' = (~quick \/ compatible)
            /\ compatible' = quick
       ELSE UNCHANGED <<quick, compatible>>
  /\ UNCHANGED <<clock, debounce, user, owed>>

ButtonNext == Press \/ Release \/ Sample \/ TakeOther \/ TakeDown

ButtonSpec == ButtonInit /\ [][ButtonNext]_button_vars

-----------------------------------------------------------------------------
(* Properties *)

ButtonTypeOK ==
  /\ clock \in 1 .. MaxTime
  /\ history \in [1 .. Bits -> {Pressed, Released}]
  /\ {down_time, next_long_time, capture} \subseteq 0 .. Wrap - 1
  /\ event \in {"none", "DOWN", "UP", "HELD"}
  /\ press_count \in 0 .. Needed
  /\ ~(quick /\ compatible)
  /\ restarted \in BOOLEAN
  /\ hand \in {Pressed, Released} /\ since \in 0 .. Settled

\* However the pin bounces, each press and each release gives one event, at the
\* latest when the pin has been stable for the newest samples of MASK, and a
\* press is never reported before the release of the last: also at the moment
\* when millis() is 0 and a button that is down counts as not down.
Debounced ==
  /\ \A e \in {"DOWN", "UP"} : owed[e] \in {0, 1}
  /\ since = Settled => owed = [DOWN |-> 0, UP |-> 0]

\* Until the clock nears 2^32 ms, five presses that follow each other within a
\* second restart the gateway, and nothing else does; how late the debouncer
\* notices a press can make a difference only near the second.  Once the clock
\* has reached 2^32 ms, 50 days, no presses restart it any more.
PressesRestart ==
  /\ restarted => far = Needed
  /\ near = Needed /\ since = Settled /\ event = "none" /\ clock + Window < Wrap
       => restarted
  /\ restarted => clock < Wrap
=============================================================================
