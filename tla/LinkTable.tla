----------------------------- MODULE LinkTable ------------------------------
(***************************************************************************)
(* The table of links.  The MQTT command linkButton saves a new table in   *)
(* the file link_node, parses it into a local map (json_parsing) and       *)
(* copies that over the global map, which sendIdButton, of higher          *)
(* priority, may read between any two words.  app_main parses the file at  *)
(* boot.  A restart may come at any time: power, the pairing button and    *)
(* the web server restart without asking.                                  *)
(*                                                                         *)
(* A table is a sequence of links, a link a sequence of buttons.  Texts    *)
(* that json_parsing cannot parse are "torn" files; readfromfile reads one *)
(* line only.  A command has passed cJSON, which accepts more than jsmn    *)
(* with JSMN_STRICT does.                                                  *)
(***************************************************************************)
EXTENDS HashMap, FiniteSetsExt

CONSTANTS
  Tables,       \* tables that are commanded
  OneLine,      \* those whose text has no line break
  Strict,       \* those whose text jsmn accepts
  NameLength,   \* bytes of a button's name
  MaxCommands, MaxRestarts, MaxFailures  \* bounds

ASSUME TableAssumption ==
  /\ Tables \subseteq Seq(Seq(Key))
  /\ OneLine \subseteq Tables /\ Strict \subseteq Tables

\* strlen(value) + 1: every name of the link but its own, each with a blank.
VSize(link, j) ==
  MapThenSumSet(LAMBDA n : NameLength[link[n]] + 1, DOMAIN link)
    - NameLength[link[j]]

\* That a size is a number follows from the lengths being numbers.
ASSUME NameAssumption ==
  /\ NameLength \in [Key -> Nat]
  /\ \A t \in Tables : \A i \in DOMAIN t : \A j \in DOMAIN t[i] :
       VSize(t[i], j) \in Nat

ASSUME BoundAssumption == {MaxCommands, MaxRestarts, MaxFailures} \subseteq Nat

VARIABLES
  pc,       \* where app_main, then mqtt_handle, is
  booting,  \* app_main parses: no other task looks
  file,     \* link_node: "absent", "torn" or "whole"
  content,  \* the table in a whole file
  item,     \* the table being parsed, or last parsed
  at,       \* json_parsing: place of the next button
  new,      \* json_parsing: map
  map,      \* the global map
  todo,     \* words of map not yet copied
  commands, restarts, failures,  \* counters of the bounded events
  last,          \* history: the table last commanded
  replaced,      \* history: the map that is being replaced
  flashFailed,   \* history: the file system has failed
  interrupted,   \* history: a restart came while the file was written
  memoryFailed   \* history: memory was short for the table in item

memory == <<booting, item, at, new, map, todo, replaced, memoryFailed>>
flash == <<file, content>>
counters == <<commands, restarts, failures>>
history == <<last, flashFailed, interrupted>>
vars == <<pc, memory, flash, counters, history>>

Word == {"buckets", "nbuckets", "nnodes"}

Init ==
  /\ pc = "boot" /\ booting = TRUE
  /\ file = "absent" /\ content = <<>>
  /\ item = <<>> /\ at = <<1, 1>> /\ new = map_init /\ map = map_init
  /\ todo = {} /\ replaced = map_init
  /\ commands = 0 /\ restarts = 0 /\ failures = 0
  /\ last = <<>>
  /\ flashFailed = FALSE /\ interrupted = FALSE
  /\ memoryFailed = FALSE

\* Mutant: the local map is not initialised.
StartParseKeepsMap(t) ==
  /\ item' = t /\ at' = <<1, 1>> /\ memoryFailed' = FALSE
  /\ UNCHANGED new

\* json_parsing is called, with a map of its own.
StartParse(t) ==
  /\ item' = t /\ at' = <<1, 1>> /\ memoryFailed' = FALSE
  /\ new' = map_init

-----------------------------------------------------------------------------
(* app_main *)

BootWithoutFile ==
  /\ pc = "boot" /\ file = "absent"
  /\ pc' = "run" /\ booting' = FALSE
  /\ UNCHANGED <<item, at, new, map, todo, replaced, memoryFailed,
                 flash, counters, history>>

BootWithFile ==
  /\ pc = "boot" /\ file = "whole" /\ content \in OneLine
  /\ StartParse(content) /\ pc' = "start"
  /\ UNCHANGED <<booting, map, todo, replaced, flash, counters,
                 history>>

\* An empty file leaves readfromfile's line uninitialised: what that holds
\* may be accepted as a text, one without links.
BootWithTornFile ==
  /\ pc = "boot" /\ file = "torn"
  /\ StartParse(<<>>) /\ pc' = "parse"
  /\ UNCHANGED <<booting, map, todo, replaced, flash, counters,
                 history>>

\* json_parse_start fails for what was read, and json_parsing follows a null
\* pointer.
BootPanics ==
  /\ pc = "boot"
  /\ file = "torn" \/ (file = "whole" /\ content \notin OneLine)
  /\ pc' = "panic"
  /\ UNCHANGED <<memory, flash, counters, history>>

Forget ==
  /\ pc' = "boot" /\ booting' = TRUE
  /\ item' = <<>> /\ at' = <<1, 1>> /\ new' = map_init /\ map' = map_init
  /\ todo' = {} /\ replaced' = map_init
  /\ memoryFailed' = FALSE

Reboot ==
  /\ pc = "panic" /\ Forget
  /\ UNCHANGED <<flash, counters, history>>

Restart ==
  /\ pc \notin {"boot", "panic"}
  /\ restarts < MaxRestarts /\ restarts' = restarts + 1
  /\ Forget
  /\ interrupted' = (interrupted \/ pc = "write")
  /\ UNCHANGED <<flash, commands, failures, last, flashFailed>>

-----------------------------------------------------------------------------
(* mqtt_handle: linkButton, with writetofile *)

\* fopen truncates the file.
Command(t) ==
  /\ pc = "run"
  /\ commands < MaxCommands /\ commands' = commands + 1
  /\ last' = t
  /\ pc' = "write" /\ item' = t /\ file' = "torn"
  /\ UNCHANGED <<booting, at, new, map, todo, replaced, memoryFailed,
                 content, restarts, failures, flashFailed, interrupted>>

\* fopen fails; the table is used all the same.
CommandNotSaved(t) ==
  /\ pc = "run"
  /\ commands < MaxCommands /\ commands' = commands + 1
  /\ failures < MaxFailures /\ failures' = failures + 1
  /\ last' = t /\ flashFailed' = TRUE
  /\ StartParse(t) /\ pc' = "start"
  /\ UNCHANGED <<booting, map, todo, replaced, flash, restarts,
                 interrupted>>

\* Mutant: the file is not closed.
CloseFileNot ==
  /\ pc = "write"
  /\ StartParse(item) /\ pc' = "start"
  /\ UNCHANGED <<booting, map, todo, replaced, flash, counters,
                 history>>

CloseFile ==
  /\ pc = "write"
  /\ file' = "whole" /\ content' = item
  /\ StartParse(item) /\ pc' = "start"
  /\ UNCHANGED <<booting, map, todo, replaced, counters, history>>

\* fputc and fclose are not checked.
CloseFails ==
  /\ pc = "write"
  /\ failures < MaxFailures /\ failures' = failures + 1
  /\ flashFailed' = TRUE
  /\ StartParse(item) /\ pc' = "start"
  /\ UNCHANGED <<booting, map, todo, replaced, flash, commands,
                 restarts, last, interrupted>>

-----------------------------------------------------------------------------
(* json_parsing *)

\* json_parse_start has memory for the tokens and jsmn accepts the text.
ParseStart ==
  /\ pc = "start" /\ item \in Strict
  /\ pc' = "parse"
  /\ UNCHANGED <<memory, flash, counters, history>>

\* jsmn refuses it.  The result is only logged: a null pointer follows.
ParseRefused ==
  /\ pc = "start" /\ item \notin Strict
  /\ pc' = "panic"
  /\ UNCHANGED <<memory, flash, counters, history>>

\* calloc fails: likewise.
ParseNoMemory ==
  /\ pc = "start"
  /\ failures < MaxFailures /\ failures' = failures + 1
  /\ pc' = "panic" /\ memoryFailed' = TRUE
  /\ UNCHANGED <<booting, item, at, new, map, todo, replaced, flash, commands,
                 restarts, history>>

Others(link, j) == SubSeq(link, 1, j - 1) \o SubSeq(link, j + 1, Len(link))

\* The links of one button go into the map.  The result is not looked at.  A
\* value that is overrun may be harmless; if it is not, all bets are off.
ParseButton ==
  /\ pc = "parse" /\ at[1] <= Len(item) /\ at[2] <= Len(item[at[1]])
  /\ LET link == item[at[1]]
         k == link[at[2]]
         v == Others(link, at[2])
         vsize == VSize(link, at[2])
     IN \E m \in Memory :
          /\ m # "enough" => failures < MaxFailures
          /\ failures' = IF m = "enough" THEN failures ELSE failures + 1
          /\ new' = MapSet(new, k, v, vsize, m)
          /\ memoryFailed' = (memoryFailed \/ SetFails(new, k, m))
          /\ pc' \in {"parse"} \cup
                      (IF Overruns(new, k, vsize) THEN {"wild"} ELSE {})
  /\ at' = <<at[1], at[2] + 1>>
  /\ UNCHANGED <<booting, item, map, todo, replaced, flash, commands, restarts,
                 history>>

LeaveLink ==
  /\ pc = "parse" /\ at[1] <= Len(item) /\ at[2] > Len(item[at[1]])
  /\ at' = <<at[1] + 1, 1>>
  /\ UNCHANGED <<pc, booting, item, new, map, todo, replaced, memoryFailed,
                 flash, counters, history>>

ParseEnd ==
  /\ pc = "parse" /\ at[1] > Len(item)
  /\ pc' = "copy" /\ todo' = Word /\ replaced' = map
  /\ UNCHANGED <<booting, item, at, new, map, memoryFailed, flash,
                 counters, history>>

\* map = json_parsing(...), in any order.  The old nodes are never freed.
CopyWord(w) ==
  /\ pc = "copy" /\ w \in todo
  /\ map' = [map EXCEPT ![w] = new[w]]
  /\ todo' = todo \ {w}
  /\ IF todo = {w} THEN pc' = "run" /\ booting' = FALSE
                   ELSE UNCHANGED <<pc, booting>>
  /\ UNCHANGED <<item, at, new, replaced, memoryFailed, flash,
                 counters, history>>

Next ==
  \/ BootWithoutFile \/ BootWithFile \/ BootWithTornFile \/ BootPanics
  \/ Reboot \/ Restart
  \/ \E t \in Tables : Command(t) \/ CommandNotSaved(t)
  \/ CloseFile \/ CloseFails
  \/ ParseStart \/ ParseRefused \/ ParseNoMemory
  \/ ParseButton \/ LeaveLink \/ ParseEnd
  \/ \E w \in Word : CopyWord(w)

Spec == Init /\ [][Next]_vars

-----------------------------------------------------------------------------
(* Properties *)

\* What json_parsing has to put into the map once it is at a place of the
\* table: the other buttons of the last link before it that has the button.
Places(t, k, p) ==
  {q \in UNION {{i} \X DOMAIN t[i] : i \in DOMAIN t} :
     /\ t[q[1]][q[2]] = k
     /\ q[1] < p[1] \/ (q[1] = p[1] /\ q[2] < p[2])}

Linked(t, k, p) ==
  {Others(t[q[1]], q[2]) : q \in
     {q \in Places(t, k, p) : \A r \in Places(t, k, p) :
        r[1] < q[1] \/ (r[1] = q[1] /\ r[2] <= q[2])}}

TheEnd(t) == <<Len(t) + 1, 1>>

TypeOK ==
  /\ pc \in {"boot", "panic", "run", "write", "start", "parse", "copy", "wild"}
  /\ file \in {"absent", "torn", "whole"}
  /\ {content, item, last} \subseteq Tables \cup {<<>>}
  /\ at \in Nat \X Nat
  /\ WellFormed(new) /\ WellFormed(replaced)
  /\ todo = {} => WellFormed(map)
  /\ todo \subseteq Word
  /\ commands \in 0 .. MaxCommands /\ restarts \in 0 .. MaxRestarts
  /\ failures \in 0 .. MaxFailures
  /\ {booting, flashFailed, interrupted, memoryFailed} \subseteq BOOLEAN

\* Whenever the gateway runs, also after restarts, a button's linked buttons
\* are those of the table last commanded: none of an older table, none of
\* another button whose hash is the same, none lost when the map grew; unless
\* flash or memory failed.  After a boot with a torn file there are none.
LinksInForce ==
  pc = "run" /\ ~flashFailed =>
    \A k \in Key :
      /\ MapGet(map, k) \subseteq Linked(last, k, TheEnd(last))
      /\ ~memoryFailed /\ file # "torn" =>
           MapGet(map, k) = Linked(last, k, TheEnd(last))

\* A lookup while the map is being replaced finds a button's old links, its
\* new ones or none, never another button's; it stays inside the array if
\* both maps have the same size.
LookupDuringCopy ==
  pc = "copy" /\ ~booting =>
    \A k \in Key :
      /\ InArray(map, k) => MapGet(map, k) \subseteq
           {x.value : x \in {x \in Nodes(replaced) \cup Nodes(new) : x.key = k}}
      /\ replaced.nbuckets = new.nbuckets => InArray(map, k)

TwoLinks(t) ==
  \E i, j \in DOMAIN t : i # j /\ \E x \in DOMAIN t[i] : \E y \in DOMAIN t[j] :
    t[i][x] = t[j][y]

\* map.c stays inside its memory: there is a bucket for each node and their
\* number suits the mask, however the map grew or failed to (map_addnode,
\* map_resize); and a value is copied over one of fewer bytes (map_set_) only
\* for a table with a button in two links, not for one that is twice in a link,
\* and never over an earlier table's value.
MapsInBounds ==
  /\ Counted(new) /\ Counted(replaced)
  /\ pc = "wild" => TwoLinks(item)

\* json_parsing stops the gateway, at a command or at a boot, only if a restart
\* or a failure of the flash has spoilt the file, the table last commanded has
\* several lines or is refused by jsmn (json_parser.c 374-388), or there was no
\* memory for its tokens.
PanicExplained ==
  pc = "panic" => \/ interrupted \/ flashFailed \/ memoryFailed
                  \/ last \notin OneLine \cap Strict
=============================================================================
