------------------------------ MODULE LinkJson ------------------------------
(***************************************************************************)
(* json_parsing: the text of a link table becomes the calls of map_set_    *)
(* that LinkTable makes.  jsmn goes over the text twice: once to count the *)
(* tokens, once to fill them; then json_parsing walks over the tokens with *)
(* a cursor that the functions of json_parser.c move down and up.          *)
(*                                                                         *)
(* A text is a sequence of symbols: "object", "array" and "object_end",    *)
(* "array_end", the brackets; "colon", "comma", "blank"; a string (one of  *)
(* Name); a primitive "1"; "open", a string the text ends in; and "bad", a *)
(* character or an escape that jsmn refuses.                               *)
(* Places and token numbers start at 1; 0 stands for -1 and NULL.          *)
(*                                                                         *)
(* Texts come from MQTT, where cJSON has accepted them, from a file, which *)
(* a restart may have cut, and, for an empty file, from an uninitialised   *)
(* buffer: these may be anything.                                          *)
(***************************************************************************)
EXTENDS Integers, Sequences, FiniteSetsExt

CONSTANTS
  Name,       \* strings
  LongName,   \* those that fit into none of json_parsing's buffers
  Tables,     \* the JSON values that are commanded
  Written(_), \* the text of a JSON value
  Cut,        \* those that are also found in a file that was cut
  Junk,       \* texts found in an uninitialised buffer
  ValueRoom   \* buttons that value[256] has room for

Opening == {"object", "array"}
Closing == {"object_end", "array_end"}
Delimiter == {"blank", "comma", "array_end", "object_end"}   \* what ends a primitive
Char == Name \cup Opening \cup Delimiter \cup {"colon", "1", "open", "bad"}

ASSUME NameAssumption ==
  /\ {"link", "node_id", "protocol", "endpoint"} \subseteq Name /\ LongName \subseteq Name
  /\ Name \cap (Opening \cup Delimiter \cup {"colon", "1", "open", "bad"}) = {}
ASSUME RoomAssumption == ValueRoom \in Nat
ASSUME TextAssumption ==
  Cut \subseteq Tables /\ Junk \subseteq Seq(Char) /\ \A v \in Tables : Written(v) \in Seq(Char)

\* Brackets that are open behind the n-th symbol.
Depth(t, n) ==
  Cardinality({q \in 1 .. n : t[q] \in Opening})
    - Cardinality({q \in 1 .. n : t[q] \in Closing})

\* The text of an object: its first bracket is closed by its last one, and a
\* primitive is followed by what ends it.
ASSUME CutAssumption ==
  \A v \in Cut : \A n \in 1 .. Len(Written(v)) - 1 :
    /\ Depth(Written(v), n) > 0
    /\ Written(v)[n] = "1" => Written(v)[n + 1] \in Delimiter

\* What is left if the n-th symbol is not written, or not to its end.
TornAt(t, n) ==
  {SubSeq(t, 1, n - 1)} \cup
  {SubSeq(t, 1, n - 1) \o <<"open">> : m \in {m \in {n} : t[m] \in Name}}

-----------------------------------------------------------------------------
VARIABLES
  text,
  source,    \* history: "whole", "torn" or "junk"
  table,     \* history: the value whose text it is, or was
  pc,        \* "count", "fill", "start", "links", "link", "others", "end",
             \* "panic" (a null pointer is followed), "wild" (other memory is)
  pos,       \* parser->pos
  count,
  tokens,    \* the tokens in use: toknext is their number
  num,       \* num_tokens
  super,     \* toksuper
  error,     \* what jsmn_parse returns if it is not a number
  cur,       \* jctx->cur
  links,     \* num_elem_obj_arr
  buttons,   \* num_elem_arr
  i, j, k,
  node,      \* node_id, protocol, endpoint
  key, value,
  sets       \* the calls of map_set_

parser == <<pos, count, tokens, num, super, error>>
walk == <<cur, links, buttons, i, j, k, node, key, value, sets>>
input == <<text, source, table>>
vars == <<input, pc, parser, walk>>

Field == {"node_id", "protocol", "endpoint"}

Init ==
  /\ \/ /\ source = "whole" /\ table \in Tables /\ text = Written(table)
     \/ /\ source = "torn" /\ table \in Cut
        /\ \E n \in 1 .. Len(Written(table)) : text \in TornAt(Written(table), n)
     \/ /\ source = "junk" /\ table = <<>> /\ text \in Junk
  /\ pc = "count" /\ pos = 1 /\ count = 0
  /\ tokens = <<>> /\ num = 0 /\ super = 0 /\ error = "none"
  /\ cur = 0 /\ links = 0 /\ buttons = 0 /\ i = 0 /\ j = 0 /\ k = 0
  /\ node = [f \in Field |-> "uninitialised"]
  /\ key = node /\ value = <<>> /\ sets = <<>>

-----------------------------------------------------------------------------
(* jsmn_parse, strict and with parent links *)

Parsing == pc \in {"count", "fill"} /\ pos <= Len(text)
Filling == pc = "fill"
Symbol == text[pos]

IsOpen(t) == tokens[t].type \in {"object", "array"} /\ tokens[t].end = 0

\* A primitive ends before a blank, a comma or a closing bracket; until then
\* it takes in everything.
PrimitiveEnd ==
  Min({q \in pos .. Len(text) : text[q] \in Delimiter} \cup {Len(text) + 1})

TakesToken == Symbol \in Name \cup Opening \cup {"1"}

\* Where the loop of a closing bracket stops: at the last open token of the
\* chain of parents, or at its root.
up[t \in DOMAIN tokens] ==
  IF IsOpen(t) \/ tokens[t].parent = 0 THEN t ELSE up[tokens[t].parent]

ClosedBy == up[Len(tokens)]

Kind == IF Symbol = "object_end" THEN "object" ELSE "array"

Mismatch ==
  tokens # <<>> =>
    tokens[ClosedBy].type # Kind \/ (~IsOpen(ClosedBy) /\ super = 0)

Invalid ==
  \/ Symbol = "bad"
  \/ Filling /\ Symbol \in Opening /\ super # 0 /\ tokens[super].type = "object"
  \/ Filling /\ Symbol \in Closing /\ Mismatch
  \/ Filling /\ Symbol = "1" /\ super # 0
       /\ (tokens[super].type = "object" \/ (tokens[super].type = "str" /\ tokens[super].size # 0))

Partial == Symbol = "open" \/ (Symbol = "1" /\ PrimitiveEnd > Len(text))
NoMemory == Filling /\ TakesToken /\ Len(tokens) >= num

\* json_parse_start fails, leaving the context zeroed, and json_parsing
\* follows its null pointers.
Refuse ==
  /\ Parsing /\ (Invalid \/ Partial \/ NoMemory)
  /\ error' = CASE Invalid -> "INVAL" [] Partial -> "PART" [] OTHER -> "NOMEM"
  /\ pc' = "panic"
  /\ UNCHANGED <<input, pos, count, tokens, num, super, walk>>

Accepts(symbols) ==
  Parsing /\ Symbol \in symbols /\ ~Invalid /\ ~Partial /\ ~NoMemory

Counted == IF super = 0 THEN tokens ELSE [tokens EXCEPT ![super].size = @ + 1]

NewToken(type, end) ==
  Append(Counted, [type |-> type, start |-> pos, end |-> end, size |-> 0,
                   parent |-> super])

OpenBracket ==
  /\ Accepts(Opening)
  /\ pos' = pos + 1 /\ count' = count + 1
  /\ IF Filling THEN /\ tokens' = NewToken(Symbol, 0)
                     /\ super' = Len(tokens) + 1
                ELSE UNCHANGED <<tokens, super>>
  /\ UNCHANGED <<input, pc, num, error, walk>>

CloseBracket ==
  /\ Accepts(Closing)
  /\ pos' = pos + 1
  /\ IF Filling /\ IsOpen(ClosedBy)
       THEN /\ tokens' = [tokens EXCEPT ![ClosedBy].end = pos + 1]
            /\ super' = tokens[ClosedBy].parent
       ELSE UNCHANGED <<tokens, super>>
  /\ UNCHANGED <<input, pc, count, num, error, walk>>

\* Mutant: the parent does not count the string among its parts.
ParseStringUncounted ==
  /\ Accepts(Name)
  /\ pos' = pos + 1 /\ count' = count + 1
  /\ tokens' = IF Filling
                 THEN Append(tokens, [type |-> "str", start |-> pos, end |-> pos + 1,
                                      size |-> 0, parent |-> super])
                 ELSE tokens
  /\ UNCHANGED <<input, pc, num, super, error, walk>>

ParseString ==
  /\ Accepts(Name)
  /\ pos' = pos + 1 /\ count' = count + 1
  /\ tokens' = IF Filling THEN NewToken("str", pos + 1) ELSE tokens
  /\ UNCHANGED <<input, pc, num, super, error, walk>>

ParsePrimitive ==
  /\ Accepts({"1"})
  /\ pos' = PrimitiveEnd /\ count' = count + 1
  /\ tokens' = IF Filling THEN NewToken("num", PrimitiveEnd) ELSE tokens
  /\ UNCHANGED <<input, pc, num, super, error, walk>>

\* The key becomes the parent of what follows.
Colon ==
  /\ Accepts({"colon"})
  /\ pos' = pos + 1 /\ super' = Len(tokens)
  /\ UNCHANGED <<input, pc, count, tokens, num, error, walk>>

Comma ==
  /\ Accepts({"comma"})
  /\ pos' = pos + 1
  /\ super' = IF Filling /\ super # 0 /\ tokens[super].type \notin {"object", "array"}
                THEN tokens[super].parent ELSE super
  /\ UNCHANGED <<input, pc, count, tokens, num, error, walk>>

Blank ==
  /\ Accepts({"blank"})
  /\ pos' = pos + 1
  /\ UNCHANGED <<input, pc, count, tokens, num, super, error, walk>>

\* json_parse_start: the second pass has room for what the first one counted.
Allocate ==
  /\ pc = "count" /\ pos > Len(text)
  /\ IF count > 0
       THEN pc' = "fill" /\ num' = count
       ELSE pc' = "panic" /\ UNCHANGED num
  /\ pos' = 1 /\ count' = 0 /\ super' = 0
  /\ UNCHANGED <<input, tokens, error, walk>>

\* Mutant: what is still open at the end is not looked at.
ParsedAnyhow ==
  /\ pc = "fill" /\ pos > Len(text)
  /\ pc' = "start" /\ cur' = 1
  /\ UNCHANGED <<input, parser, links, buttons, i, j, k, node, key, value, sets>>

Parsed ==
  /\ pc = "fill" /\ pos > Len(text)
  /\ IF \E t \in DOMAIN tokens : IsOpen(t)
       THEN pc' = "panic" /\ error' = "PART" /\ UNCHANGED cur
       ELSE pc' = "start" /\ cur' = 1 /\ UNCHANGED error
  /\ UNCHANGED <<input, pos, count, tokens, num, super, links, buttons, i, j, k,
                 node, key, value, sets>>

-----------------------------------------------------------------------------
(* json_parser.c: the cursor.  A search returns a token or 0, NULL. *)

\* The last tokens of the parts of the value at t, if skip[u] is the last token of
\* the value at u; the 0-th is t.
Lasts(t, skip) ==
  LET last[n \in 0 .. tokens[t].size] ==
        IF n = 0 THEN t ELSE skip[last[n - 1] + 1]
  IN last

json_skip_elem[t \in DOMAIN tokens] == Lasts(t, json_skip_elem)[tokens[t].size]

\* The n-th part of the value at t: a key of an object, an element of an array.
Part(t, n) == Lasts(t, json_skip_elem)[n - 1] + 1

KeysNamed(t, name) ==
  {n \in 1 .. tokens[t].size : text[tokens[Part(t, n)].start] = name}

json_obj_search(t, name) ==
  IF tokens[t].type = "object" /\ KeysNamed(t, name) # {}
    THEN Part(t, Min(KeysNamed(t, name))) ELSE 0

\* The key is the last token: what is behind the array is taken for its value.
ReadsBehind(t, name) == json_obj_search(t, name) = Len(tokens)

json_obj_get_val_tok(t, name, type) ==
  LET v == json_obj_search(t, name) + 1
  IN IF v > 1 /\ tokens[v].type = type THEN v ELSE 0

json_arr_get_val_tok(t, n, type) ==
  IF tokens[t].type = "array" /\ n <= tokens[t].size /\ tokens[Part(t, n)].type = type
    THEN Part(t, n) ELSE 0

\* Mutant: the root is left, too.
UpFromRoot(t) == tokens[t].parent

\* json_arr_leave_array, json_arr_leave_object: at the root nothing changes.
Up(t) == IF tokens[t].parent = 0 THEN t ELSE tokens[t].parent

-----------------------------------------------------------------------------
(* json_parsing *)

json_parse_end == pc' = "end" /\ cur' = 0 /\ tokens' = <<>>

EnterTable ==
  /\ pc = "start"
  /\ LET t == json_obj_get_val_tok(cur, "link", "array")
     IN CASE ReadsBehind(cur, "link") ->
               pc' = "wild" /\ UNCHANGED <<cur, tokens, links, i>>
          [] ~ReadsBehind(cur, "link") /\ t = 0 ->
               json_parse_end /\ UNCHANGED <<links, i>>
          [] OTHER ->
               /\ pc' = "links" /\ cur' = t /\ links' = tokens[t].size /\ i' = 1
               /\ UNCHANGED tokens
  /\ UNCHANGED <<input, pos, count, num, super, error, buttons, j, k, node, key, value, sets>>

EnterLink ==
  /\ pc = "links" /\ i <= links
  /\ LET t == json_arr_get_val_tok(cur, i, "array")
     IN IF t = 0 THEN i' = i + 1 /\ UNCHANGED <<pc, cur, buttons, j>>
        ELSE pc' = "link" /\ cur' = t /\ buttons' = tokens[t].size /\ j' = 1
             /\ UNCHANGED i
  /\ UNCHANGED <<input, parser, links, k, node, key, value, sets>>

\* A field that is missing, is not a string or is too long keeps the value of
\* the button read before.
Fields(t) ==
  [f \in Field |->
     LET s == json_obj_get_val_tok(t, f, "str")
     IN IF s = 0 \/ text[tokens[s].start] \in LongName THEN node[f]
        ELSE text[tokens[s].start]]

\* json_arr_leave_object, which is called even if no object was entered.
LeaveObject(t) == IF t = 0 THEN Up(cur) ELSE Up(t)

Behind(t) == t # 0 /\ \E f \in Field : ReadsBehind(t, f)

ReadButton ==
  /\ pc = "link" /\ j <= buttons
  /\ LET t == json_arr_get_val_tok(cur, j, "object")
     IN IF Behind(t) THEN pc' = "wild" /\ UNCHANGED <<cur, node, key>>
        ELSE /\ pc' = "others"
             /\ node' = IF t = 0 THEN node ELSE Fields(t)
             /\ key' = node'
             /\ cur' = LeaveObject(t)
  /\ value' = <<>> /\ k' = 1
  /\ UNCHANGED <<input, parser, links, buttons, i, j, sets>>

ReadOther ==
  /\ pc = "others" /\ k <= buttons
  /\ LET t == json_arr_get_val_tok(cur, k, "object")
     IN IF Behind(t) /\ k # j THEN pc' = "wild" /\ UNCHANGED <<cur, node, value>>
        ELSE /\ IF t # 0 /\ k # j
                  THEN node' = Fields(t) /\ value' = Append(value, node')
                  ELSE UNCHANGED <<node, value>>
             /\ pc' = IF Len(value') > ValueRoom THEN "wild" ELSE pc
             /\ cur' = LeaveObject(t)
  /\ k' = k + 1
  /\ UNCHANGED <<input, parser, links, buttons, i, j, key, sets>>

SetButton ==
  /\ pc = "others" /\ k > buttons
  /\ pc' = "link" /\ sets' = Append(sets, <<key, value>>) /\ j' = j + 1
  /\ UNCHANGED <<input, parser, cur, links, buttons, i, k, node, key, value>>

\* Mutant: json_arr_leave_array is not called.
LeaveLinkStays ==
  /\ pc = "link" /\ j > buttons
  /\ pc' = "links" /\ i' = i + 1
  /\ UNCHANGED <<input, parser, cur, links, buttons, j, k, node, key, value, sets>>

LeaveLink ==
  /\ pc = "link" /\ j > buttons
  /\ pc' = "links" /\ cur' = Up(cur) /\ i' = i + 1
  /\ UNCHANGED <<input, parser, links, buttons, j, k, node, key, value, sets>>

\* json_obj_leave_array moves the cursor, and json_parse_end clears it.
LeaveTable ==
  /\ pc = "links" /\ i > links
  /\ json_parse_end
  /\ UNCHANGED <<input, pos, count, num, super, error, links, buttons, i, j, k,
                 node, key, value, sets>>

jsmn_parse ==
  \/ Refuse \/ OpenBracket \/ CloseBracket \/ ParseString \/ ParsePrimitive
  \/ Colon \/ Comma \/ Blank \/ Allocate \/ Parsed

json_parsing ==
  \/ EnterTable \/ EnterLink \/ ReadButton \/ ReadOther \/ SetButton
  \/ LeaveLink \/ LeaveTable

Next == jsmn_parse \/ json_parsing

Spec == Init /\ [][Next]_vars

-----------------------------------------------------------------------------
(* Properties *)

Walking == pc \in {"start", "links", "link", "others"}

TypeOK ==
  /\ pc \in {"count", "fill", "start", "links", "link", "others", "end", "panic", "wild"}
  /\ pos \in 1 .. Len(text) + 1 /\ {count, num} \subseteq 0 .. Len(text)
  /\ pc # "end" => super \in 0 .. Len(tokens)
  /\ \A t \in DOMAIN tokens :
       /\ tokens[t].type \in {"object", "array", "str", "num"}
       /\ tokens[t].start \in 1 .. pos /\ tokens[t].end \in 0 .. pos
       /\ tokens[t].parent \in 0 .. t - 1
  /\ cur \in 0 .. Len(tokens) /\ (Walking => cur # 0)
  /\ {links, buttons} \subseteq 0 .. num
  /\ i \in 0 .. links + 1 /\ j \in 0 .. num + 1 /\ k \in 0 .. num + 1
  /\ node \in [Field -> Name \cup {"uninitialised"}]

\* Whatever the text, a text that is accepted fills exactly the tokens that the
\* first pass counted; a token's size is the number of its parts, and they lie
\* behind it without a gap, which is what json_skip_elem walks by.
Parts(t) == {u \in DOMAIN tokens : tokens[u].parent = t}

TokensNested ==
  /\ error # "NOMEM"
  /\ Walking => Len(tokens) = num
  /\ \A t \in DOMAIN tokens :
       /\ tokens[t].size = Cardinality(Parts(t))
       /\ Parts(t) = {Part(t, n) : n \in 1 .. tokens[t].size}

\* A file that was cut anywhere, between two symbols or within a string, is
\* refused: no link of it is entered.
TornRefused == source = "torn" => ~Walking /\ pc \notin {"end", "wild"}
=============================================================================
