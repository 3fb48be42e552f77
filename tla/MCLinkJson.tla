----------------------------- MODULE MCLinkJson -----------------------------
(* Buttons written in several ways, things that are not buttons, all links  *)
(* of up to two of them and some longer ones, tables of one or two links,   *)
(* all texts of up to four symbols, and of five punctuation marks and       *)
(* strings.                                                                 *)
EXTENDS JsonTable

Str(s) == <<"str", s>>
Num == <<"num">>
Arr(s) == <<"arr", s>>
Obj(s) == <<"obj", s>>

MCName == {"link", "node_id", "protocol", "endpoint", "action", "ble", "long"}

Plain == Obj(<<<<"node_id", Str("link")>>, <<"protocol", Str("ble")>>,
               <<"endpoint", Str("ble")>>>>)

\* Another order, a field too many with the same names inside.
Dressed ==
  Obj(<<<<"endpoint", Str("node_id")>>,
        <<"action", Arr(<<Obj(<<<<"node_id", Num>>>>), Num>>)>>,
        <<"protocol", Str("protocol")>>, <<"node_id", Str("action")>>>>)

Lacking == Obj(<<<<"node_id", Str("action")>>, <<"endpoint", Num>>,
                 <<"protocol", Str("long")>>>>)

Element == {Plain, Dressed, Lacking, Obj(<<>>), Num, Arr(<<Plain>>)}

Few == {Arr(<<>>), Num} \cup {Arr(<<x>>) : x \in Element}
         \cup {Arr(<<x, y>>) : x, y \in Element}
Longer == {Arr(<<Plain, x, Dressed>>) : x \in Element}
            \cup {Arr(<<Dressed, Plain, Plain, Dressed>>)}

Table(v) == Obj(<<<<"action", Str("link")>>, <<"link", v>>>>)

MCCut == {Table(Arr(<<Arr(<<Dressed, Plain>>), Arr(<<Lacking>>)>>)), Table(Num)}

MCTables ==
  {Table(Arr(<<l>>)) : l \in Few \cup Longer}
    \cup {Table(Arr(<<l, m>>)) : l, m \in Few}
    \cup {Obj(<<<<"link", Arr(<<Arr(<<Plain, Dressed>>)>>)>>, <<"action", Str("link")>>>>),
          Obj(<<<<"action", Obj(<<<<"link", Arr(<<>>)>>>>)>>>>), Arr(<<Plain>>)}
    \cup MCCut

\* A key is the last token of the text.
Ends ==
  {<<"object", "link", "colon", "array", "array">> \o t
      \o <<"array_end", "array_end", "object_end">> :
     t \in {<<"object", "node_id", "object_end">>,
            <<"object", "object_end", "object", "node_id", "object_end">>}}

Punctuation == Opening \cup Closing \cup {"colon", "comma"}

MCJunk ==
  UNION {[1 .. n -> Punctuation \cup {"blank", "1", "link", "open", "bad"}] : n \in 0 .. 4}
    \cup [1 .. 5 -> Punctuation \cup {"link"}]
    \cup Ends
=============================================================================
