------------------------------ MODULE JsonTable ------------------------------
(***************************************************************************)
(* How a table of links is written as a JSON text, and what json_parsing   *)
(* promises to make of it.                                                 *)
(*                                                                         *)
(* A JSON value is a string <<"str", s>>, a primitive <<"num">>, an array  *)
(* <<"arr", values>> or an object <<"obj", pairs of a name and a value>>.  *)
(***************************************************************************)
EXTENDS LinkJson, SequencesExt

Joined(texts) ==
  IF texts = <<>> THEN <<>>
  ELSE FoldLeft(LAMBDA t, u : t \o <<"comma">> \o u, Head(texts), Tail(texts))

RECURSIVE TextOf(_)
TextOf(v) ==
  CASE v[1] = "str" -> <<v[2]>>
    [] v[1] = "num" -> <<"1">>
    [] v[1] = "arr" ->
         <<"array">> \o Joined([n \in DOMAIN v[2] |-> TextOf(v[2][n])]) \o <<"array_end">>
    [] v[1] = "obj" ->
         <<"object">> \o Joined([n \in DOMAIN v[2] |->
                              <<v[2][n][1], "colon">> \o TextOf(v[2][n][2])])
                 \o <<"object_end">>

-----------------------------------------------------------------------------
(* Property *)

\* The value of a name in an object: the first, if there are several.
Named(v, name) ==
  LET at == {n \in DOMAIN v[2] : v[2][n][1] = name}
  IN IF v[1] # "obj" \/ at = {} THEN <<"none">> ELSE v[2][Min(at)][2]

Elements(v) == IF v[1] = "arr" THEN v[2] ELSE <<>>

Button(e) == [f \in Field |-> Named(e, f)[2]]

Complete(link) ==
  /\ Len(link) <= ValueRoom + 1
  /\ \A n \in DOMAIN link : \A f \in Field :
       Named(link[n], f)[1] = "str" /\ Named(link[n], f)[2] \notin LongName

\* The calls of map_set_ for the links up to the first that has something else
\* among its buttons.
SetsOf(link) ==
  [n \in DOMAIN link |->
     <<Button(link[n]),
       [m \in 1 .. Len(link) - 1 |-> Button(link[IF m < n THEN m ELSE m + 1])]>>]

Promised(t) ==
  LET all == Elements(Named(t, "link"))
      good == {n \in 0 .. Len(all) : \A m \in 1 .. n : Complete(Elements(all[m]))}
  IN FlattenSeq([n \in 1 .. Max(good) |-> SetsOf(Elements(all[n]))])

AllComplete(t) ==
  \A n \in DOMAIN Elements(Named(t, "link")) :
    Complete(Elements(Elements(Named(t, "link"))[n]))

HasLongLink(t) ==
  \E n \in DOMAIN Elements(Named(t, "link")) :
    Len(Elements(Elements(Named(t, "link"))[n])) > ValueRoom + 1

\* A table is read as it was meant.  However it is written -
\* fields in any order, other fields between, names that are also values - each
\* button of each link is entered with the other buttons of its link, in their
\* order; a link with something else among its buttons spoils itself and what
\* follows, not what comes before.
TableRead ==
  source = "whole" =>
    /\ pc # "panic"
    /\ pc = "end" => IsPrefix(Promised(table), sets)
    /\ pc = "end" /\ AllComplete(table) => sets = Promised(table)
    /\ pc = "wild" => HasLongLink(table)
==============================================================================
