---------------------------- MODULE MCLinkTable -----------------------------
(* Four buttons: two with the same hash, a third in the same bucket of two *)
(* but not of four.  The tables grow the map to 0, 1, 2 and 4 buckets, have *)
(* a button in two links (longer last, shorter last, as many buttons but    *)
(* longer names last) and in one link twice.  jsmn refuses the text of one. *)
EXTENDS LinkTable, TLC

CONSTANTS a, b, c, d

MCHash == (a :> 1) @@ (b :> 1) @@ (c :> 3) @@ (d :> 2)

Pairs == <<<<a, b>>, <<c, d>>>>
Three == <<<<b, c, a>>>>
LongerLast == <<<<a, b>>, <<a, c, d>>>>
ShorterLast == <<<<c, b, d>>, <<>>, <<c, a>>>>
SameNumber == <<<<a, c>>, <<b, a>>>>
Twice == <<<<a, d, a>>>>
Single == <<<<b>>>>
Loose == <<<<d>>>>

MCTables == {Pairs, Three, LongerLast, ShorterLast, SameNumber, Twice, Single,
             Loose, <<>>}
MCOneLine == MCTables \ {Single}
MCStrict == MCTables \ {Loose}

MCNameLength == (a :> 2) @@ (b :> 2) @@ (c :> 1) @@ (d :> 1)
=============================================================================
