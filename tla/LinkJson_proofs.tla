-------------------------- MODULE LinkJson_proofs --------------------------
(***************************************************************************)
(* What holds of the reading of any text: jsmn's second pass has the room  *)
(* that the first one counted, the tokens it leaves are a tree numbered in *)
(* preorder, which is what json_skip_elem walks by, the cursor stays on a  *)
(* token, and a text that was cut is refused.                              *)
(***************************************************************************)
EXTENDS LinkJson, FiniteSetTheorems, WellFoundedInduction, TLAPS

Tokens == DOMAIN tokens
Parent(t) == tokens[t].parent

\* The tokens from t to l, and only these, are within the value at t.
IsLast(t, l) ==
  /\ l \in t .. Len(tokens)
  /\ \A u \in t + 1 .. l : Parent(u) >= t
  /\ l < Len(tokens) => Parent(l + 1) < t

\* A token belongs to one that encloses all that came since.
Preorder ==
  \A t, u \in Tokens : t < u => ~(Parent(t) < Parent(u) /\ Parent(u) < t)

Forest ==
  /\ Len(tokens) \in Nat /\ Tokens = 1 .. Len(tokens)
  /\ \A t \in Tokens : Parent(t) \in 0 .. t - 1
  /\ Preorder

Sized == \A t \in Tokens : tokens[t].size = Cardinality(Parts(t))

\* A token that the next one may be a part of.
Reaches(t) == \A u \in Tokens : ~(Parent(u) < t /\ t < u)

-----------------------------------------------------------------------------
(* Numbers *)

LEMMA Smallest ==
  ASSUME NEW S, S \subseteq Nat, S # {}
  PROVE  \E x \in S : \A y \in S : x <= y
<1>1. \E x \in S : \A y \in S : ~ (<<y, x>> \in OpToRel(<, Nat))
  BY NatLessThanWellFounded, WFMin
<1>2. \E x \in S : \A y \in S : ~ (y < x)
  BY <1>1, Zenon DEF OpToRel
<1> QED
  BY <1>2

LEMMA Largest ==
  ASSUME NEW n \in Nat, NEW S, S \subseteq 0 .. n, S # {}
  PROVE  \E x \in S : \A y \in S : y <= x
<1> DEFINE T == {n - y : y \in S}
<1>1. T \subseteq Nat /\ T # {}
  <2>1. \A y \in S : n - y \in Nat
    OBVIOUS
  <2> QED
    BY <2>1
<1>2. PICK x \in T : \A y \in T : x <= y
  <2> HIDE DEF T
  <2> QED
    BY <1>1, Smallest
<1>3. PICK z \in S : x = n - z
  BY <1>2
<1>4. ASSUME NEW y \in S
      PROVE  y <= z
  <2>1. n - z <= n - y
    BY <1>2, <1>3
  <2> QED
    BY <2>1
<1> QED
  BY <1>4

LEMMA MinIs ==
  ASSUME NEW S, S \subseteq Nat, S # {}
  PROVE  Min(S) \in S /\ \A y \in S : Min(S) <= y
<1>1. \E x \in S : \A y \in S : x <= y
  BY Smallest
<1> QED
  BY <1>1, Zenon DEF Min

\* The numbers of a set up to a bound.
LEMMA UpToIs ==
  ASSUME NEW n \in Nat, NEW S, S \subseteq 1 .. n
  PROVE  /\ IsFiniteSet(S) /\ Cardinality(S) \in Nat /\ Cardinality(S) <= n
         /\ \A T \in SUBSET S : IsFiniteSet(T) /\ Cardinality(T) <= Cardinality(S)
         /\ \A T \in SUBSET S : T # S => Cardinality(T) < Cardinality(S)
         /\ \A T \in SUBSET S : \A x \in S \ T :
              Cardinality(T \cup {x}) = Cardinality(T) + 1
<1>1. IsFiniteSet(1 .. n) /\ Cardinality(1 .. n) = n
  BY FS_Interval
<1>2. IsFiniteSet(S) /\ Cardinality(S) \in Nat /\ Cardinality(S) <= n
  BY <1>1, FS_Subset, FS_CardinalityType
<1>3. \A T \in SUBSET S : IsFiniteSet(T) /\ Cardinality(T) <= Cardinality(S)
  BY <1>2, FS_Subset
<1>4. \A T \in SUBSET S : T # S => Cardinality(T) < Cardinality(S)
  <2>1. \A T \in SUBSET S : Cardinality(T) \in Nat
    BY <1>3, FS_CardinalityType
  <2>2. \A T \in SUBSET S : T # S => Cardinality(T) # Cardinality(S)
    BY <1>2, FS_Subset
  <2> QED
    BY <1>2, <1>3, <2>1, <2>2
<1>5. \A T \in SUBSET S : \A x \in S \ T :
        Cardinality(T \cup {x}) = Cardinality(T) + 1
  BY <1>3, FS_AddElement
<1> QED
  BY <1>2, <1>3, <1>4, <1>5

-----------------------------------------------------------------------------
(* Recursive functions *)

\* What a loop that skips m times from t computes.
LEMMA LoopIs ==
  ASSUME NEW m \in Nat, NEW t, NEW skip, NEW f,
         f = CHOOSE g : g = [n \in 0 .. m |-> IF n = 0 THEN t ELSE skip[g[n - 1] + 1]]
  PROVE  f = [n \in 0 .. m |-> IF n = 0 THEN t ELSE skip[f[n - 1] + 1]]
<1> DEFINE Fits(g, l) == g = [n \in 0 .. l |-> IF n = 0 THEN t ELSE skip[g[n - 1] + 1]]
<1> DEFINE S == {l \in 0 .. m : ~ \E g : Fits(g, l)}
<1>1. \E g : Fits(g, 0)
  <2>1. Fits([n \in 0 .. 0 |-> t], 0)
    OBVIOUS
  <2> QED
    BY <2>1
<1>2. ASSUME NEW l \in Nat, NEW g, Fits(g, l)
      PROVE  \E h : Fits(h, l + 1)
  <2> DEFINE h == [n \in 0 .. l + 1 |-> IF n = l + 1 THEN skip[g[l] + 1] ELSE g[n]]
  <2>1. \A n \in 0 .. l : h[n] = g[n]
    OBVIOUS
  <2>2. \A n \in 0 .. l : g[n] = IF n = 0 THEN t ELSE skip[g[n - 1] + 1]
    BY <1>2
  <2>3. \A n \in 0 .. l + 1 : h[n] = IF n = 0 THEN t ELSE skip[h[n - 1] + 1]
    <3>1. h[l + 1] = skip[g[l] + 1]
      OBVIOUS
    <3>2. h[l + 1] = skip[h[l + 1 - 1] + 1] /\ l + 1 # 0
      BY <2>1, <3>1
    <3> HIDE DEF h
    <3>3. ASSUME NEW n \in 0 .. l
          PROVE  h[n] = IF n = 0 THEN t ELSE skip[h[n - 1] + 1]
      <4>1. n # 0 => n - 1 \in 0 .. l
        OBVIOUS
      <4> QED
        BY <2>1, <2>2, <4>1
    <3>4. \A n \in 0 .. l + 1 : n \in 0 .. l \/ n = l + 1
      OBVIOUS
    <3> QED
      BY <3>2, <3>3, <3>4
  <2>4. h = [n \in 0 .. l + 1 |-> h[n]]
    OBVIOUS
  <2> HIDE DEF h
  <2>5. h = [n \in 0 .. l + 1 |-> IF n = 0 THEN t ELSE skip[h[n - 1] + 1]]
    BY <2>3, <2>4
  <2> QED
    BY <2>5
<1>3. S = {}
  <2> SUFFICES ASSUME S # {} PROVE FALSE
    OBVIOUS
  <2>1. PICK l \in S : \A y \in S : l <= y
    <3>1. S \subseteq Nat
      OBVIOUS
    <3> HIDE DEF S
    <3> QED
      BY <3>1, Smallest
  <2>2. l \in 0 .. m /\ ~ \E g : Fits(g, l)
    OBVIOUS
  <2>3. l # 0
    BY <1>1, <2>2
  <2>4. l - 1 \in 0 .. m /\ l - 1 \notin S
    BY <2>1, <2>2, <2>3
  <2>5. PICK g : Fits(g, l - 1)
    BY <2>4
  <2>6. l - 1 \in Nat /\ l - 1 + 1 = l
    BY <2>4
  <2> HIDE DEF Fits, S
  <2>7. \E h : Fits(h, l - 1 + 1)
    BY <1>2, <2>5, <2>6
  <2> QED
    BY <2>2, <2>6, <2>7
<1>4. \E g : Fits(g, m)
  <2>1. m \in 0 .. m
    OBVIOUS
  <2> HIDE DEF Fits
  <2> QED
    BY <1>3, <2>1
<1> QED
  BY <1>4

-----------------------------------------------------------------------------
(* Skipping in a forest *)

LEMMA LastExists ==
  ASSUME Forest, NEW t \in Tokens
  PROVE  \E l \in Tokens : IsLast(t, l)
<1> DEFINE S == {l \in t .. Len(tokens) : \A u \in t + 1 .. l : Parent(u) >= t}
<1>1. t \in S /\ S \subseteq 0 .. Len(tokens) /\ S # {}
  <2>1. t \in Nat /\ Len(tokens) \in Nat /\ t <= Len(tokens)
    BY DEF Forest
  <2>2. t \in t .. Len(tokens) /\ \A u \in t + 1 .. t : FALSE
    BY <2>1
  <2>3. t .. Len(tokens) \subseteq 0 .. Len(tokens)
    BY <2>1
  <2>4. t \in S
    BY <2>2
  <2> QED
    BY <2>3, <2>4
<1>2. PICK l \in S : \A y \in S : y <= l
  <2> HIDE DEF S
  <2> QED
    BY <1>1, Largest DEF Forest
<1>3. l \in t .. Len(tokens) /\ \A u \in t + 1 .. l : Parent(u) >= t
  OBVIOUS
<1>4. ASSUME l < Len(tokens), ~(Parent(l + 1) < t)
      PROVE  FALSE
  <2>1. l + 1 \in t .. Len(tokens) /\ l + 1 \in Tokens
    BY <1>3, <1>4 DEF Forest
  <2>2. Parent(l + 1) >= t
    BY <1>4, <2>1 DEF Forest
  <2>3. \A u \in t + 1 .. l + 1 : Parent(u) >= t
    BY <1>3, <2>2
  <2>4. l + 1 \in S
    BY <2>1, <2>3
  <2> QED
    BY <1>2, <1>3, <2>4 DEF Forest
<1>5. l \in Tokens
  BY <1>3 DEF Forest
<1> QED
  BY <1>3, <1>4, <1>5 DEF IsLast

LEMMA LastIsOne ==
  ASSUME Forest, NEW t \in Tokens, NEW l, IsLast(t, l), NEW m, IsLast(t, m)
  PROVE  l = m
<1>1. /\ l \in t .. Len(tokens) /\ \A u \in t + 1 .. l : Parent(u) >= t
      /\ m \in t .. Len(tokens) /\ \A u \in t + 1 .. m : Parent(u) >= t
      /\ l < Len(tokens) => Parent(l + 1) < t
      /\ m < Len(tokens) => Parent(m + 1) < t
  BY DEF IsLast
<1>2. t \in Nat /\ Len(tokens) \in Nat /\ \A u \in 1 .. Len(tokens) : Parent(u) \in Nat
  BY DEF Forest
<1>3. ~(l < m)
  <2> SUFFICES ASSUME l < m PROVE FALSE
    OBVIOUS
  <2>1. l + 1 \in t + 1 .. m /\ l < Len(tokens) /\ l + 1 \in 1 .. Len(tokens)
    BY <1>1, <1>2
  <2> QED
    BY <1>1, <1>2, <2>1
<1>4. ~(m < l)
  <2> SUFFICES ASSUME m < l PROVE FALSE
    OBVIOUS
  <2>1. m + 1 \in t + 1 .. l /\ m < Len(tokens) /\ m + 1 \in 1 .. Len(tokens)
    BY <1>1, <1>2
  <2> QED
    BY <1>1, <1>2, <2>1
<1> QED
  BY <1>1, <1>2, <1>3, <1>4

\* After n parts of t the loop is at e: there are n parts up to it, and no token
\* behind it belongs to one of those that were passed.
Passed(t, n, e) ==
  /\ e \in t .. Len(tokens)
  /\ Cardinality({u \in Parts(t) : u <= e}) = n
  /\ \A u \in t + 1 .. e : Parent(u) >= t
  /\ \A u \in Tokens : u > e => Parent(u) <= t \/ Parent(u) > e

LEMMA PartsFinite ==
  ASSUME Forest, NEW t \in Tokens
  PROVE  /\ Parts(t) = {u \in Tokens : Parent(u) = t} /\ Parts(t) \subseteq 1 .. Len(tokens)
         /\ \A u \in Parts(t) : u > t
<1>1. Parts(t) = {u \in Tokens : Parent(u) = t}
  BY DEF Parts, Tokens, Parent
<1> QED
  BY <1>1 DEF Forest

\* If there is another part, it is the next token.
LEMMA NextPart ==
  ASSUME Forest, NEW t \in Tokens, NEW n \in Nat, NEW e, Passed(t, n, e),
         n < Cardinality(Parts(t))
  PROVE  e + 1 \in Parts(t)
<1>1. e \in t .. Len(tokens) /\ e \in Nat /\ t \in Nat
  BY DEF Passed, Forest
<1>2. PICK c \in Parts(t) : c > e
  <2> SUFFICES ASSUME \A c \in Parts(t) : ~(c > e) PROVE FALSE
    OBVIOUS
  <2>1. {u \in Parts(t) : u <= e} = Parts(t)
    BY <1>1, PartsFinite DEF Forest
  <2>2. Cardinality(Parts(t)) = n
    BY <2>1 DEF Passed
  <2> QED
    BY <2>2
<1>3. c \in Tokens /\ Parent(c) = t /\ c \in Nat /\ c <= Len(tokens)
  BY PartsFinite DEF Forest
<1>4. e + 1 \in Tokens /\ Parent(e + 1) \in 0 .. e
  BY <1>1, <1>2, <1>3 DEF Forest
<1>5. Parent(e + 1) <= t
  <2>1. Parent(e + 1) <= t \/ Parent(e + 1) > e
    BY <1>1, <1>4 DEF Passed
  <2> QED
    BY <1>1, <1>4, <2>1
<1>6. ~(Parent(e + 1) < t)
  <2>1. e + 1 = c \/ e + 1 < c
    BY <1>1, <1>2, <1>3
  <2>2. CASE e + 1 = c
    BY <1>1, <1>3, <2>2
  <2>3. CASE e + 1 < c
    <3>1. ~(Parent(e + 1) < Parent(c) /\ Parent(c) < e + 1)
      BY <1>3, <1>4, <2>3 DEF Forest, Preorder
    <3> QED
      BY <1>1, <1>3, <3>1
  <2> QED
    BY <2>1, <2>2, <2>3
<1>7. Parent(e + 1) = t
  BY <1>1, <1>4, <1>5, <1>6
<1> QED
  BY <1>4, <1>7, PartsFinite

\* Skipping the next part.
LEMMA PartPassed ==
  ASSUME Forest, NEW t \in Tokens, NEW n \in Nat, NEW e, Passed(t, n, e),
         e + 1 \in Parts(t), NEW l, IsLast(e + 1, l)
  PROVE  Passed(t, n + 1, l)
<1>1. /\ e \in t .. Len(tokens) /\ e \in Nat /\ t \in Nat /\ Len(tokens) \in Nat
      /\ e + 1 \in Tokens /\ Parent(e + 1) = t
  BY PartsFinite DEF Passed, Forest
<1>2. /\ l \in e + 1 .. Len(tokens)
      /\ \A u \in e + 1 + 1 .. l : Parent(u) >= e + 1
      /\ l < Len(tokens) => Parent(l + 1) < e + 1
  BY DEF IsLast
<1>3. \A u \in Tokens : u \in Nat /\ Parent(u) \in Nat /\ Parent(u) < u
  BY DEF Forest
<1>4. l \in t .. Len(tokens) /\ \A u \in t + 1 .. l : Parent(u) >= t
  <2>1. ASSUME NEW u \in t + 1 .. l
        PROVE  Parent(u) >= t
    <3>1. u \in Tokens /\ (u <= e \/ u = e + 1 \/ u > e + 1)
      BY <1>1, <1>2 DEF Forest
    <3>2. CASE u <= e
      BY <1>1, <3>2 DEF Passed
    <3>3. CASE u = e + 1
      BY <1>1, <3>3
    <3>4. CASE u > e + 1
      <4>1. Parent(u) >= e + 1
        BY <1>1, <1>2, <3>4
      <4> QED
        BY <1>1, <1>3, <3>1, <4>1
    <3> QED
      BY <3>1, <3>2, <3>3, <3>4
  <2> QED
    BY <1>1, <1>2, <2>1
<1>5. Cardinality({u \in Parts(t) : u <= l}) = n + 1
  <2> DEFINE T == {u \in Parts(t) : u <= e}
  <2>1. {u \in Parts(t) : u <= l} = T \cup {e + 1}
    <3>1. ASSUME NEW u \in Parts(t), u <= l, u > e
          PROVE  u = e + 1
      <4>1. u \in Tokens /\ Parent(u) = t
        BY PartsFinite
      <4>2. u > e + 1 => Parent(u) >= e + 1
        BY <1>1, <1>2, <1>3, <3>1, <4>1
      <4> QED
        BY <1>1, <1>3, <3>1, <4>1, <4>2
    <3>2. \A u \in Parts(t) : u \in Nat
      BY <1>3, PartsFinite
    <3>3. \A u \in Parts(t) : u <= l <=> u <= e \/ u = e + 1
      BY <1>1, <1>2, <3>1, <3>2
    <3> QED
      BY <3>3
  <2>2. T \in SUBSET Parts(t) /\ e + 1 \in Parts(t) \ T
    BY <1>1
  <2>3. Cardinality(T) = n
    BY DEF Passed
  <2> HIDE DEF T
  <2>4. Cardinality(T \cup {e + 1}) = Cardinality(T) + 1
    BY <1>1, <2>2, PartsFinite, UpToIs
  <2> QED
    BY <2>1, <2>3, <2>4
<1>6. ASSUME NEW u \in Tokens, u > l
      PROVE  Parent(u) <= t \/ Parent(u) > l
  <2> SUFFICES ASSUME Parent(u) > t, Parent(u) <= l PROVE FALSE
    BY <1>1, <1>2, <1>3
  <2>1. Parent(u) <= t \/ Parent(u) > e
    BY <1>1, <1>2, <1>3, <1>6 DEF Passed
  <2>2. Parent(u) > e
    BY <1>1, <1>3, <2>1
  <2>3. l < Len(tokens) /\ l + 1 \in Tokens /\ l + 1 > e
    <3>1. l < u /\ l \in Nat /\ u \in 1 .. Len(tokens) /\ e < l
      BY <1>1, <1>2, <1>6 DEF Forest
    <3>2. l + 1 \in 1 .. Len(tokens) /\ l < Len(tokens) /\ l + 1 > e
      BY ONLY <1>1, <3>1
    <3> QED
      BY <3>2 DEF Forest
  <2>4. Parent(l + 1) <= t
    <3>1. Parent(l + 1) < e + 1
      BY <1>2, <2>3
    <3>2. Parent(l + 1) <= t \/ Parent(l + 1) > e
      BY <1>1, <2>3 DEF Passed
    <3>3. Parent(l + 1) \in Nat /\ e \in Nat
      BY <1>1, <1>3, <2>3
    <3> QED
      BY ONLY <3>1, <3>2, <3>3
  <2>5. CASE u = l + 1
    BY <1>1, <1>3, <2>2, <2>4, <2>5
  <2>6. CASE u # l + 1
    <3>1. l + 1 < u
      BY <1>2, <1>3, <1>6, <2>6
    <3>2. ~(Parent(l + 1) < Parent(u) /\ Parent(u) < l + 1)
      BY <2>3, <3>1 DEF Forest, Preorder
    <3> QED
      BY <1>1, <1>2, <1>3, <2>3, <2>4, <3>2
  <2> QED
    BY <2>5, <2>6
<1> QED
  BY <1>4, <1>5, <1>6 DEF Passed

LEMMA NonePassed ==
  ASSUME Forest, NEW t \in Tokens
  PROVE  Passed(t, 0, t)
<1>1. t \in t .. Len(tokens) /\ t \in Nat
  BY DEF Forest
<1>2. {u \in Parts(t) : u <= t} = {}
  BY <1>1, PartsFinite DEF Forest
<1>3. \A u \in Tokens : Parent(u) <= t \/ Parent(u) > t
  BY <1>1 DEF Forest
<1> QED
  BY <1>1, <1>2, <1>3, FS_EmptySet DEF Passed

\* Behind all its parts the value ends.
LEMMA AllPassed ==
  ASSUME Forest, NEW t \in Tokens, NEW e, Passed(t, Cardinality(Parts(t)), e)
  PROVE  IsLast(t, e)
<1>1. e \in t .. Len(tokens) /\ e \in Nat /\ t \in Nat /\ Len(tokens) \in Nat
  BY DEF Passed, Forest
<1>2. ASSUME e < Len(tokens)
      PROVE  Parent(e + 1) < t
  <2>1. e + 1 \in Tokens /\ Parent(e + 1) \in Nat /\ Parent(e + 1) < e + 1
    BY <1>1, <1>2 DEF Forest
  <2>2. Parent(e + 1) <= t \/ Parent(e + 1) > e
    BY <1>1, <2>1 DEF Passed
  <2>3. Parent(e + 1) # t
    <3> SUFFICES ASSUME Parent(e + 1) = t PROVE FALSE
      OBVIOUS
    <3>1. e + 1 \in Parts(t) \ {u \in Parts(t) : u <= e}
      BY <1>1, <2>1, PartsFinite
    <3>2. Cardinality({u \in Parts(t) : u <= e}) < Cardinality(Parts(t))
      <4> DEFINE T == {u \in Parts(t) : u <= e}
      <4>1. T \in SUBSET Parts(t) /\ T # Parts(t)
        BY <3>1
      <4> HIDE DEF T
      <4>2. Cardinality(T) < Cardinality(Parts(t))
        BY <1>1, <4>1, PartsFinite, UpToIs
      <4> QED
        BY <4>2 DEF T
    <3>3. Cardinality(Parts(t)) \in Nat
      BY <1>1, PartsFinite, UpToIs
    <3> QED
      BY <3>2, <3>3 DEF Passed
  <2> QED
    BY <1>1, <2>1, <2>2, <2>3
<1> QED
  BY <1>1, <1>2 DEF Passed, IsLast

LEMMA LastsIs ==
  ASSUME NEW t, NEW skip, tokens[t].size \in Nat
  PROVE  /\ Lasts(t, skip)[0] = t
         /\ \A n \in 1 .. tokens[t].size :
              Lasts(t, skip)[n] = skip[Lasts(t, skip)[n - 1] + 1]
<1> DEFINE m == tokens[t].size
<1> DEFINE f == Lasts(t, skip)
<1>1. f = CHOOSE g : g = [n \in 0 .. m |-> IF n = 0 THEN t ELSE skip[g[n - 1] + 1]]
  BY DEF Lasts
<1> HIDE DEF f
<1>2. f = [n \in 0 .. m |-> IF n = 0 THEN t ELSE skip[f[n - 1] + 1]]
  <2>1. m \in Nat
    OBVIOUS
  <2> HIDE DEF m
  <2> QED
    BY <1>1, <2>1, LoopIs
<1> HIDE DEF m
<1>3. f[0] = t /\ \A n \in 1 .. m : f[n] = skip[f[n - 1] + 1]
  <2>1. m \in Nat
    BY DEF m
  <2>2. 0 \in 0 .. m /\ \A n \in 1 .. m : n \in 0 .. m /\ n # 0
    BY <2>1
  <2> QED
    BY <1>2, <2>2
<1> QED
  BY <1>3 DEF f, m

\* The loop of json_skip_elem over the parts of t, if what it calls is right for
\* the tokens behind t.
LEMMA LoopPasses ==
  ASSUME Forest, Sized, NEW t \in Tokens, NEW skip,
         \A u \in Tokens : u > t => IsLast(u, skip[u])
  PROVE  /\ tokens[t].size \in Nat
         /\ \A n \in 0 .. tokens[t].size : Passed(t, n, Lasts(t, skip)[n])
<1> DEFINE m == tokens[t].size
<1> DEFINE f == Lasts(t, skip)
<1>1. m = Cardinality(Parts(t)) /\ m \in Nat
  <2>1. m = Cardinality(Parts(t))
    BY DEF Sized
  <2> QED
    BY <2>1, PartsFinite, UpToIs DEF Forest
<1>2. f[0] = t /\ \A n \in 1 .. m : f[n] = skip[f[n - 1] + 1]
  BY <1>1, LastsIs
<1> HIDE DEF f, m
<1> DEFINE S == {n \in 0 .. m : ~Passed(t, n, f[n])}
<1>3. S = {}
  <2> SUFFICES ASSUME S # {} PROVE FALSE
    OBVIOUS
  <2>1. PICK n \in S : \A y \in S : n <= y
    <3>1. S \subseteq Nat
      BY <1>1
    <3> HIDE DEF S
    <3> QED
      BY <3>1, Smallest
  <2>2. n \in 0 .. m /\ ~Passed(t, n, f[n])
    OBVIOUS
  <2>3. n # 0
    <3> SUFFICES ASSUME n = 0 PROVE FALSE
      OBVIOUS
    <3>1. f[0] = t
      BY <1>1, <1>2, <2>2
    <3> QED
      BY <2>2, <3>1, NonePassed
  <2>4. n - 1 \in 0 .. m /\ n - 1 \in Nat /\ n - 1 < m /\ n - 1 + 1 = n
    BY <1>1, <2>2, <2>3
  <2>5. Passed(t, n - 1, f[n - 1])
    BY <1>1, <2>1, <2>4
  <2>6. f[n] = skip[f[n - 1] + 1]
    BY <1>1, <1>2, <2>2, <2>3
  <2> HIDE DEF S
  <2>7. f[n - 1] + 1 \in Parts(t)
    BY <1>1, <2>4, <2>5, NextPart
  <2>8. IsLast(f[n - 1] + 1, f[n])
    BY <2>6, <2>7, PartsFinite
  <2>9. Passed(t, n - 1 + 1, f[n])
    BY <2>4, <2>5, <2>7, <2>8, PartPassed
  <2> QED
    BY <2>2, <2>4, <2>9
<1> QED
  BY <1>1, <1>3 DEF f, m

LEMMA LoopEnds ==
  ASSUME Forest, Sized, NEW t \in Tokens, NEW skip,
         \A u \in Tokens : u > t => IsLast(u, skip[u])
  PROVE  IsLast(t, Lasts(t, skip)[tokens[t].size])
<1>1. tokens[t].size \in 0 .. tokens[t].size /\ tokens[t].size = Cardinality(Parts(t))
  BY LoopPasses DEF Sized
<1>2. Passed(t, tokens[t].size, Lasts(t, skip)[tokens[t].size])
  BY <1>1, LoopPasses
<1> QED
  BY <1>1, <1>2, AllPassed

LEMMA SkipIs ==
  ASSUME Forest, Sized
  PROVE  json_skip_elem =
           [t \in Tokens |-> Lasts(t, json_skip_elem)[tokens[t].size]]
<1> DEFINE Fits(g) == g = [t \in Tokens |-> Lasts(t, g)[tokens[t].size]]
<1> DEFINE g == [t \in Tokens |-> CHOOSE l : IsLast(t, l)]
<1>1. \A t \in Tokens : IsLast(t, g[t])
  BY LastExists
<1>2. g = [t \in Tokens |-> g[t]]
  OBVIOUS
<1> HIDE DEF g
<1>3. ASSUME NEW t \in Tokens
      PROVE  g[t] = Lasts(t, g)[tokens[t].size]
  <2>1. IsLast(t, Lasts(t, g)[tokens[t].size])
    BY <1>1, LoopEnds
  <2> QED
    BY <1>1, <2>1, LastIsOne
<1>4. Fits(g)
  BY <1>2, <1>3
<1>5. json_skip_elem = CHOOSE h : Fits(h)
  BY DEF json_skip_elem, Tokens
<1> HIDE DEF Fits
<1>6. Fits(json_skip_elem)
  BY <1>4, <1>5
<1> QED
  BY <1>6 DEF Fits

\* json_skip_elem returns the last token of a value.
LEMMA SkipIsLast ==
  ASSUME Forest, Sized
  PROVE  \A t \in Tokens : IsLast(t, json_skip_elem[t])
<1> DEFINE S == {t \in Tokens : ~IsLast(t, json_skip_elem[t])}
<1>1. S = {}
  <2> SUFFICES ASSUME S # {} PROVE FALSE
    OBVIOUS
  <2>1. PICK t \in S : \A u \in S : u <= t
    <3>1. S \subseteq 0 .. Len(tokens) /\ Len(tokens) \in Nat
      BY DEF Forest
    <3> HIDE DEF S
    <3> QED
      BY <3>1, Largest
  <2>2. t \in Tokens /\ ~IsLast(t, json_skip_elem[t])
    OBVIOUS
  <2>3. \A u \in Tokens : u > t => IsLast(u, json_skip_elem[u])
    <3>1. \A u \in Tokens : u > t => u \notin S
      BY <2>1, <2>2 DEF Forest
    <3> QED
      BY <3>1
  <2> HIDE DEF S
  <2>4. IsLast(t, Lasts(t, json_skip_elem)[tokens[t].size])
    BY <2>2, <2>3, LoopEnds
  <2>5. json_skip_elem[t] = Lasts(t, json_skip_elem)[tokens[t].size]
    BY <2>2, SkipIs
  <2> QED
    BY <2>2, <2>4, <2>5
<1> QED
  BY <1>1

\* The parts of a value are found where the searches look for them.
LEMMA PartsFound ==
  ASSUME Forest, Sized, NEW t \in Tokens
  PROVE  /\ tokens[t].size \in 0 .. Len(tokens)
         /\ \A n \in 1 .. tokens[t].size : Part(t, n) \in Parts(t)
         /\ Parts(t) = {Part(t, n) : n \in 1 .. tokens[t].size}
<1> DEFINE m == tokens[t].size
<1> DEFINE f == Lasts(t, json_skip_elem)
<1>1. /\ m \in Nat /\ m = Cardinality(Parts(t)) /\ m <= Len(tokens)
      /\ \A n \in 0 .. m : Passed(t, n, f[n])
  <2>1. m = Cardinality(Parts(t)) /\ m <= Len(tokens)
    <3>1. m = Cardinality(Parts(t))
      BY DEF Sized
    <3> QED
      BY <3>1, PartsFinite, UpToIs DEF Forest
  <2> QED
    BY <2>1, SkipIsLast, LoopPasses
<1> HIDE DEF f, m
<1>2. \A n \in 1 .. m : Part(t, n) = f[n - 1] + 1 /\ n - 1 \in 0 .. m
  BY <1>1 DEF Part, f
<1>3. \A n \in 1 .. m : Part(t, n) \in Parts(t)
  <2>1. ASSUME NEW n \in 1 .. m
        PROVE  f[n - 1] + 1 \in Parts(t)
    <3>1. n - 1 \in Nat /\ n - 1 < m /\ Passed(t, n - 1, f[n - 1])
      BY <1>1, <1>2
    <3> QED
      BY <1>1, <3>1, NextPart
  <2> QED
    BY <1>2, <2>1
<1>4. ASSUME NEW c \in Parts(t)
      PROVE  \E n \in 1 .. m : c = Part(t, n)
  <2> DEFINE S == {n \in 0 .. m : f[n] >= c}
  <2>1. \A n \in 0 .. m : f[n] \in Nat
    <3>1. ASSUME NEW n \in 0 .. m
          PROVE  f[n] \in Nat
      <4>1. Passed(t, n, f[n])
        BY <1>1
      <4>2. f[n] \in t .. Len(tokens) /\ t \in Nat
        BY <4>1 DEF Passed, Forest
      <4> QED
        BY <4>2
    <3> QED
      BY <3>1
  <2>2. c \in Nat /\ c > t /\ t \in Nat /\ Len(tokens) \in Nat
    BY PartsFinite DEF Forest
  <2>3. m \in S
    <3>1. Passed(t, m, f[m]) /\ m \in 0 .. m
      BY <1>1
    <3>2. {u \in Parts(t) : u <= f[m]} = Parts(t)
      <4> SUFFICES ASSUME {u \in Parts(t) : u <= f[m]} # Parts(t) PROVE FALSE
        OBVIOUS
      <4> DEFINE T == {u \in Parts(t) : u <= f[m]}
      <4>1. T \in SUBSET Parts(t) /\ T # Parts(t) /\ Cardinality(T) = m
        BY <3>1 DEF Passed
      <4> HIDE DEF T
      <4>2. Cardinality(T) < Cardinality(Parts(t))
        BY <2>2, <4>1, PartsFinite, UpToIs
      <4> QED
        BY <1>1, <4>1, <4>2
    <3>3. c <= f[m]
      BY <3>2
    <3> QED
      BY <2>1, <2>2, <3>1, <3>3
  <2>4. PICK n \in S : \A y \in S : n <= y
    <3>1. S \subseteq Nat /\ S # {}
      BY <1>1, <2>3
    <3> HIDE DEF S
    <3> QED
      BY <3>1, Smallest
  <2>5. n \in 0 .. m /\ f[n] >= c
    OBVIOUS
  <2>6. f[0] = t
    BY <1>1, LastsIs DEF f, m
  <2>7. n # 0
    BY <2>2, <2>5, <2>6
  <2>8. n \in 1 .. m /\ n - 1 \in 0 .. m /\ n - 1 \in Nat
    BY <1>1, <2>5, <2>7
  <2>9. f[n - 1] < c
    <3>1. n - 1 \notin S
      BY <2>4, <2>8
    <3> QED
      BY <2>1, <2>2, <2>8, <3>1
  <2> HIDE DEF S
  <2>10. f[n - 1] + 1 \in Parts(t) /\ Passed(t, n, f[n]) /\ Passed(t, n - 1, f[n - 1])
    BY <1>1, <1>2, <1>3, <2>5, <2>8
  <2>11. c = f[n - 1] + 1
    <3> DEFINE T == {u \in Parts(t) : u <= f[n - 1]}
    <3> DEFINE U == {u \in Parts(t) : u <= f[n]}
    <3>1. Cardinality(T) = n - 1 /\ Cardinality(U) = n
      BY <2>10 DEF Passed
    <3>2. \A u \in Parts(t) : u \in Nat
      BY PartsFinite
    <3>3. f[n - 1] + 1 <= f[n]
      BY <2>1, <2>2, <2>5, <2>8, <2>9
    <3>4. T \in SUBSET U /\ f[n - 1] + 1 \in U \ T /\ c \in U \ T /\ U \in SUBSET Parts(t)
      <4>1. f[n - 1] \in Nat /\ f[n] \in Nat /\ c \in Nat /\ c <= f[n] /\ f[n - 1] < c
        BY <2>1, <2>2, <2>5, <2>8, <2>9
      <4>2. \A u \in Parts(t) : u <= f[n - 1] => u <= f[n]
        BY <3>2, <3>3, <4>1
      <4>3. T \in SUBSET U /\ U \in SUBSET Parts(t)
        BY <4>2
      <4>4. f[n - 1] + 1 \in U /\ c \in U
        BY <2>10, <3>3, <4>1
      <4>5. f[n - 1] + 1 \notin T /\ c \notin T
        BY <4>1
      <4> QED
        BY <4>3, <4>4, <4>5
    <3> HIDE DEF T, U
    <3>5. /\ U \subseteq 1 .. Len(tokens)
          /\ Cardinality(T \cup {c}) = n
      <4>1. U \subseteq 1 .. Len(tokens)
        BY <3>4, PartsFinite
      <4>2. Cardinality(T \cup {c}) = Cardinality(T) + 1
        BY <2>2, <3>4, <4>1, UpToIs
      <4> QED
        BY <2>8, <3>1, <4>1, <4>2
    <3>6. T \cup {c} = U
      <4>1. T \cup {c} \in SUBSET U
        BY <3>4
      <4>2. T \cup {c} # U => Cardinality(T \cup {c}) < Cardinality(U)
        BY <2>2, <3>5, <4>1, UpToIs
      <4> QED
        BY <2>8, <3>1, <3>5, <4>2
    <3> QED
      BY <3>4, <3>6
  <2> QED
    BY <1>2, <2>8, <2>11
<1> QED
  BY <1>1, <1>3, <1>4 DEF m, Forest

-----------------------------------------------------------------------------
(* Where the loop of a closing bracket stops *)

LEMMA UpIs ==
  ASSUME Forest
  PROVE  \A t \in Tokens :
           up[t] = IF IsOpen(t) \/ Parent(t) = 0 THEN t ELSE up[Parent(t)]
<1> DEFINE C(t) == IsOpen(t) \/ Parent(t) = 0
<1> DEFINE Fits(g, m) == g = [t \in 1 .. m |-> IF C(t) THEN t ELSE g[Parent(t)]]
<1>1. \A t \in Tokens : ~C(t) => Parent(t) \in 1 .. t - 1
  BY DEF Forest
<1>2. up = CHOOSE g : Fits(g, Len(tokens))
  <2>1. up = CHOOSE g : g = [t \in Tokens |-> IF C(t) THEN t ELSE g[Parent(t)]]
    BY DEF up, Tokens, Parent
  <2> QED
    BY <2>1 DEF Forest
<1> HIDE DEF C
<1> DEFINE S == {m \in 0 .. Len(tokens) : ~ \E g : Fits(g, m)}
<1>3. S = {}
  <2> SUFFICES ASSUME S # {} PROVE FALSE
    OBVIOUS
  <2>1. PICK m \in S : \A y \in S : m <= y
    <3>1. S \subseteq Nat
      BY DEF Forest
    <3> HIDE DEF S
    <3> QED
      BY <3>1, Smallest
  <2>2. m \in 0 .. Len(tokens) /\ ~ \E g : Fits(g, m)
    OBVIOUS
  <2>3. m # 0
    <3>1. Fits([t \in 1 .. 0 |-> t], 0)
      OBVIOUS
    <3> HIDE DEF Fits
    <3> QED
      BY <2>2, <3>1
  <2>4. m - 1 \in 0 .. Len(tokens) /\ m - 1 \notin S /\ m \in Tokens /\ m \in Nat
    BY <2>1, <2>2, <2>3 DEF Forest
  <2>5. PICK g : Fits(g, m - 1)
    BY <2>4
  <2>6. \A t \in 1 .. m - 1 : g[t] = IF C(t) THEN t ELSE g[Parent(t)]
    BY <2>5
  <2> HIDE DEF S
  <2> DEFINE h == [t \in 1 .. m |-> IF t = m THEN IF C(t) THEN t ELSE g[Parent(t)] ELSE g[t]]
  <2>7. h = [t \in 1 .. m |-> h[t]] /\ \A t \in 1 .. m - 1 : h[t] = g[t]
    BY <2>4
  <2>8. h[m] = IF C(m) THEN m ELSE g[Parent(m)]
    BY <2>3, <2>4
  <2> HIDE DEF h
  <2>9. ASSUME NEW t \in 1 .. m
        PROVE  h[t] = IF C(t) THEN t ELSE h[Parent(t)]
    <3>1. t \in Tokens /\ (t = m \/ t \in 1 .. m - 1)
      BY <2>4 DEF Forest
    <3>2. ~C(t) => Parent(t) \in 1 .. m - 1
      BY <1>1, <2>4, <3>1
    <3> QED
      BY <2>6, <2>7, <2>8, <3>1, <3>2
  <2>10. Fits(h, m)
    BY <2>7, <2>9
  <2> HIDE DEF Fits
  <2> QED
    BY <2>2, <2>10
<1>4. Fits(up, Len(tokens))
  <2>1. Len(tokens) \in 0 .. Len(tokens)
    BY DEF Forest
  <2> HIDE DEF Fits
  <2> QED
    BY <1>2, <1>3, <2>1
<1>5. \A t \in Tokens : up[t] = IF C(t) THEN t ELSE up[Parent(t)]
  BY <1>4 DEF Forest
<1> QED
  BY <1>5 DEF C

\* From a token that the next one may be a part of the loop leads to such a one.
LEMMA UpReaches ==
  ASSUME Forest
  PROVE  \A t \in Tokens : up[t] \in Tokens /\ (Reaches(t) => Reaches(up[t]))
<1> DEFINE Ok(t) == up[t] \in Tokens /\ (Reaches(t) => Reaches(up[t]))
<1> DEFINE S == {t \in Tokens : ~Ok(t)}
<1>1. S = {}
  <2> SUFFICES ASSUME S # {} PROVE FALSE
    OBVIOUS
  <2>1. PICK t \in S : \A y \in S : t <= y
    <3>1. S \subseteq Nat
      BY DEF Forest
    <3> HIDE DEF S
    <3> QED
      BY <3>1, Smallest
  <2>2. t \in Tokens /\ ~Ok(t)
    OBVIOUS
  <2>3. up[t] = IF IsOpen(t) \/ Parent(t) = 0 THEN t ELSE up[Parent(t)]
    BY <2>2, UpIs
  <2>4. Parent(t) # 0 /\ up[t] = up[Parent(t)]
    BY <2>2, <2>3
  <2>5. Parent(t) \in Tokens /\ Parent(t) < t /\ Parent(t) \in Nat /\ t \in Nat
    BY <2>2, <2>4 DEF Forest
  <2>6. Ok(Parent(t))
    BY <2>1, <2>5
  <2>7. Reaches(t) => Reaches(Parent(t))
    <3> SUFFICES ASSUME Reaches(t), NEW u \in Tokens,
                        Parent(u) < Parent(t), Parent(t) < u
                 PROVE  FALSE
      BY DEF Reaches
    <3>1. u \in Nat /\ Parent(u) \in Nat
      BY DEF Forest
    <3>2. CASE u < t
      <4>1. ~(Parent(u) < Parent(t) /\ Parent(t) < u)
        BY <2>2, <3>2 DEF Forest, Preorder
      <4> QED
        BY <4>1
    <3>3. CASE u = t
      BY <2>5, <3>3
    <3>4. CASE u > t
      <4>1. ~(Parent(u) < t /\ t < u)
        BY DEF Reaches
      <4>2. Parent(u) < t
        BY <2>5, <3>1
      <4> QED
        BY <2>5, <3>1, <3>4, <4>1, <4>2
    <3> QED
      BY <2>5, <3>1, <3>2, <3>3, <3>4
  <2> QED
    BY <2>2, <2>4, <2>6, <2>7
<1> QED
  BY <1>1

LEMMA ClosedByIs ==
  ASSUME Forest, Len(tokens) # 0
  PROVE  ClosedBy \in Tokens /\ Reaches(ClosedBy)
<1>1. Len(tokens) \in Tokens
  BY DEF Forest
<1>2. Reaches(Len(tokens))
  BY DEF Reaches, Forest
<1> QED
  BY <1>1, <1>2, UpReaches DEF ClosedBy

-----------------------------------------------------------------------------
(* The inductive invariant *)

Token ==
  [type : {"object", "array", "str", "num"}, start : Nat, end : Nat, size : Nat, parent : Nat]

Stage ==
  {"count", "fill", "start", "links", "link", "others", "end", "panic", "wild"}

TokensInv ==
  /\ tokens \in Seq(Token) /\ Forest /\ Sized
  /\ \A t \in Tokens :
       /\ tokens[t].start \in 1 .. pos /\ tokens[t].end \in 0 .. pos
       /\ tokens[t].type = "str" =>
            tokens[t].start \in 1 .. Len(text) /\ text[tokens[t].start] \in Name

SuperInv ==
  /\ pc # "end" => super \in 0 .. Len(tokens)
  /\ pc = "fill" => super = 0 \/ Reaches(super)

\* The symbols that jsmn takes a token at: in both passes they are the same.
Covered(q) ==
  \E p \in 1 .. q - 1 : text[p] = "1" /\ \A r \in p .. q : text[r] \notin Delimiter

Starts ==
  {q \in 1 .. Len(text) : text[q] \in Name \cup Opening \cup {"1"} /\ ~Covered(q)}

Before(n) == {q \in Starts : q < n}

CountInv ==
  /\ pc = "count" => tokens = <<>> /\ super = 0 /\ num = 0 /\ count = Cardinality(Before(pos))
  /\ pc = "fill" => Len(tokens) = Cardinality(Before(pos)) /\ count <= Len(tokens)
  /\ pc # "count" => num \in {0, Cardinality(Starts)}
  /\ pc \in {"fill", "start", "links", "link", "others"} => num = Cardinality(Starts) /\ num > 0
  /\ pc \in {"start", "links", "link", "others"} => Len(tokens) = num
  /\ pc \in {"count", "fill"} /\ pos <= Len(text) => ~Covered(pos)
  /\ count \in 0 .. Len(text)
  /\ error # "NOMEM"

WalkInv ==
  /\ cur \in 0 .. Len(tokens) /\ (Walking => cur # 0)
  /\ {links, buttons} \subseteq 0 .. num
  /\ i \in 0 .. links + 1 /\ j \in 0 .. num + 1 /\ k \in 0 .. num + 1
  /\ pc \in {"count", "fill"} => links = 0 /\ buttons = 0 /\ i = 0 /\ j = 0 /\ k = 0
  /\ pc \in {"links", "link", "others"} => i >= 1
  /\ pc \in {"link", "others"} => i <= links /\ j >= 1
  /\ pc = "others" => j <= buttons /\ k >= 1
  /\ node \in [Field -> Name \cup {"uninitialised"}]

\* What is known of a text that was cut: it ends within a string, or
\* brackets are open at its end.
EndsOpen == Len(text) > 0 /\ text[Len(text)] = "open"

TornText ==
  /\ \A n \in 1 .. Len(text) - 1 : text[n] = "1" =>
       text[n + 1] \in Delimiter \/ (n + 1 = Len(text) /\ EndsOpen)
  /\ Len(text) = 0 \/ EndsOpen \/ Depth(text, Len(text)) > 0

Unclosed == {t \in DOMAIN tokens : IsOpen(t)}

TornInv ==
  source = "torn" =>
    /\ TornText
    /\ pc \in {"count", "fill", "panic"}
    /\ pc \in {"count", "fill"} /\ EndsOpen => pos <= Len(text)
    /\ pc = "fill" => Cardinality(Unclosed) >= Depth(text, pos - 1)

IInv ==
  /\ text \in Seq(Char) /\ pos \in 1 .. Len(text) + 1 /\ pc \in Stage
  /\ TokensInv /\ SuperInv /\ CountInv /\ WalkInv /\ TornInv

-----------------------------------------------------------------------------
(* What an action does to the tokens *)

\* A token is appended, and its parent counts it.
Appended(c, e) ==
  /\ tokens' \in Seq(Token) /\ Len(tokens') = Len(tokens) + 1
  /\ tokens'[Len(tokens) + 1] =
       [type |-> c, start |-> pos, end |-> e, size |-> 0, parent |-> super]
  /\ \A t \in Tokens :
       /\ tokens'[t].type = tokens[t].type /\ tokens'[t].parent = tokens[t].parent
       /\ tokens'[t].start = tokens[t].start /\ tokens'[t].end = tokens[t].end
       /\ tokens'[t].size = IF t = super THEN tokens[t].size + 1 ELSE tokens[t].size

LEMMA NewTokenIs ==
  ASSUME tokens \in Seq(Token), Forest, super \in 0 .. Len(tokens), pos \in Nat,
         NEW c \in {"object", "array", "str", "num"}, NEW e \in Nat,
         tokens' = NewToken(c, e)
  PROVE  Appended(c, e)
<1> DEFINE new == [type |-> c, start |-> pos, end |-> e, size |-> 0, parent |-> super]
<1>1. new \in Token
  BY DEF Token
<1>2. /\ Counted \in Seq(Token) /\ Len(Counted) = Len(tokens)
      /\ \A t \in 1 .. Len(tokens) :
           /\ Counted[t].type = tokens[t].type /\ Counted[t].parent = tokens[t].parent
           /\ Counted[t].start = tokens[t].start /\ Counted[t].end = tokens[t].end
           /\ Counted[t].size = IF t = super THEN tokens[t].size + 1 ELSE tokens[t].size
  <2>1. CASE super = 0
    <3>1. Counted = tokens
      BY <2>1 DEF Counted
    <3> QED
      BY <2>1, <3>1
  <2>2. CASE super # 0
    <3>1. super \in 1 .. Len(tokens) /\ tokens[super] \in Token
      BY <2>2
    <3>2. Counted = [tokens EXCEPT ![super] = [tokens[super] EXCEPT !.size = @ + 1]]
      BY <2>2, Zenon DEF Counted
    <3>3. ASSUME NEW r \in Token
          PROVE  [r EXCEPT !.size = @ + 1] \in Token
      <4>1. r.size + 1 \in Nat
        BY DEF Token
      <4> QED
        BY <4>1 DEF Token
    <3>4. Counted \in Seq(Token) /\ Len(Counted) = Len(tokens)
      BY <3>1, <3>2, <3>3
    <3>5. \A t \in 1 .. Len(tokens) :
            Counted[t] = IF t = super THEN [tokens[t] EXCEPT !.size = @ + 1] ELSE tokens[t]
      BY <3>1, <3>2
    <3>6. \A r \in Token :
            /\ [r EXCEPT !.size = @ + 1].type = r.type
            /\ [r EXCEPT !.size = @ + 1].parent = r.parent
            /\ [r EXCEPT !.size = @ + 1].start = r.start
            /\ [r EXCEPT !.size = @ + 1].end = r.end
            /\ [r EXCEPT !.size = @ + 1].size = r.size + 1
      BY DEF Token
    <3>7. ASSUME NEW t \in 1 .. Len(tokens)
          PROVE  /\ Counted[t].type = tokens[t].type /\ Counted[t].parent = tokens[t].parent
                 /\ Counted[t].start = tokens[t].start /\ Counted[t].end = tokens[t].end
                 /\ Counted[t].size = IF t = super THEN tokens[t].size + 1 ELSE tokens[t].size
      <4>1. tokens[t] \in Token
        OBVIOUS
      <4>2. CASE t = super
        <5>1. Counted[t] = [tokens[t] EXCEPT !.size = @ + 1]
          BY <3>5, <4>2
        <5> QED
          BY <3>6, <4>1, <4>2, <5>1
      <4>3. CASE t # super
        <5>1. Counted[t] = tokens[t]
          BY <3>5, <4>3
        <5> QED
          BY <4>3, <5>1
      <4> QED
        BY <4>2, <4>3
    <3> QED
      BY <3>4, <3>7
  <2> QED
    BY <2>1, <2>2
<1>3. tokens' = Append(Counted, new)
  BY DEF NewToken
<1> HIDE DEF new
<1>4. /\ tokens' \in Seq(Token) /\ Len(tokens') = Len(tokens) + 1
      /\ tokens'[Len(tokens) + 1] = new
      /\ \A t \in 1 .. Len(tokens) : tokens'[t] = Counted[t]
  BY <1>1, <1>2, <1>3
<1>5. Tokens = 1 .. Len(tokens)
  BY DEF Forest
<1> QED
  BY <1>2, <1>4, <1>5 DEF new, Appended

LEMMA AppendKeeps ==
  ASSUME tokens \in Seq(Token), Forest, Sized, super \in 0 .. Len(tokens), pos \in Nat,
         super = 0 \/ Reaches(super),
         NEW c \in {"object", "array", "str", "num"}, NEW e \in Nat,
         tokens' = NewToken(c, e)
  PROVE  /\ Forest' /\ Sized'
         /\ \A u \in Tokens' : super = 0 \/ ~(Parent(u)' < super /\ super < u)
<1> PICK n : n = Len(tokens) + 1
  OBVIOUS
<1>0. Appended(c, e)
  BY NewTokenIs, Zenon
<1>1. /\ tokens' \in Seq(Token) /\ Len(tokens') = n /\ Tokens' = Tokens \cup {n}
      /\ n \in Nat /\ Len(tokens) \in Nat /\ Tokens = 1 .. Len(tokens)
  <2>1. tokens' \in Seq(Token) /\ Len(tokens') = n /\ Len(tokens) \in Nat
    BY <1>0 DEF Appended
  <2>2. Tokens = 1 .. Len(tokens) /\ Tokens' = 1 .. n
    BY <2>1 DEF Tokens
  <2> QED
    BY <2>1, <2>2
<1>2. /\ Parent(n)' = super /\ tokens'[n].size = 0
      /\ \A t \in Tokens : Parent(t)' = Parent(t)
      /\ \A t \in Tokens :
           tokens'[t].size = IF t = super THEN tokens[t].size + 1 ELSE tokens[t].size
  BY <1>0 DEF Appended, Parent
<1>3. \A t \in Tokens : t \in Nat /\ t < n /\ Parent(t) \in 0 .. t - 1
  BY <1>1 DEF Forest
<1>4. super \in Nat /\ super < n
  BY <1>1
<1>5. \A u \in Tokens' : super = 0 \/ ~(Parent(u)' < super /\ super < u)
  BY <1>1, <1>2, <1>4 DEF Reaches
<1>6. Forest'
  <2>1. \A t \in Tokens' : Parent(t)' \in 0 .. t - 1
    BY <1>1, <1>2, <1>3, <1>4
  <2>2. ASSUME NEW t \in Tokens', NEW u \in Tokens', t < u,
               Parent(t)' < Parent(u)', Parent(u)' < t
        PROVE  FALSE
    <3>1. t \in Tokens
      BY <1>1, <1>3, <2>2
    <3>2. CASE u \in Tokens
      BY <1>2, <2>2, <3>1, <3>2 DEF Forest, Preorder
    <3>3. CASE u = n
      <4>1. Parent(t)' < super /\ super < t
        BY <1>2, <2>2, <3>3
      <4>2. super = 0 \/ ~(Parent(t)' < super /\ super < t)
        BY <1>5, <2>2
      <4>3. Parent(t)' \in Nat
        BY <1>2, <1>3, <3>1
      <4> QED
        BY <4>1, <4>2, <4>3
    <3> QED
      BY <1>1, <3>2, <3>3
  <2>3. Len(tokens') \in Nat /\ Tokens' = 1 .. Len(tokens')
    BY <1>1
  <2> QED
    BY <2>1, <2>2, <2>3 DEF Forest, Preorder
<1>7. Sized'
  <2>1. \A t \in Tokens' : Parts(t)' = {u \in Tokens' : Parent(u)' = t}
    BY DEF Parts, Tokens, Parent
  <2>2. \A t \in Tokens : Parts(t) = {u \in Tokens : Parent(u) = t} /\ IsFiniteSet(Parts(t))
                          /\ Cardinality(Parts(t)) \in Nat
    BY <1>1, PartsFinite, UpToIs
  <2>3. Parts(n)' = {}
    BY <1>1, <1>2, <1>3, <1>4, <2>1
  <2>4. ASSUME NEW t \in Tokens
        PROVE  Parts(t)' = IF t = super THEN Parts(t) \cup {n} ELSE Parts(t)
    <3>1. t \in Tokens' /\ Parts(t)' = {u \in Tokens' : Parent(u)' = t}
      BY <1>1, <2>1
    <3>2. \A u : u \in Parts(t)' <=> u \in Parts(t) \/ (u = n /\ t = super)
      BY <1>1, <1>2, <1>3, <2>2, <3>1
    <3> QED
      BY <3>2
  <2>5. ASSUME NEW t \in Tokens
        PROVE  tokens'[t].size = Cardinality(Parts(t)')
    <3>1. tokens[t].size = Cardinality(Parts(t))
      BY DEF Sized
    <3>2. n \notin Parts(t)
      BY <1>3, <2>2
    <3>3. Cardinality(Parts(t) \cup {n}) = Cardinality(Parts(t)) + 1
      BY <2>2, <3>2, FS_AddElement
    <3> QED
      BY <1>2, <2>4, <3>1, <3>3
  <2>6. tokens'[n].size = Cardinality(Parts(n)')
    BY <1>2, <2>3, FS_EmptySet
  <2> QED
    BY <1>1, <2>5, <2>6 DEF Sized
<1> QED
  BY <1>5, <1>6, <1>7

\* The parent of a token that the next one may be a part of is such a token.
LEMMA ParentReaches ==
  ASSUME Forest, NEW t \in Tokens, Reaches(t)
  PROVE  Parent(t) \in 0 .. Len(tokens) /\ (Parent(t) = 0 \/ Reaches(Parent(t)))
<1>1. t \in Nat /\ Parent(t) \in Nat /\ Parent(t) < t /\ t <= Len(tokens) /\ Len(tokens) \in Nat
  BY DEF Forest
<1>2. ASSUME NEW u \in Tokens, Parent(u) < Parent(t), Parent(t) < u
      PROVE  FALSE
  <2>1. u \in Nat /\ Parent(u) \in Nat
    BY DEF Forest
  <2>2. CASE u < t
    <3>1. ~(Parent(u) < Parent(t) /\ Parent(t) < u)
      BY <2>2 DEF Forest, Preorder
    <3> QED
      BY <1>2, <3>1
  <2>3. CASE u = t
    BY <1>1, <1>2, <2>3
  <2>4. CASE t < u
    <3>1. ~(Parent(u) < t)
      BY <2>4 DEF Reaches
    <3> QED
      BY <1>1, <1>2, <2>1, <3>1
  <2> QED
    BY <1>1, <2>1, <2>2, <2>3, <2>4
<1> QED
  BY <1>1, <1>2 DEF Reaches

-----------------------------------------------------------------------------
(* How far a step of jsmn_parse goes, and what it counts *)

\* Where parser->pos is behind the symbol that is read.
NextPos == IF Symbol = "1" THEN PrimitiveEnd ELSE pos + 1

LEMMA PrimitiveEndIs ==
  ASSUME Len(text) \in Nat, pos \in 1 .. Len(text)
  PROVE  /\ PrimitiveEnd \in pos .. Len(text) + 1
         /\ PrimitiveEnd <= Len(text) => text[PrimitiveEnd] \in Delimiter
         /\ \A r \in pos .. PrimitiveEnd - 1 : text[r] \notin Delimiter
<1> DEFINE S == {q \in pos .. Len(text) : text[q] \in Delimiter} \cup {Len(text) + 1}
<1> DEFINE e == PrimitiveEnd
<1>1. S \subseteq Nat /\ S # {} /\ S \subseteq pos .. Len(text) + 1
  OBVIOUS
<1>2. e = Min(S)
  BY DEF PrimitiveEnd
<1>3. e \in S /\ \A y \in S : e <= y
  <2> HIDE DEF S, e
  <2> QED
    BY <1>1, <1>2, MinIs
<1>4. e \in pos .. Len(text) + 1 /\ (e <= Len(text) => text[e] \in Delimiter)
  BY <1>1, <1>3
<1>5. ASSUME NEW r \in pos .. e - 1, text[r] \in Delimiter
      PROVE  FALSE
  <2>1. r \in pos .. Len(text) /\ r < e
    BY <1>4, <1>5
  <2>2. e <= r
    BY <1>3, <1>5, <2>1
  <2> QED
    BY <1>4, <2>1, <2>2
<1> QED
  BY <1>4, <1>5 DEF e

LEMMA StartsAre ==
  ASSUME Len(text) \in Nat
  PROVE  /\ Starts \subseteq 1 .. Len(text) /\ Cardinality(Starts) \in 0 .. Len(text)
         /\ \A n : Before(n) \in SUBSET Starts /\ Cardinality(Before(n)) \in 0 .. Len(text)
         /\ \A n : \A q \in Starts \ Before(n) :
              /\ Cardinality(Before(n) \cup {q}) = Cardinality(Before(n)) + 1
              /\ Cardinality(Before(n)) < Cardinality(Starts)
<1>1. Starts \subseteq 1 .. Len(text)
  BY DEF Starts
<1>2. \A n : Before(n) \in SUBSET Starts
  BY DEF Before
<1>3. Cardinality(Starts) \in 0 .. Len(text)
  <2>1. Cardinality(Starts) \in Nat /\ Cardinality(Starts) <= Len(text)
    BY <1>1, UpToIs
  <2> QED
    BY <2>1
<1>4. ASSUME NEW n
      PROVE  Cardinality(Before(n)) \in 0 .. Len(text)
  <2>1. Before(n) \subseteq 1 .. Len(text)
    BY <1>1, <1>2
  <2> QED
    BY <2>1, UpToIs
<1>5. ASSUME NEW n, NEW q \in Starts \ Before(n)
      PROVE  /\ Cardinality(Before(n) \cup {q}) = Cardinality(Before(n)) + 1
             /\ Cardinality(Before(n)) < Cardinality(Starts)
  <2>1. Before(n) \in SUBSET Starts /\ Before(n) # Starts
    BY <1>2, <1>5
  <2>2. Cardinality(Before(n) \cup {q}) = Cardinality(Before(n)) + 1
    BY <1>1, <2>1, UpToIs
  <2>3. Cardinality(Before(n)) < Cardinality(Starts)
    BY <1>1, <2>1, UpToIs
  <2> QED
    BY <2>2, <2>3
<1> QED
  BY <1>1, <1>2, <1>3, <1>4, <1>5

LEMMA SymbolsDiffer ==
  /\ Name \cap (Opening \cup Closing \cup Delimiter \cup {"colon", "1", "open", "bad"}) = {}
  /\ Opening \cap (Closing \cup Delimiter \cup {"colon", "1", "open", "bad"}) = {}
  /\ "1" \notin Closing \cup Delimiter /\ "open" \notin Delimiter
  /\ Closing \subseteq Delimiter
  BY NameAssumption DEF Opening, Closing, Delimiter

\* A step counts a token if and only if one starts at its symbol.
LEMMA StepCounts ==
  ASSUME IInv, Parsing, ~Partial
  PROVE  /\ NextPos \in pos + 1 .. Len(text) + 1 /\ pos \in 1 .. Len(text)
         /\ NextPos <= Len(text) => ~Covered(NextPos)
         /\ TakesToken =>
              /\ Cardinality(Before(NextPos)) = Cardinality(Before(pos)) + 1
              /\ Cardinality(Before(pos)) < Cardinality(Starts)
         /\ ~TakesToken => Before(NextPos) = Before(pos)
<1> DEFINE e == NextPos
<1>1. Len(text) \in Nat /\ pos \in 1 .. Len(text) /\ ~Covered(pos) /\ Symbol = text[pos]
  BY DEF IInv, Parsing, CountInv, Symbol
<1>2. /\ e \in pos + 1 .. Len(text) + 1
      /\ e <= Len(text) => ~Covered(e)
      /\ \A q \in pos + 1 .. e - 1 : Covered(q)
  <2>1. CASE Symbol = "1"
    <3>1. /\ e = PrimitiveEnd /\ e <= Len(text) /\ e \in pos .. Len(text) + 1
          /\ e <= Len(text) => text[e] \in Delimiter
          /\ \A r \in pos .. e - 1 : text[r] \notin Delimiter
      <4>1. e = PrimitiveEnd /\ ~(PrimitiveEnd > Len(text))
        BY <2>1 DEF Partial, NextPos
      <4> HIDE DEF e
      <4> QED
        BY <1>1, <4>1, PrimitiveEndIs
    <3> HIDE DEF e
    <3>2. e # pos
      BY <1>1, <2>1, <3>1, SymbolsDiffer
    <3>3. ~Covered(e)
      <4>1. \A p \in 1 .. e - 1 : e \in p .. e
        BY <1>1, <3>1
      <4> QED
        BY <3>1, <4>1 DEF Covered
    <3>4. ASSUME NEW q \in pos + 1 .. e - 1
          PROVE  Covered(q)
      <4>1. pos \in 1 .. q - 1 /\ \A r \in pos .. q : text[r] \notin Delimiter
        BY <1>1, <3>1
      <4> QED
        BY <1>1, <2>1, <4>1 DEF Covered
    <3> QED
      BY <1>1, <3>1, <3>2, <3>3, <3>4
  <2>2. CASE Symbol # "1"
    <3>1. e = pos + 1
      BY <2>2 DEF NextPos
    <3>2. ~Covered(e)
      <4> SUFFICES ASSUME NEW p \in 1 .. pos, text[p] = "1",
                          \A r \in p .. pos + 1 : text[r] \notin Delimiter
                   PROVE  FALSE
        BY <1>1, <3>1 DEF Covered
      <4>1. p # pos
        BY <1>1, <2>2
      <4>2. p \in 1 .. pos - 1 /\ \A r \in p .. pos : text[r] \notin Delimiter
        BY <1>1, <4>1
      <4> QED
        BY <1>1, <4>2 DEF Covered
    <3> QED
      BY <1>1, <3>1, <3>2
  <2> QED
    BY <2>1, <2>2
<1> HIDE DEF e
<1>3. pos \in Starts <=> TakesToken
  BY <1>1 DEF Starts, TakesToken
<1>4. \A q \in Starts : q < e <=> q < pos \/ q = pos
  <2>1. \A q \in Starts : q \in 1 .. Len(text) /\ ~Covered(q)
    BY DEF Starts
  <2>2. \A q \in Starts : q \notin pos + 1 .. e - 1
    BY <1>2, <2>1
  <2> QED
    BY <1>1, <1>2, <2>1, <2>2
<1>5. pos \notin Before(pos)
  BY <1>1 DEF Before
<1>6. CASE TakesToken
  <2>1. Before(e) = Before(pos) \cup {pos} /\ pos \in Starts \ Before(pos)
    BY <1>3, <1>4, <1>5, <1>6 DEF Before
  <2>2. /\ Cardinality(Before(pos) \cup {pos}) = Cardinality(Before(pos)) + 1
        /\ Cardinality(Before(pos)) < Cardinality(Starts)
    BY <1>1, <2>1, StartsAre
  <2> QED
    BY <1>1, <1>2, <1>6, <2>1, <2>2 DEF e
<1>7. CASE ~TakesToken
  <2>1. Before(e) = Before(pos)
    BY <1>3, <1>4, <1>7 DEF Before
  <2> QED
    BY <1>1, <1>2, <1>7, <2>1 DEF e
<1> QED
  BY <1>6, <1>7

-----------------------------------------------------------------------------
(* Brackets that are open *)

LEMMA DepthIs ==
  ASSUME NEW t, NEW n \in Nat
  PROVE  /\ Depth(t, 0) = 0 /\ Depth(t, n) \in Int
         /\ Depth(t, n + 1) = Depth(t, n) + (IF t[n + 1] \in Opening THEN 1 ELSE 0)
                                - (IF t[n + 1] \in Closing THEN 1 ELSE 0)
<1> DEFINE O(m) == {q \in 1 .. m : t[q] \in Opening}
<1> DEFINE C(m) == {q \in 1 .. m : t[q] \in Closing}
<1>1. \A m \in Nat : /\ IsFiniteSet(O(m)) /\ Cardinality(O(m)) \in Nat
                     /\ IsFiniteSet(C(m)) /\ Cardinality(C(m)) \in Nat
  <2> SUFFICES ASSUME NEW m \in Nat
               PROVE  /\ IsFiniteSet(O(m)) /\ Cardinality(O(m)) \in Nat
                      /\ IsFiniteSet(C(m)) /\ Cardinality(C(m)) \in Nat
    OBVIOUS
  <2>1. O(m) \subseteq 1 .. m /\ C(m) \subseteq 1 .. m
    OBVIOUS
  <2> HIDE DEF O, C
  <2> QED
    BY <2>1, UpToIs
<1>2. \A m \in Nat : Depth(t, m) = Cardinality(O(m)) - Cardinality(C(m))
  BY DEF Depth
<1>3. O(0) = {} /\ C(0) = {}
  OBVIOUS
<1>4. O(n + 1) = IF t[n + 1] \in Opening THEN O(n) \cup {n + 1} ELSE O(n)
  OBVIOUS
<1>5. C(n + 1) = IF t[n + 1] \in Closing THEN C(n) \cup {n + 1} ELSE C(n)
  OBVIOUS
<1>6. n + 1 \notin O(n) /\ n + 1 \notin C(n)
  OBVIOUS
<1> HIDE DEF O, C
<1>7. Cardinality({}) = 0
  BY FS_EmptySet
<1>8. /\ Cardinality(O(n) \cup {n + 1}) = Cardinality(O(n)) + 1
      /\ Cardinality(C(n) \cup {n + 1}) = Cardinality(C(n)) + 1
  BY <1>1, <1>6, FS_AddElement
<1>9. Cardinality(O(n + 1)) = Cardinality(O(n)) + (IF t[n + 1] \in Opening THEN 1 ELSE 0)
  BY <1>1, <1>4, <1>8
<1>10. Cardinality(C(n + 1)) = Cardinality(C(n)) + (IF t[n + 1] \in Closing THEN 1 ELSE 0)
  BY <1>1, <1>5, <1>8
<1>11. Depth(t, 0) = 0
  BY <1>2, <1>3, <1>7
<1>12. /\ Depth(t, n) = Cardinality(O(n)) - Cardinality(C(n))
       /\ Depth(t, n + 1) = Cardinality(O(n + 1)) - Cardinality(C(n + 1))
       /\ Cardinality(O(n)) \in Nat /\ Cardinality(C(n)) \in Nat
  BY <1>1, <1>2
<1> QED
  BY ONLY <1>9, <1>10, <1>11, <1>12

\* Two texts that begin alike are equally deep.
LEMMA DepthAlike ==
  ASSUME NEW t, NEW u, NEW n \in Nat, \A q \in 1 .. n : t[q] = u[q]
  PROVE  Depth(t, n) = Depth(u, n)
<1>1. /\ {q \in 1 .. n : t[q] \in Opening} = {q \in 1 .. n : u[q] \in Opening}
      /\ {q \in 1 .. n : t[q] \in Closing} = {q \in 1 .. n : u[q] \in Closing}
  OBVIOUS
<1> QED
  BY <1>1, Zenon DEF Depth

\* In a text that was cut a step passes one symbol, and does not come to an
\* end within a string.
LEMMA StepTorn ==
  ASSUME IInv, Parsing, ~Partial, source = "torn"
  PROVE  /\ NextPos = pos + 1
         /\ EndsOpen => NextPos <= Len(text)
         /\ Depth(text, NextPos - 1) =
              Depth(text, pos - 1) + (IF Symbol \in Opening THEN 1 ELSE 0)
                - (IF Symbol \in Closing THEN 1 ELSE 0)
         /\ Depth(text, pos - 1) \in Int
<1>1. Len(text) \in Nat /\ pos \in 1 .. Len(text) /\ Symbol = text[pos] /\ TornText
  BY DEF IInv, Parsing, TornInv, Symbol
<1>2. NextPos = pos + 1
  <2>1. CASE Symbol = "1"
    <3> DEFINE e == PrimitiveEnd
    <3>1. /\ NextPos = e /\ e <= Len(text) /\ e \in pos .. Len(text) + 1
          /\ text[e] \in Delimiter
          /\ \A r \in pos .. e - 1 : text[r] \notin Delimiter
      <4>1. NextPos = PrimitiveEnd /\ ~(PrimitiveEnd > Len(text))
        BY <2>1 DEF Partial, NextPos
      <4> HIDE DEF e
      <4>2. e = PrimitiveEnd
        BY DEF e
      <4> QED
        BY <1>1, <4>1, <4>2, PrimitiveEndIs
    <3> HIDE DEF e
    <3>2. e # pos
      BY <1>1, <2>1, <3>1, SymbolsDiffer
    <3>3. pos \in 1 .. Len(text) - 1 /\ e \in pos + 1 .. Len(text)
      BY <1>1, <3>1, <3>2
    <3>4. text[pos + 1] \in Delimiter \/ (pos + 1 = Len(text) /\ EndsOpen)
      BY <1>1, <2>1, <3>3 DEF TornText
    <3>5. CASE text[pos + 1] \in Delimiter
      <4>1. pos + 1 \notin pos .. e - 1
        BY <3>1, <3>5
      <4> QED
        BY <1>1, <3>1, <3>3, <4>1
    <3>6. CASE pos + 1 = Len(text) /\ EndsOpen
      BY <1>1, <3>1, <3>3, <3>6
    <3> QED
      BY <3>4, <3>5, <3>6
  <2>2. CASE Symbol # "1"
    BY <2>2 DEF NextPos
  <2> QED
    BY <2>1, <2>2
<1>3. EndsOpen => NextPos <= Len(text)
  <2> SUFFICES ASSUME EndsOpen, ~(pos + 1 <= Len(text)) PROVE FALSE
    BY <1>2
  <2>1. pos = Len(text)
    BY <1>1
  <2> QED
    BY <1>1, <2>1 DEF EndsOpen, Partial
<1>4. pos - 1 \in Nat /\ pos - 1 + 1 = pos /\ pos + 1 - 1 = pos
  BY <1>1
<1>5. /\ Depth(text, pos - 1) \in Int
      /\ Depth(text, pos - 1 + 1) =
           Depth(text, pos - 1) + (IF text[pos - 1 + 1] \in Opening THEN 1 ELSE 0)
             - (IF text[pos - 1 + 1] \in Closing THEN 1 ELSE 0)
  BY <1>4, DepthIs
<1> QED
  BY <1>1, <1>2, <1>3, <1>4, <1>5

\* What TornAt leaves of the text of an object is such a text.
LEMMA TornTexts ==
  ASSUME NEW v \in Cut, NEW n \in 1 .. Len(Written(v)), text \in TornAt(Written(v), n)
  PROVE  text \in Seq(Char) /\ TornText
<1> DEFINE w == Written(v)
<1>1. w \in Seq(Char) /\ Len(w) \in Nat /\ n \in 1 .. Len(w)
  BY TextAssumption
<1>2. \A m \in 1 .. Len(w) - 1 : Depth(w, m) > 0 /\ (w[m] = "1" => w[m + 1] \in Delimiter)
  BY CutAssumption
<1>3. text = SubSeq(w, 1, n - 1) \/ text = SubSeq(w, 1, n - 1) \o <<"open">>
  BY DEF TornAt
<1> HIDE DEF w
<1>4. CASE text = SubSeq(w, 1, n - 1)
  <2>1. /\ text \in Seq(Char) /\ Len(text) = n - 1
        /\ \A q \in 1 .. n - 1 : text[q] = w[q]
    BY <1>1, <1>4
  <2>2. \A m \in 1 .. Len(text) - 1 : text[m] = "1" => text[m + 1] \in Delimiter
    <3>1. ASSUME NEW m \in 1 .. Len(text) - 1
          PROVE  m \in 1 .. n - 1 /\ m + 1 \in 1 .. n - 1 /\ m \in 1 .. Len(w) - 1
      BY <1>1, <2>1
    <3>2. ASSUME NEW m \in 1 .. Len(text) - 1
          PROVE  text[m] = w[m] /\ text[m + 1] = w[m + 1]
      BY <2>1, <3>1
    <3>3. \A m \in 1 .. Len(w) - 1 : w[m] = "1" => w[m + 1] \in Delimiter
      BY <1>2
    <3> QED
      BY <3>1, <3>2, <3>3, Zenon
  <2>3. Len(text) = 0 \/ Depth(text, Len(text)) > 0
    <3> SUFFICES ASSUME n - 1 # 0 PROVE Depth(text, n - 1) > 0
      BY <2>1
    <3>1. n - 1 \in 1 .. Len(w) - 1 /\ n - 1 \in Nat
      BY <1>1
    <3>2. Depth(text, n - 1) = Depth(w, n - 1)
      BY <2>1, <3>1, DepthAlike
    <3> QED
      BY <1>2, <3>1, <3>2
  <2> QED
    BY <2>1, <2>2, <2>3 DEF TornText
<1>5. CASE text = SubSeq(w, 1, n - 1) \o <<"open">>
  <2> DEFINE s == SubSeq(w, 1, n - 1)
  <2>1. s \in Seq(Char) /\ Len(s) = n - 1 /\ \A q \in 1 .. n - 1 : s[q] = w[q]
    BY <1>1
  <2>2. "open" \in Char /\ <<"open">> \in Seq(Char) /\ Len(<<"open">>) = 1
    BY DEF Char
  <2>3. text = s \o <<"open">>
    BY <1>5
  <2> HIDE DEF s
  <2>4. /\ text \in Seq(Char) /\ Len(text) = n /\ text[n] = "open"
        /\ \A q \in 1 .. n - 1 : text[q] = w[q]
    BY <1>1, <2>1, <2>2, <2>3
  <2>5. EndsOpen
    BY <1>1, <2>4 DEF EndsOpen
  <2>6. ASSUME NEW m \in 1 .. n - 1, text[m] = "1", m + 1 # n
        PROVE  text[m + 1] \in Delimiter
    <3>1. m \in 1 .. Len(w) - 1 /\ m + 1 \in 1 .. n - 1
      BY <1>1, <2>6
    <3> QED
      BY <1>2, <2>4, <2>6, <3>1
  <2> QED
    BY <2>4, <2>5, <2>6 DEF TornText
<1> QED
  BY <1>3, <1>4, <1>5

-----------------------------------------------------------------------------
(* A step of jsmn_parse *)

LEMMA TokensKept ==
  ASSUME TokensInv, tokens' = tokens, text' = text, pos' \in Nat, pos \in Nat, pos <= pos'
  PROVE  TokensInv'
<1>1. Forest' /\ Sized'
  <2>1. Forest /\ Sized
    BY DEF TokensInv
  <2> QED
    BY <2>1 DEF Forest, Preorder, Sized, Parts, Tokens, Parent
<1>2. /\ tokens' \in Seq(Token) /\ Tokens' = Tokens
      /\ \A t \in Tokens : tokens[t].start \in 1 .. pos' /\ tokens[t].end \in 0 .. pos'
  BY DEF TokensInv, Tokens
<1>3. \A t \in Tokens : tokens[t].type = "str" =>
        tokens[t].start \in 1 .. Len(text) /\ text[tokens[t].start] \in Name
  BY DEF TokensInv
<1> QED
  BY <1>1, <1>2, <1>3 DEF TokensInv

\* The walk has not begun.
LEMMA WalkWaits ==
  ASSUME WalkInv, pc \in {"count", "fill"}, UNCHANGED walk,
         pc' \in {"count", "fill", "panic"}, num' \in Nat,
         Len(tokens) \in Nat, Len(tokens') \in Nat, Len(tokens) <= Len(tokens')
  PROVE  WalkInv'
<1>1. /\ links = 0 /\ buttons = 0 /\ i = 0 /\ j = 0 /\ k = 0
      /\ cur \in 0 .. Len(tokens) /\ node \in [Field -> Name \cup {"uninitialised"}]
  BY DEF WalkInv
<1>2. /\ cur' = cur /\ links' = 0 /\ buttons' = 0 /\ i' = 0 /\ j' = 0 /\ k' = 0
      /\ node' = node
  BY <1>1 DEF walk
<1>3. ~Walking' /\ pc' \notin {"links", "link", "others"}
  BY DEF Walking
<1>4. cur' \in 0 .. Len(tokens')
  BY <1>1, <1>2
<1>5. /\ links' \in 0 .. num' /\ buttons' \in 0 .. num' /\ i' \in 0 .. links' + 1
      /\ j' \in 0 .. num' + 1 /\ k' \in 0 .. num' + 1
  <2>1. \A m \in Nat : 0 \in 0 .. m /\ 0 \in 0 .. m + 1
    OBVIOUS
  <2>2. num' \in Nat /\ links' \in Nat
    BY <1>2
  <2> QED
    BY <1>2, <2>1, <2>2, Zenon
<1> QED
  BY <1>1, <1>2, <1>3, <1>4, <1>5 DEF WalkInv

\* A step that reads a symbol.
Reads ==
  /\ pc' = pc /\ pos' = NextPos /\ UNCHANGED <<input, num, error, walk>>
  /\ count' = IF TakesToken THEN count + 1 ELSE count

LEMMA ReadsKeeps ==
  ASSUME IInv, Parsing, ~Partial, Reads, TokensInv', super' \in 0 .. Len(tokens'),
         pc = "count" => tokens' = <<>> /\ super' = 0,
         pc = "fill" =>
           /\ super' = 0 \/ Reaches(super)'
           /\ Len(tokens') = Len(tokens) + (IF TakesToken THEN 1 ELSE 0)
           /\ source = "torn" =>
                Cardinality(Unclosed') >=
                  Cardinality(Unclosed) + (IF Symbol \in Opening THEN 1 ELSE 0)
                    - (IF Symbol \in Closing THEN 1 ELSE 0),
         Cardinality(Unclosed) \in Nat, Cardinality(Unclosed') \in Nat
  PROVE  IInv'
<1>1. /\ pc \in {"count", "fill"} /\ pc' = pc /\ pos' = NextPos /\ text' = text
      /\ source' = source /\ num' = num /\ error' = error /\ UNCHANGED walk
  BY DEF Reads, Parsing, input
<1>2. Len(text) \in Nat /\ Len(tokens) \in Nat /\ Len(tokens') \in Nat /\ text \in Seq(Char)
  BY DEF IInv, TokensInv, Forest
<1>3. /\ NextPos \in pos + 1 .. Len(text) + 1 /\ pos \in 1 .. Len(text)
      /\ NextPos <= Len(text) => ~Covered(NextPos)
      /\ TakesToken =>
           /\ Cardinality(Before(NextPos)) = Cardinality(Before(pos)) + 1
           /\ Cardinality(Before(pos)) < Cardinality(Starts)
      /\ ~TakesToken => Before(NextPos) = Before(pos)
  BY StepCounts
<1>4. pos' \in 1 .. Len(text') + 1 /\ text' \in Seq(Char) /\ pc' \in Stage
  BY <1>1, <1>2, <1>3 DEF Stage
<1>5. SuperInv'
  BY <1>1 DEF SuperInv
<1>6. CountInv'
  <2>1. Starts' = Starts /\ Before(pos)' = Before(NextPos) /\ Covered(pos)' = Covered(NextPos)
    BY <1>1 DEF Starts, Before, Covered
  <2>2. /\ Cardinality(Before(pos)) \in 0 .. Len(text)
        /\ Cardinality(Before(NextPos)) \in 0 .. Len(text)
    BY <1>2, StartsAre
  <2>3. /\ count \in 0 .. Len(text) /\ error # "NOMEM"
        /\ pc = "count" => num = 0 /\ count = Cardinality(Before(pos))
        /\ pc = "fill" => Len(tokens) = Cardinality(Before(pos)) /\ count <= Len(tokens)
        /\ pc = "fill" => num = Cardinality(Starts) /\ num > 0
    BY DEF IInv, CountInv
  <2>4. count' = IF TakesToken THEN count + 1 ELSE count
    BY DEF Reads
  <2>5. pc = "count" => count' = Cardinality(Before(NextPos))
    BY <1>3, <2>3, <2>4
  <2>6. pc = "fill" => Len(tokens') = Cardinality(Before(NextPos)) /\ count' <= Len(tokens')
    BY <1>2, <1>3, <2>2, <2>3, <2>4
  <2>7. count' \in 0 .. Len(text)
    BY <1>1, <2>2, <2>3, <2>4, <2>5, <2>6
  <2> QED
    BY <1>1, <1>3, <2>1, <2>3, <2>5, <2>6, <2>7 DEF CountInv
<1>7. WalkInv'
  <2>1. Len(tokens) <= Len(tokens')
    <3>1. pc = "count" => tokens = <<>>
      BY DEF IInv, CountInv
    <3> QED
      BY <1>1, <1>2, <3>1
  <2>2. num' \in Nat
    <3>1. num \in {0, Cardinality(Starts)}
      BY <1>1 DEF IInv, CountInv
    <3>2. Cardinality(Starts) \in Nat
      BY <1>2, StartsAre
    <3> QED
      BY <1>1, <3>1, <3>2
  <2>3. WalkInv
    BY DEF IInv
  <2> QED
    BY <1>1, <1>2, <2>1, <2>2, <2>3, WalkWaits
<1>8. TornInv'
  <2> SUFFICES ASSUME source = "torn" PROVE TornInv'
    BY <1>1 DEF TornInv
  <2>1. /\ NextPos = pos + 1
        /\ EndsOpen => NextPos <= Len(text)
        /\ Depth(text, NextPos - 1) =
             Depth(text, pos - 1) + (IF Symbol \in Opening THEN 1 ELSE 0)
               - (IF Symbol \in Closing THEN 1 ELSE 0)
        /\ Depth(text, pos - 1) \in Int
    BY StepTorn
  <2>2. TornText' = TornText /\ EndsOpen' = EndsOpen
    BY <1>1 DEF TornText, EndsOpen
  <2>3. TornText /\ (pc = "fill" => Cardinality(Unclosed) >= Depth(text, pos - 1))
    BY DEF IInv, TornInv
  <2>4. pc = "fill" => Cardinality(Unclosed') >= Depth(text, NextPos - 1)
    BY <2>1, <2>3
  <2> QED
    BY <1>1, <2>1, <2>2, <2>3, <2>4 DEF TornInv
<1> QED
  BY <1>4, <1>5, <1>6, <1>7, <1>8 DEF IInv

LEMMA UnclosedFinite ==
  ASSUME Forest
  PROVE  /\ Unclosed = {t \in Tokens : IsOpen(t)} /\ IsFiniteSet(Unclosed)
         /\ Cardinality(Unclosed) \in Nat
<1>1. Unclosed = {t \in Tokens : IsOpen(t)} /\ Unclosed \subseteq 1 .. Len(tokens)
  BY DEF Unclosed, Tokens, Forest
<1>2. Len(tokens) \in Nat
  BY DEF Forest
<1> QED
  BY <1>1, <1>2, UpToIs

\* A step that takes a token.
LEMMA TakesKeeps ==
  ASSUME IInv, Parsing, ~Partial, ~NoMemory, Reads, TakesToken,
         NEW c \in {"object", "array", "str", "num"}, NEW e \in 0 .. NextPos,
         c = "str" => Symbol \in Name, Symbol \in Opening => c \in Opening /\ e = 0,
         IF Filling THEN tokens' = NewToken(c, e) /\ super' \in {super, Len(tokens) + 1}
                    ELSE UNCHANGED <<tokens, super>>
  PROVE  IInv'
<1>1. /\ Len(text) \in Nat /\ Len(tokens) \in Nat /\ pos \in 1 .. Len(text) /\ Symbol = text[pos]
      /\ NextPos \in pos + 1 .. Len(text) + 1 /\ pos' = NextPos /\ text' = text
      /\ tokens \in Seq(Token) /\ Forest /\ Sized /\ TokensInv
      /\ pc \in {"count", "fill"}
  <2>1. text \in Seq(Char) /\ tokens \in Seq(Token) /\ Forest /\ Sized /\ TokensInv
    BY DEF IInv, TokensInv
  <2>2. pc \in {"count", "fill"} /\ pos \in 1 .. Len(text) /\ Len(text) \in Nat
    BY <2>1 DEF IInv, Parsing
  <2>3. Len(tokens) \in Nat /\ Symbol = text[pos]
    BY <2>1 DEF Symbol
  <2>4. pos' = NextPos /\ text' = text
    BY DEF Reads, input
  <2>5. NextPos \in pos + 1 .. Len(text) + 1
    BY StepCounts
  <2> QED
    BY <2>1, <2>2, <2>3, <2>4, <2>5, Zenon
<1>2. Symbol \notin Closing
  BY SymbolsDiffer DEF TakesToken
<1>3. CASE pc = "count"
  <2>1. tokens' = tokens /\ super' = super /\ tokens = <<>> /\ super = 0
    BY <1>3 DEF Filling, IInv, CountInv
  <2>2. TokensInv'
    BY <1>1, <2>1, TokensKept
  <2>3. Cardinality(Unclosed) \in Nat /\ Cardinality(Unclosed') \in Nat
    <3>1. Forest'
      BY <2>2 DEF TokensInv
    <3>2. Unclosed' = Unclosed
      BY <2>1 DEF Unclosed, IsOpen
    <3> QED
      BY <1>1, <3>2, UnclosedFinite
  <2>4. super' \in 0 .. Len(tokens')
    BY <2>1
  <2> QED
    BY <1>3, <2>1, <2>2, <2>3, <2>4, ReadsKeeps
<1>4. CASE pc = "fill"
  <2> PICK n : n = Len(tokens) + 1
    OBVIOUS
  <2>1. /\ tokens' = NewToken(c, e) /\ super' \in {super, n}
        /\ super \in 0 .. Len(tokens) /\ (super = 0 \/ Reaches(super)) /\ e \in Nat
        /\ pos \in Nat
    BY <1>1, <1>4 DEF Filling, IInv, SuperInv
  <2>2. Appended(c, e)
    BY <1>1, <2>1, NewTokenIs, Zenon
  <2>3. /\ Forest' /\ Sized'
        /\ \A u \in Tokens' : super = 0 \/ ~(Parent(u)' < super /\ super < u)
    BY <1>1, <2>1, AppendKeeps, Zenon
  <2>4. /\ tokens' \in Seq(Token) /\ Len(tokens') = n /\ n \in Nat
        /\ Tokens = 1 .. Len(tokens) /\ Tokens' = 1 .. n /\ Tokens' = Tokens \cup {n}
    <3>1. tokens' \in Seq(Token) /\ Len(tokens') = n /\ n \in Nat
      BY <1>1, <2>2 DEF Appended
    <3>2. Tokens = 1 .. Len(tokens) /\ Tokens' = 1 .. n
      BY <1>1, <3>1 DEF Tokens
    <3> QED
      BY <1>1, <3>1, <3>2
  <2>5. /\ tokens'[n].type = c /\ tokens'[n].start = pos /\ tokens'[n].end = e
        /\ \A t \in Tokens : /\ tokens'[t].type = tokens[t].type
                             /\ tokens'[t].start = tokens[t].start
                             /\ tokens'[t].end = tokens[t].end
    BY <2>2 DEF Appended
  <2>6. TokensInv'
    <3>1. ASSUME NEW t \in Tokens'
          PROVE  /\ tokens'[t].start \in 1 .. pos' /\ tokens'[t].end \in 0 .. pos'
                 /\ tokens'[t].type = "str" =>
                      tokens'[t].start \in 1 .. Len(text) /\ text[tokens'[t].start] \in Name
      <4>1. CASE t \in Tokens
        <5>1. /\ tokens[t].start \in 1 .. pos /\ tokens[t].end \in 0 .. pos
              /\ tokens[t].type = "str" =>
                   tokens[t].start \in 1 .. Len(text) /\ text[tokens[t].start] \in Name
          BY <1>1, <4>1 DEF TokensInv
        <5>2. /\ tokens'[t].type = tokens[t].type
              /\ tokens'[t].start = tokens[t].start /\ tokens'[t].end = tokens[t].end
          BY <2>5, <4>1
        <5>3. tokens[t].start \in 1 .. pos' /\ tokens[t].end \in 0 .. pos'
          BY <1>1, <5>1
        <5> QED
          BY <5>1, <5>2, <5>3
      <4>2. CASE t = n
        BY <1>1, <2>5, <4>2
      <4> QED
        BY <2>4, <4>1, <4>2
    <3> QED
      BY <1>1, <2>3, <2>4, <3>1 DEF TokensInv
  <2>7. super' \in 0 .. Len(tokens') /\ (super' = 0 \/ Reaches(super)')
    <3>1. super' \in 0 .. Len(tokens')
      BY <1>1, <2>1, <2>4
    <3>2. CASE super' = super
      BY <2>3, <3>1, <3>2 DEF Reaches, Parent
    <3>3. CASE super' = n
      BY <2>4, <3>1, <3>3 DEF Reaches
    <3> QED
      BY <2>1, <3>1, <3>2, <3>3
  <2>8. /\ Cardinality(Unclosed) \in Nat /\ Cardinality(Unclosed') \in Nat
        /\ Cardinality(Unclosed') >=
             Cardinality(Unclosed) + (IF Symbol \in Opening THEN 1 ELSE 0)
    <3>1. \A t \in Tokens : IsOpen(t)' <=> IsOpen(t)
      BY <2>5 DEF IsOpen
    <3>2. Symbol \in Opening => IsOpen(n)'
      BY <2>5 DEF IsOpen, Opening
    <3>3. Unclosed = {t \in Tokens : IsOpen(t)} /\ IsFiniteSet(Unclosed)
          /\ Cardinality(Unclosed) \in Nat
      BY <1>1, UnclosedFinite
    <3>4. Unclosed' = {t \in Tokens' : IsOpen(t)'}
      BY DEF Unclosed, Tokens
    <3>5. Unclosed' = IF IsOpen(n)' THEN Unclosed \cup {n} ELSE Unclosed
      BY <2>4, <3>1, <3>3, <3>4
    <3>6. n \notin Unclosed
      BY <2>4, <3>3
    <3>7. Cardinality(Unclosed \cup {n}) = Cardinality(Unclosed) + 1
      BY <3>3, <3>6, FS_AddElement
    <3> QED
      BY <3>2, <3>3, <3>5, <3>7
  <2>9. Len(tokens') = Len(tokens) + 1
    BY <2>4
  <2> QED
    BY <1>2, <1>4, <2>6, <2>7, <2>8, <2>9, ReadsKeeps
<1> QED
  BY <1>1, <1>3, <1>4

LEMMA OpenBracketKeeps ==
  ASSUME IInv, OpenBracket
  PROVE  IInv'
<1>1. Parsing /\ Symbol \in Opening /\ ~Partial /\ ~NoMemory
  BY DEF OpenBracket, Accepts
<1>2. Symbol # "1" /\ TakesToken
  BY <1>1, SymbolsDiffer DEF TakesToken
<1>3. NextPos = pos + 1
  BY <1>2 DEF NextPos
<1>4. Reads
  BY <1>2, <1>3 DEF OpenBracket, Reads
<1>5. Symbol \in {"object", "array", "str", "num"} /\ Symbol # "str" /\ 0 \in 0 .. NextPos
  <2>1. pos \in Nat
    BY DEF IInv
  <2>2. Symbol \in {"object", "array"}
    BY <1>1 DEF Opening
  <2> QED
    BY <1>3, <2>1, <2>2
<1>6. IF Filling THEN tokens' = NewToken(Symbol, 0) /\ super' \in {super, Len(tokens) + 1}
                 ELSE UNCHANGED <<tokens, super>>
  BY DEF OpenBracket
<1>7. PICK c, e : c = Symbol /\ e = 0
  OBVIOUS
<1>8. /\ c \in {"object", "array", "str", "num"} /\ e \in 0 .. NextPos
      /\ c = "str" => Symbol \in Name
      /\ Symbol \in Opening => c \in Opening /\ e = 0
      /\ IF Filling THEN tokens' = NewToken(c, e) /\ super' \in {super, Len(tokens) + 1}
                    ELSE UNCHANGED <<tokens, super>>
  BY <1>5, <1>6, <1>7, Zenon
<1> QED
  BY <1>1, <1>2, <1>4, <1>8, TakesKeeps, Zenon

LEMMA ParseStringKeeps ==
  ASSUME IInv, ParseString
  PROVE  IInv'
<1>1. Parsing /\ Symbol \in Name /\ ~Partial /\ ~NoMemory
  BY DEF ParseString, Accepts
<1>2. Symbol # "1" /\ TakesToken /\ Symbol \notin Opening
  BY <1>1, SymbolsDiffer DEF TakesToken
<1>3. NextPos = pos + 1
  BY <1>2 DEF NextPos
<1>4. Reads
  BY <1>2, <1>3 DEF ParseString, Reads
<1>5. PICK c, e : c = "str" /\ e = pos + 1
  OBVIOUS
<1>6. pos + 1 \in 0 .. NextPos
  BY <1>3 DEF IInv
<1>7. /\ c \in {"object", "array", "str", "num"} /\ e \in 0 .. NextPos
      /\ c = "str" => Symbol \in Name
      /\ Symbol \in Opening => c \in Opening /\ e = 0
  BY <1>1, <1>2, <1>5, <1>6, Zenon
<1>8. IF Filling THEN tokens' = NewToken(c, e) /\ super' \in {super, Len(tokens) + 1}
                 ELSE UNCHANGED <<tokens, super>>
  BY <1>5 DEF ParseString
<1> QED
  BY <1>1, <1>2, <1>4, <1>7, <1>8, TakesKeeps, Zenon

LEMMA ParsePrimitiveKeeps ==
  ASSUME IInv, ParsePrimitive
  PROVE  IInv'
<1>1. Parsing /\ Symbol = "1" /\ ~Partial /\ ~NoMemory
  BY DEF ParsePrimitive, Accepts
<1>2. TakesToken /\ Symbol \notin Opening
  BY <1>1, SymbolsDiffer DEF TakesToken
<1>3. NextPos = PrimitiveEnd
  BY <1>1 DEF NextPos
<1>4. Reads
  BY <1>2, <1>3 DEF ParsePrimitive, Reads
<1>5. PICK c, e : c = "num" /\ e = PrimitiveEnd
  OBVIOUS
<1>6. PrimitiveEnd \in 0 .. NextPos
  <2>1. NextPos \in Nat
    <3>1. NextPos \in pos + 1 .. Len(text) + 1 /\ pos \in 1 .. Len(text)
      BY <1>1, StepCounts
    <3> QED
      BY <3>1
  <2> QED
    BY <1>3, <2>1
<1>7. /\ c \in {"object", "array", "str", "num"} /\ e \in 0 .. NextPos
      /\ c = "str" => Symbol \in Name
      /\ Symbol \in Opening => c \in Opening /\ e = 0
  BY <1>2, <1>5, <1>6
<1>8. IF Filling THEN tokens' = NewToken(c, e) /\ super' \in {super, Len(tokens) + 1}
                 ELSE UNCHANGED <<tokens, super>>
  BY <1>5 DEF ParsePrimitive
<1> QED
  BY <1>1, <1>2, <1>4, <1>7, <1>8, TakesKeeps, Zenon

\* A step that leaves the tokens alone.
LEMMA KeepsReading ==
  ASSUME IInv, Parsing, ~Partial, ~TakesToken, Symbol \notin Opening, Reads,
         tokens' = tokens, super' \in 0 .. Len(tokens),
         pc = "count" => super' = 0,
         pc = "fill" => super' = 0 \/ \E t \in Tokens : t = super' /\ Reaches(t)
  PROVE  IInv'
<1>1. /\ Len(text) \in Nat /\ pos \in 1 .. Len(text) /\ NextPos \in pos + 1 .. Len(text) + 1
      /\ pos' = NextPos /\ text' = text /\ TokensInv /\ Forest /\ Len(tokens) \in Nat
  BY StepCounts DEF IInv, TokensInv, Forest, Reads, input
<1>2. TokensInv'
  BY <1>1, TokensKept
<1>3. /\ Cardinality(Unclosed) \in Nat /\ Cardinality(Unclosed') = Cardinality(Unclosed)
  <2>1. Unclosed' = Unclosed
    BY DEF Unclosed, IsOpen
  <2> QED
    BY <1>1, <2>1, UnclosedFinite
<1>4. super' \in 0 .. Len(tokens') /\ (pc = "count" => tokens' = <<>> /\ super' = 0)
  BY DEF IInv, CountInv
<1>5. pc = "fill" => super' = 0 \/ Reaches(super)'
  BY DEF Reaches, Parent, Tokens
<1>6. Cardinality(Unclosed') \in Nat
      /\ Cardinality(Unclosed') >=
           Cardinality(Unclosed) + (IF Symbol \in Opening THEN 1 ELSE 0)
             - (IF Symbol \in Closing THEN 1 ELSE 0)
  BY <1>3
<1>7. Len(tokens') = Len(tokens) + (IF TakesToken THEN 1 ELSE 0)
  BY <1>1
<1> QED
  BY <1>2, <1>3, <1>4, <1>5, <1>6, <1>7, ReadsKeeps

LEMMA PunctuationIs ==
  ASSUME IInv, NEW S, Accepts(S), S \subseteq Closing \cup {"colon", "comma", "blank"}
  PROVE  /\ Parsing /\ ~Partial /\ ~TakesToken /\ Symbol \notin Opening /\ NextPos = pos + 1
         /\ Symbol \in S
<1>1. Parsing /\ Symbol \in S /\ ~Partial
  BY DEF Accepts
<1>2. "comma" \in Delimiter /\ "blank" \in Delimiter
  BY DEF Delimiter
<1>3. Symbol \notin Name \cup Opening /\ Symbol # "1"
  BY <1>1, <1>2, SymbolsDiffer
<1> QED
  BY <1>1, <1>3 DEF TakesToken, NextPos

LEMMA ColonKeeps ==
  ASSUME IInv, Colon
  PROVE  IInv'
<1>1. /\ Parsing /\ ~Partial /\ ~TakesToken /\ Symbol \notin Opening /\ NextPos = pos + 1
  <2> PICK S : S = {"colon"}
    OBVIOUS
  <2>1. Accepts(S) /\ S \subseteq Closing \cup {"colon", "comma", "blank"}
    BY DEF Colon
  <2> QED
    BY <2>1, PunctuationIs
<1>2. Reads /\ tokens' = tokens /\ super' = Len(tokens)
  BY <1>1 DEF Colon, Reads
<1>3. Len(tokens) \in Nat /\ Tokens = 1 .. Len(tokens) /\ Forest
  BY DEF IInv, TokensInv, Forest
<1>4. pc = "count" => super' = 0
  BY <1>2 DEF IInv, CountInv
<1>5. super' # 0 => super' \in Tokens /\ Reaches(Len(tokens))
  BY <1>2, <1>3 DEF Reaches
<1>6. super' \in 0 .. Len(tokens)
  BY <1>2, <1>3
<1> QED
  BY <1>1, <1>2, <1>4, <1>5, <1>6, KeepsReading

LEMMA CommaKeeps ==
  ASSUME IInv, Comma
  PROVE  IInv'
<1>1. /\ Parsing /\ ~Partial /\ ~TakesToken /\ Symbol \notin Opening /\ NextPos = pos + 1
  <2> PICK S : S = {"comma"}
    OBVIOUS
  <2>1. Accepts(S) /\ S \subseteq Closing \cup {"colon", "comma", "blank"}
    BY DEF Comma
  <2> QED
    BY <2>1, PunctuationIs
<1>2. Reads /\ tokens' = tokens
  BY <1>1 DEF Comma, Reads
<1>3. Len(tokens) \in Nat /\ Tokens = 1 .. Len(tokens) /\ Forest /\ super \in 0 .. Len(tokens)
      /\ (pc = "count" => super = 0) /\ (pc = "fill" => super = 0 \/ Reaches(super))
  <2>1. pc # "end"
    BY <1>1 DEF Parsing
  <2> QED
    BY <2>1 DEF IInv, TokensInv, Forest, SuperInv, CountInv
<1>4. super' = super \/ (Filling /\ super # 0 /\ super' = Parent(super))
  BY DEF Comma, Parent
<1>5. CASE super' = super
  <2>1. super # 0 => super \in Tokens
    BY <1>3
  <2> QED
    BY <1>1, <1>2, <1>3, <1>5, <2>1, KeepsReading
<1>6. CASE Filling /\ super # 0 /\ super' = Parent(super)
  <2>1. super \in Tokens /\ Reaches(super)
    BY <1>3, <1>6 DEF Filling
  <2>2. Parent(super) \in 0 .. Len(tokens) /\ (Parent(super) = 0 \/ Reaches(Parent(super)))
    BY <1>3, <2>1, ParentReaches
  <2>3. super' # 0 => super' \in Tokens
    BY <1>3, <1>6, <2>2
  <2>4. pc # "count"
    BY <1>6 DEF Filling
  <2> QED
    BY <1>1, <1>2, <1>6, <2>2, <2>3, <2>4, KeepsReading
<1> QED
  BY <1>4, <1>5, <1>6

LEMMA BlankKeeps ==
  ASSUME IInv, Blank
  PROVE  IInv'
<1>1. /\ Parsing /\ ~Partial /\ ~TakesToken /\ Symbol \notin Opening /\ NextPos = pos + 1
  <2> PICK S : S = {"blank"}
    OBVIOUS
  <2>1. Accepts(S) /\ S \subseteq Closing \cup {"colon", "comma", "blank"}
    BY DEF Blank
  <2> QED
    BY <2>1, PunctuationIs
<1>2. Reads /\ tokens' = tokens /\ super' = super
  BY <1>1 DEF Blank, Reads
<1>3. Len(tokens) \in Nat /\ Tokens = 1 .. Len(tokens) /\ super \in 0 .. Len(tokens)
      /\ (pc = "count" => super = 0) /\ (pc = "fill" => super = 0 \/ Reaches(super))
  <2>1. pc # "end"
    BY <1>1 DEF Parsing
  <2> QED
    BY <2>1 DEF IInv, TokensInv, Forest, SuperInv, CountInv
<1>4. super # 0 => super \in Tokens
  BY <1>3
<1> QED
  BY <1>1, <1>2, <1>3, <1>4, KeepsReading

\* A closing bracket gives the token it closes its end.
LEMMA ClosedKeeps ==
  ASSUME TokensInv, NEW c \in Tokens, IsOpen(c), pos \in Nat, text' = text, pos' = pos + 1,
         tokens' = [tokens EXCEPT ![c].end = pos + 1]
  PROVE  /\ TokensInv' /\ Tokens' = Tokens /\ Len(tokens') = Len(tokens)
         /\ \A t \in Tokens : Parent(t)' = Parent(t)
         /\ Cardinality(Unclosed) \in Nat /\ Cardinality(Unclosed') \in Nat
         /\ Cardinality(Unclosed') = Cardinality(Unclosed) - 1
<1>1. /\ tokens \in Seq(Token) /\ Len(tokens) \in Nat /\ Tokens = 1 .. Len(tokens)
      /\ Forest /\ Sized
  BY DEF TokensInv, Forest
<1>2. /\ tokens' \in Seq(Token) /\ Len(tokens') = Len(tokens) /\ Tokens' = Tokens
      /\ \A t \in Tokens :
           /\ tokens'[t].type = tokens[t].type /\ tokens'[t].parent = tokens[t].parent
           /\ tokens'[t].start = tokens[t].start /\ tokens'[t].size = tokens[t].size
           /\ tokens'[t].end = IF t = c THEN pos + 1 ELSE tokens[t].end
  <2>1. tokens' = [tokens EXCEPT ![c] = [tokens[c] EXCEPT !.end = pos + 1]]
    BY Zenon
  <2>2. c \in 1 .. Len(tokens) /\ pos + 1 \in Nat /\ \A t \in 1 .. Len(tokens) : tokens[t] \in Token
    BY <1>1
  <2>3. ASSUME NEW r \in Token, NEW x \in Nat
        PROVE  /\ [r EXCEPT !.end = x] \in Token
               /\ [r EXCEPT !.end = x].type = r.type /\ [r EXCEPT !.end = x].parent = r.parent
               /\ [r EXCEPT !.end = x].start = r.start /\ [r EXCEPT !.end = x].size = r.size
               /\ [r EXCEPT !.end = x].end = x
    <3>1. [r EXCEPT !.end = x] \in Token
      BY DEF Token
    <3>2. /\ [r EXCEPT !.end = x].type = r.type /\ [r EXCEPT !.end = x].parent = r.parent
          /\ [r EXCEPT !.end = x].start = r.start /\ [r EXCEPT !.end = x].size = r.size
          /\ [r EXCEPT !.end = x].end = x
      BY DEF Token
    <3> QED
      BY <3>1, <3>2
  <2>4. tokens' \in Seq(Token) /\ Len(tokens') = Len(tokens)
    BY <1>1, <2>1, <2>2, <2>3
  <2>5. \A t \in 1 .. Len(tokens) :
          tokens'[t] = IF t = c THEN [tokens[t] EXCEPT !.end = pos + 1] ELSE tokens[t]
    BY <1>1, <2>1, <2>2
  <2>6. Tokens' = Tokens
    BY <1>1, <2>4 DEF Tokens
  <2> QED
    BY <1>1, <2>2, <2>3, <2>4, <2>5, <2>6
<1>3. \A t \in Tokens : Parent(t)' = Parent(t)
  BY <1>2 DEF Parent
<1>4. Forest' /\ Sized'
  <2>1. Forest'
    BY <1>1, <1>2, <1>3 DEF Forest, Preorder
  <2>2. \A t \in Tokens : Parts(t)' = Parts(t)
    <3>1. ASSUME NEW t \in Tokens
          PROVE  Parts(t)' = Parts(t)
      <4>1. /\ Parts(t)' = {u \in Tokens' : Parent(u)' = t}
            /\ Parts(t) = {u \in Tokens : Parent(u) = t}
        BY DEF Parts, Tokens, Parent
      <4> QED
        BY <1>2, <1>3, <4>1
    <3> QED
      BY <3>1
  <2> QED
    BY <1>1, <1>2, <2>1, <2>2 DEF Sized
<1>5. TokensInv'
  <2>1. ASSUME NEW t \in Tokens
        PROVE  /\ tokens'[t].start \in 1 .. pos' /\ tokens'[t].end \in 0 .. pos'
               /\ tokens'[t].type = "str" =>
                    tokens'[t].start \in 1 .. Len(text) /\ text[tokens'[t].start] \in Name
    <3>1. /\ tokens[t].start \in 1 .. pos /\ tokens[t].end \in 0 .. pos
          /\ tokens[t].type = "str" =>
               tokens[t].start \in 1 .. Len(text) /\ text[tokens[t].start] \in Name
      BY DEF TokensInv
    <3> QED
      BY <1>2, <3>1
  <2> QED
    BY <1>2, <1>4, <2>1 DEF TokensInv
<1>6. /\ Cardinality(Unclosed) \in Nat /\ Cardinality(Unclosed') \in Nat
      /\ Cardinality(Unclosed') = Cardinality(Unclosed) - 1
  <2>1. Unclosed = {t \in Tokens : IsOpen(t)} /\ IsFiniteSet(Unclosed)
        /\ Cardinality(Unclosed) \in Nat
    BY <1>1, UnclosedFinite
  <2>2. Unclosed' = {t \in Tokens : IsOpen(t)'}
    BY <1>2 DEF Unclosed, Tokens
  <2>3. \A t \in Tokens : IsOpen(t)' <=> IsOpen(t) /\ t # c
    BY <1>2 DEF IsOpen
  <2>4. Unclosed' = Unclosed \ {c} /\ c \in Unclosed
    BY <2>1, <2>2, <2>3
  <2>5. IsFiniteSet(Unclosed') /\ Cardinality(Unclosed') = Cardinality(Unclosed) - 1
    BY <2>1, <2>4, FS_RemoveElement
  <2> QED
    BY <2>1, <2>5, FS_CardinalityType
<1> QED
  BY <1>2, <1>3, <1>5, <1>6

LEMMA CloseBracketKeeps ==
  ASSUME IInv, CloseBracket
  PROVE  IInv'
<1>1. /\ Parsing /\ ~Partial /\ ~TakesToken /\ Symbol \notin Opening /\ NextPos = pos + 1
      /\ Symbol \in Closing
  <2>1. Accepts(Closing)
    BY DEF CloseBracket
  <2> QED
    BY <2>1, PunctuationIs
<1>2. Reads
  BY <1>1 DEF CloseBracket, Reads
<1>3. /\ Len(tokens) \in Nat /\ Tokens = 1 .. Len(tokens) /\ Forest /\ TokensInv
      /\ super \in 0 .. Len(tokens) /\ pos \in 1 .. Len(text) /\ Len(text) \in Nat
      /\ (pc = "count" => super = 0) /\ (pc = "fill" => super = 0 \/ Reaches(super))
  <2>1. pc # "end"
    BY <1>1 DEF Parsing
  <2>2. pos \in 1 .. Len(text) /\ Len(text) \in Nat
    BY <1>1 DEF IInv, Parsing
  <2> QED
    BY <2>1, <2>2 DEF IInv, TokensInv, Forest, SuperInv, CountInv
<1>4. CASE Filling /\ IsOpen(ClosedBy)
  <2>1. Len(tokens) # 0
    <3>1. tokens # <<>>
      BY <1>1, <1>4 DEF CloseBracket, Accepts, Invalid, Mismatch
    <3>2. tokens \in Seq(Token)
      BY DEF IInv, TokensInv
    <3> QED
      BY <3>1, <3>2
  <2>2. ClosedBy \in Tokens /\ Reaches(ClosedBy)
    BY <1>3, <2>1, ClosedByIs
  <2> PICK c : c = ClosedBy
    OBVIOUS
  <2>3. c \in Tokens /\ Reaches(c) /\ IsOpen(c)
    BY <1>4, <2>2
  <2>4. tokens' = [tokens EXCEPT ![c].end = pos + 1] /\ super' = Parent(c)
    BY <1>4 DEF CloseBracket, Parent
  <2>5. pos \in Nat /\ text' = text /\ pos' = pos + 1
    BY <1>1, <1>2, <1>3 DEF Reads, input
  <2>6. /\ TokensInv' /\ Tokens' = Tokens /\ Len(tokens') = Len(tokens)
        /\ \A t \in Tokens : Parent(t)' = Parent(t)
        /\ Cardinality(Unclosed) \in Nat /\ Cardinality(Unclosed') \in Nat
        /\ Cardinality(Unclosed') = Cardinality(Unclosed) - 1
    BY <1>3, <2>3, <2>4, <2>5, ClosedKeeps
  <2>7. super' \in 0 .. Len(tokens) /\ (super' = 0 \/ Reaches(Parent(c)))
    BY <1>3, <2>3, <2>4, ParentReaches
  <2>8. super' = 0 \/ Reaches(super)'
    <3>1. Reaches(super)' <=> \A u \in Tokens' : ~(Parent(u)' < super' /\ super' < u)
      BY DEF Reaches
    <3>2. Reaches(Parent(c)) <=> \A u \in Tokens : ~(Parent(u) < Parent(c) /\ Parent(c) < u)
      BY DEF Reaches
    <3> QED
      BY <2>4, <2>6, <2>7, <3>1, <3>2
  <2>9. pc # "count"
    BY <1>4 DEF Filling
  <2>10. /\ Cardinality(Unclosed') >=
              Cardinality(Unclosed) + (IF Symbol \in Opening THEN 1 ELSE 0)
                - (IF Symbol \in Closing THEN 1 ELSE 0)
         /\ Len(tokens') = Len(tokens) + (IF TakesToken THEN 1 ELSE 0)
    BY <1>1, <1>3, <2>6
  <2>11. super' \in 0 .. Len(tokens')
    BY <2>6, <2>7
  <2> QED
    BY <1>1, <1>2, <2>6, <2>8, <2>9, <2>10, <2>11, ReadsKeeps
<1>5. CASE ~(Filling /\ IsOpen(ClosedBy))
  <2>1. tokens' = tokens /\ super' = super
    BY <1>5 DEF CloseBracket
  <2>2. super # 0 => super \in Tokens
    BY <1>3
  <2> QED
    BY <1>1, <1>2, <1>3, <2>1, <2>2, KeepsReading
<1> QED
  BY <1>4, <1>5

-----------------------------------------------------------------------------
(* The ends of the two passes *)

LEMMA RefuseKeeps ==
  ASSUME IInv, Refuse
  PROVE  IInv'
<1>1. /\ UNCHANGED <<text, source, pos, count, tokens, num, super>> /\ UNCHANGED walk
      /\ pc \in {"count", "fill"} /\ pc' = "panic" /\ pos <= Len(text)
      /\ Len(text) \in Nat /\ pos \in 1 .. Len(text) + 1
  BY DEF Refuse, Parsing, input, IInv
<1>2. ~NoMemory
  <2> SUFFICES ASSUME NoMemory PROVE FALSE
    OBVIOUS
  <2>1. pc = "fill" /\ TakesToken /\ Len(tokens) >= num
    BY DEF NoMemory, Filling
  <2>2. /\ Len(tokens) = Cardinality(Before(pos)) /\ num = Cardinality(Starts)
        /\ ~Covered(pos)
    BY <1>1, <2>1 DEF IInv, CountInv
  <2>3. pos \in Starts
    BY <1>1, <2>1, <2>2 DEF Starts, TakesToken, Symbol
  <2>4. pos \in Starts \ Before(pos)
    BY <1>1, <2>3 DEF Before
  <2>5. /\ Cardinality(Before(pos)) < Cardinality(Starts)
        /\ Cardinality(Before(pos)) \in Nat /\ Cardinality(Starts) \in Nat
    <3>1. Cardinality(Before(pos)) < Cardinality(Starts)
      BY <1>1, <2>4, StartsAre
    <3>2. /\ Cardinality(Before(pos)) \in 0 .. Len(text)
          /\ Cardinality(Starts) \in 0 .. Len(text)
      BY <1>1, StartsAre
    <3> QED
      BY <3>1, <3>2
  <2> QED
    BY <2>1, <2>2, <2>5
<1>3. error' # "NOMEM"
  BY <1>2 DEF Refuse
<1>4. TokensInv' /\ SuperInv'
  <2>1. TokensInv'
    <3>1. TokensInv /\ pos \in Nat /\ pos' \in Nat /\ pos <= pos' /\ tokens' = tokens
          /\ text' = text
      BY <1>1 DEF IInv
    <3> QED
      BY <3>1, TokensKept
  <2> QED
    BY <1>1, <2>1 DEF IInv, SuperInv
<1>5. CountInv'
  <2>1. Starts' = Starts
    BY <1>1 DEF Starts, Covered
  <2>2. num \in {0, Cardinality(Starts)} /\ count \in 0 .. Len(text)
    BY <1>1 DEF IInv, CountInv
  <2> QED
    BY <1>1, <1>3, <2>1, <2>2 DEF CountInv
<1>6. WalkInv'
  <2>1. num \in Nat
    <3>1. num \in {0, Cardinality(Starts)}
      BY <1>1 DEF IInv, CountInv
    <3>2. Cardinality(Starts) \in Nat
      BY <1>1, StartsAre
    <3> QED
      BY <3>1, <3>2
  <2>2. Len(tokens) \in Nat /\ WalkInv
    BY DEF IInv, TokensInv, Forest
  <2> QED
    BY <1>1, <2>1, <2>2, WalkWaits
<1>7. TornInv'
  BY <1>1 DEF IInv, TornInv, TornText, EndsOpen
<1>8. text' \in Seq(Char) /\ pos' \in 1 .. Len(text') + 1 /\ pc' \in Stage
  BY <1>1 DEF IInv, Stage
<1> QED
  BY <1>4, <1>5, <1>6, <1>7, <1>8 DEF IInv

LEMMA AllStarts ==
  ASSUME IInv, pos > Len(text)
  PROVE  Before(pos) = Starts
<1>1. pos \in 1 .. Len(text) + 1 /\ Len(text) \in Nat
  BY DEF IInv
<1> QED
  BY <1>1 DEF Before, Starts

LEMMA AllocateKeeps ==
  ASSUME IInv, Allocate
  PROVE  IInv'
<1>1. /\ UNCHANGED <<text, source, tokens, error>> /\ UNCHANGED walk
      /\ pc = "count" /\ pos > Len(text) /\ pos' = 1 /\ count' = 0 /\ super' = 0
      /\ Len(text) \in Nat /\ pos \in 1 .. Len(text) + 1
  BY DEF Allocate, input, IInv
<1>2. tokens = <<>> /\ num = 0 /\ count = Cardinality(Starts)
  BY <1>1, AllStarts DEF IInv, CountInv
<1>3. Cardinality(Starts) \in 0 .. Len(text)
  BY <1>1, StartsAre
<1>4. \/ pc' = "fill" /\ num' = Cardinality(Starts) /\ num' > 0
      \/ pc' = "panic" /\ num' = 0
  BY <1>2 DEF Allocate
<1>5. TokensInv'
  <2>1. Forest /\ Sized /\ tokens \in Seq(Token)
    BY DEF IInv, TokensInv
  <2>2. Forest' /\ Sized'
    BY <1>1, <2>1 DEF Forest, Preorder, Sized, Parts, Tokens, Parent
  <2>3. Tokens' = {}
    BY <1>1, <1>2 DEF Tokens
  <2> QED
    BY <1>1, <2>1, <2>2, <2>3 DEF TokensInv
<1>6. SuperInv'
  <2>1. Len(tokens) \in Nat
    BY DEF IInv, TokensInv, Forest
  <2> QED
    BY <1>1, <2>1 DEF SuperInv
<1>7. CountInv'
  <2>1. Starts' = Starts /\ Before(pos)' = {} /\ ~Covered(pos)'
    BY <1>1 DEF Starts, Before, Covered
  <2>2. Cardinality({}) = 0 /\ Len(tokens') = 0
    BY <1>1, <1>2, FS_EmptySet
  <2>3. error # "NOMEM"
    BY DEF IInv, CountInv
  <2>4. Cardinality(Before(pos)') = 0
    BY <2>1, <2>2
  <2> QED
    BY <1>1, <1>4, <2>1, <2>2, <2>3, <2>4 DEF CountInv
<1>8. WalkInv'
  <2>1. Len(tokens) \in Nat /\ WalkInv /\ num' \in Nat /\ pc' \in {"count", "fill", "panic"}
    BY <1>3, <1>4 DEF IInv, TokensInv, Forest
  <2> QED
    BY <1>1, <2>1, WalkWaits
<1>9. TornInv'
  <2> SUFFICES ASSUME source = "torn" PROVE TornInv'
    BY <1>1 DEF TornInv
  <2>1. TornText' /\ (TornText <=> TornText')
    BY <1>1 DEF IInv, TornInv, TornText, EndsOpen
  <2>2. EndsOpen' => 1 <= Len(text)
    BY <1>1 DEF EndsOpen
  <2>3. pc' = "fill" => Cardinality(Unclosed') >= Depth(text, 0)
    <3>1. Unclosed' = {}
      BY <1>1, <1>2 DEF Unclosed
    <3>2. Cardinality({}) = 0
      BY FS_EmptySet
    <3>3. Depth(text, 0) = 0
      <4>1. 0 \in Nat
        OBVIOUS
      <4> QED
        BY <4>1, DepthIs
    <3> QED
      BY <3>1, <3>2, <3>3
  <2>4. pos' - 1 = 0
    BY <1>1
  <2> QED
    BY <1>1, <1>4, <2>1, <2>2, <2>3, <2>4 DEF TornInv
<1>10. text' \in Seq(Char) /\ pos' \in 1 .. Len(text') + 1 /\ pc' \in Stage
  BY <1>1, <1>4 DEF IInv, Stage
<1> QED
  BY <1>5, <1>6, <1>7, <1>8, <1>9, <1>10 DEF IInv

LEMMA ParsedKeeps ==
  ASSUME IInv, Parsed
  PROVE  IInv'
<1>1. /\ UNCHANGED <<text, source, tokens, pos, count, num, super>>
      /\ UNCHANGED <<links, buttons, i, j, k, node>>
      /\ pc = "fill" /\ pos > Len(text)
      /\ Len(text) \in Nat /\ pos \in 1 .. Len(text) + 1
  BY DEF Parsed, input, IInv
<1>2. \/ pc' = "panic" /\ error' = "PART" /\ cur' = cur /\ Unclosed # {}
      \/ pc' = "start" /\ error' = error /\ cur' = 1 /\ Unclosed = {}
  BY DEF Parsed, Unclosed
<1>3. /\ Len(tokens) = num /\ num = Cardinality(Starts) /\ num > 0 /\ count \in 0 .. Len(text)
      /\ error # "NOMEM"
  BY <1>1, AllStarts DEF IInv, CountInv
<1>4. TokensInv' /\ SuperInv'
  <2>1. TokensInv'
    <3>1. TokensInv /\ pos \in Nat /\ pos' \in Nat /\ pos <= pos'
      BY <1>1 DEF IInv
    <3> QED
      BY <1>1, <3>1, TokensKept
  <2> QED
    BY <1>1, <1>2, <2>1 DEF IInv, SuperInv
<1>5. CountInv'
  <2>1. Starts' = Starts
    BY <1>1 DEF Starts, Covered
  <2> QED
    BY <1>1, <1>2, <1>3, <2>1 DEF CountInv
<1>6. WalkInv'
  <2>1. /\ links = 0 /\ buttons = 0 /\ i = 0 /\ j = 0 /\ k = 0
        /\ cur \in 0 .. Len(tokens) /\ node \in [Field -> Name \cup {"uninitialised"}]
    BY <1>1 DEF IInv, WalkInv
  <2>2. Len(tokens) \in Nat /\ cur' \in 0 .. Len(tokens') /\ (Walking' => cur' # 0)
        /\ pc' \notin {"count", "fill", "links", "link", "others"}
    <3>1. Len(tokens) \in Nat
      BY DEF IInv, TokensInv, Forest
    <3> QED
      BY <1>1, <1>2, <1>3, <2>1, <3>1 DEF Walking
  <2>3. links' \in 0 .. num' /\ buttons' \in 0 .. num' /\ i' \in 0 .. links' + 1
        /\ j' \in 0 .. num' + 1 /\ k' \in 0 .. num' + 1
    <3>1. \A m \in Nat : 0 \in 0 .. m /\ 0 \in 0 .. m + 1
      OBVIOUS
    <3>2. num' \in Nat /\ links' \in Nat
      BY <1>1, <1>3, <2>1, <2>2
    <3> QED
      BY <1>1, <2>1, <3>1, <3>2, Zenon
  <2> QED
    BY <1>1, <2>1, <2>2, <2>3 DEF WalkInv
<1>7. TornInv'
  <2> SUFFICES ASSUME source = "torn" PROVE TornInv'
    BY <1>1 DEF TornInv
  <2>1. /\ TornText /\ ~EndsOpen /\ (TornText <=> TornText')
        /\ Cardinality(Unclosed) >= Depth(text, pos - 1)
    BY <1>1 DEF IInv, TornInv, TornText, EndsOpen
  <2>2. Len(text) # 0
    <3>1. Cardinality(Starts) \in 0 .. Len(text)
      BY <1>1, StartsAre
    <3> QED
      BY <1>3, <3>1
  <2>3. Depth(text, Len(text)) > 0 /\ pos - 1 = Len(text)
    BY <1>1, <2>1, <2>2 DEF TornText
  <2>4. Depth(text, Len(text)) \in Int
    BY <1>1, DepthIs
  <2>5. Unclosed # {}
    <3> SUFFICES ASSUME Unclosed = {} PROVE FALSE
      OBVIOUS
    <3>1. Cardinality(Unclosed) = 0
      BY FS_EmptySet
    <3> QED
      BY <2>1, <2>3, <2>4, <3>1
  <2> QED
    BY <1>2, <2>1, <2>5 DEF TornInv
<1>8. text' \in Seq(Char) /\ pos' \in 1 .. Len(text') + 1 /\ pc' \in Stage
  BY <1>1, <1>2 DEF IInv, Stage
<1> QED
  BY <1>4, <1>5, <1>6, <1>7, <1>8 DEF IInv

LEMMA ParseKeeps ==
  ASSUME IInv, jsmn_parse
  PROVE  IInv'
  BY RefuseKeeps, OpenBracketKeeps, CloseBracketKeeps, ParseStringKeeps,
     ParsePrimitiveKeeps, ColonKeeps, CommaKeeps, BlankKeeps, AllocateKeeps,
     ParsedKeeps DEF jsmn_parse

-----------------------------------------------------------------------------
(* The walk over the tokens *)

\* What the searches of json_parser.c return is a token, or nothing.
LEMMA PartIsToken ==
  ASSUME Forest, Sized, NEW t \in Tokens, NEW n \in 1 .. tokens[t].size
  PROVE  Part(t, n) \in Tokens /\ tokens[t].size \in 0 .. Len(tokens)
<1>1. Part(t, n) \in Parts(t) /\ tokens[t].size \in 0 .. Len(tokens)
  BY PartsFound
<1> QED
  BY <1>1, PartsFinite

LEMMA SearchIs ==
  ASSUME Forest, Sized, NEW t \in Tokens, NEW name
  PROVE  json_obj_search(t, name) \in {0} \cup Tokens
<1> DEFINE S == KeysNamed(t, name)
<1>1. CASE tokens[t].type = "object" /\ S # {}
  <2>1. S \subseteq 1 .. tokens[t].size /\ tokens[t].size \in 0 .. Len(tokens)
    BY PartsFound DEF KeysNamed
  <2>2. S \subseteq Nat
    BY <2>1
  <2> HIDE DEF S
  <2>3. Min(S) \in S
    BY <1>1, <2>2, MinIs
  <2>4. Part(t, Min(S)) \in Tokens
    BY <2>1, <2>3, PartIsToken
  <2>5. json_obj_search(t, name) = Part(t, Min(S))
    BY <1>1, Zenon DEF json_obj_search, S
  <2> QED
    BY <2>4, <2>5
<1>2. CASE ~(tokens[t].type = "object" /\ S # {})
  BY <1>2, Zenon DEF json_obj_search
<1> QED
  BY <1>1, <1>2

LEMMA ValueIs ==
  ASSUME Forest, Sized, NEW t \in Tokens, NEW name, ~ReadsBehind(t, name), NEW type
  PROVE  /\ json_obj_get_val_tok(t, name, type) \in {0} \cup Tokens
         /\ json_obj_get_val_tok(t, name, type) # 0 =>
              tokens[json_obj_get_val_tok(t, name, type)].type = type
<1> DEFINE v == json_obj_search(t, name) + 1
<1>1. json_obj_search(t, name) \in {0} \cup Tokens /\ json_obj_search(t, name) # Len(tokens)
  BY SearchIs DEF ReadsBehind
<1>2. v > 1 => v \in Tokens
  BY <1>1 DEF Forest
<1>3. json_obj_get_val_tok(t, name, type) =
        IF v > 1 /\ tokens[v].type = type THEN v ELSE 0
  BY DEF json_obj_get_val_tok
<1> HIDE DEF v
<1> QED
  BY <1>2, <1>3

LEMMA ElementIs ==
  ASSUME Forest, Sized, NEW t \in Tokens, NEW n \in Nat \ {0}, NEW type
  PROVE  json_arr_get_val_tok(t, n, type) \in {0} \cup Tokens
<1>1. tokens[t].size \in 0 .. Len(tokens)
  BY PartsFound
<1>2. CASE tokens[t].type = "array" /\ n <= tokens[t].size /\ tokens[Part(t, n)].type = type
  <2>1. n \in 1 .. tokens[t].size
    BY <1>1, <1>2 DEF Forest
  <2>2. Part(t, n) \in Tokens
    BY <2>1, PartIsToken
  <2> QED
    BY <1>2, <2>2 DEF json_arr_get_val_tok
<1>3. CASE ~(tokens[t].type = "array" /\ n <= tokens[t].size /\ tokens[Part(t, n)].type = type)
  BY <1>3 DEF json_arr_get_val_tok
<1> QED
  BY <1>2, <1>3

LEMMA UpIsToken ==
  ASSUME Forest, NEW t \in Tokens
  PROVE  Up(t) \in Tokens
<1>1. tokens[t].parent \in 0 .. t - 1 /\ t \in 1 .. Len(tokens) /\ Tokens = 1 .. Len(tokens)
      /\ Len(tokens) \in Nat
  BY DEF Forest, Parent
<1> QED
  BY <1>1 DEF Up

\* What the walk can rely on.
LEMMA WalkHas ==
  ASSUME IInv, Walking
  PROVE  /\ Forest /\ Sized /\ Len(tokens) \in Nat /\ Tokens = 1 .. Len(tokens)
         /\ Len(tokens) = num /\ num > 0 /\ cur \in Tokens /\ pc \notin {"count", "fill"}
         /\ \A t \in Tokens : tokens[t].size \in 0 .. num
         /\ WalkInv
<1>1. /\ Forest /\ Sized /\ Len(tokens) \in Nat /\ Tokens = 1 .. Len(tokens) /\ WalkInv
      /\ pc \notin {"count", "fill"}
  BY DEF IInv, TokensInv, Forest, Walking
<1>2. Len(tokens) = num /\ num > 0
  BY DEF IInv, CountInv, Walking
<1>3. cur \in Tokens
  BY <1>1 DEF WalkInv
<1>4. \A t \in Tokens : tokens[t].size \in 0 .. num
  BY <1>1, <1>2, PartsFound
<1> QED
  BY <1>1, <1>2, <1>3, <1>4

LEMMA WalkKeeps ==
  ASSUME IInv, Walking, UNCHANGED <<input, parser>>, pc' \in Stage \ {"count", "fill"},
         WalkInv'
  PROVE  IInv'
<1>1. UNCHANGED <<text, source, tokens, pos, count, num, super, error>>
  BY DEF input, parser
<1>2. TokensInv'
  <2>1. TokensInv /\ pos \in Nat /\ pos' \in Nat /\ pos <= pos'
    BY <1>1 DEF IInv
  <2> QED
    BY <1>1, <2>1, TokensKept
<1>3. SuperInv'
  BY <1>1 DEF IInv, SuperInv, Walking
<1>4. CountInv'
  <2>1. Starts' = Starts
    BY <1>1 DEF Starts, Covered
  <2>2. /\ Len(tokens) = num /\ num = Cardinality(Starts) /\ num > 0 /\ count \in 0 .. Len(text)
        /\ error # "NOMEM"
    BY DEF IInv, CountInv, Walking
  <2> QED
    BY <1>1, <2>1, <2>2 DEF CountInv
<1>5. TornInv'
  BY <1>1 DEF IInv, TornInv, Walking
<1>6. text' \in Seq(Char) /\ pos' \in 1 .. Len(text') + 1 /\ pc' \in Stage
  BY <1>1 DEF IInv
<1> QED
  BY <1>2, <1>3, <1>4, <1>5, <1>6 DEF IInv

\* json_parse_end.
LEMMA WalkEnds ==
  ASSUME IInv, Walking, json_parse_end,
         UNCHANGED <<input, pos, count, num, super, error, links, buttons, i, j, k, node>>
  PROVE  IInv'
<1>1. /\ UNCHANGED <<text, source, pos, count, num, super, error>>
      /\ UNCHANGED <<links, buttons, i, j, k, node>>
      /\ pc' = "end" /\ cur' = 0 /\ tokens' = <<>>
  BY DEF input, json_parse_end
<1>2. TokensInv'
  <2>1. tokens' \in Seq(Token) /\ Len(tokens') = 0 /\ Tokens' = {}
    BY <1>1 DEF Tokens
  <2>2. Forest' /\ Sized'
    BY <2>1 DEF Forest, Preorder, Sized
  <2> QED
    BY <2>1, <2>2 DEF TokensInv
<1>3. SuperInv'
  BY <1>1 DEF SuperInv
<1>4. CountInv'
  <2>1. Starts' = Starts
    BY <1>1 DEF Starts, Covered
  <2>2. num = Cardinality(Starts) /\ count \in 0 .. Len(text) /\ error # "NOMEM"
    BY DEF IInv, CountInv, Walking
  <2> QED
    BY <1>1, <2>1, <2>2 DEF CountInv
<1>5. WalkInv'
  <2>1. /\ links \in 0 .. num /\ buttons \in 0 .. num /\ i \in 0 .. links + 1
        /\ j \in 0 .. num + 1 /\ k \in 0 .. num + 1
        /\ node \in [Field -> Name \cup {"uninitialised"}]
    BY DEF IInv, WalkInv
  <2>2. ~Walking' /\ Len(tokens') = 0
    BY <1>1 DEF Walking
  <2> QED
    BY <1>1, <2>1, <2>2 DEF WalkInv
<1>6. TornInv'
  BY <1>1 DEF IInv, TornInv, Walking
<1>7. text' \in Seq(Char) /\ pos' \in 1 .. Len(text') + 1 /\ pc' \in Stage
  BY <1>1 DEF IInv, Stage
<1> QED
  BY <1>2, <1>3, <1>4, <1>5, <1>6, <1>7 DEF IInv

LEMMA EnterTableKeeps ==
  ASSUME IInv, EnterTable
  PROVE  IInv'
<1>1. Walking /\ pc = "start"
  BY DEF EnterTable, Walking
<1>2. /\ Forest /\ Sized /\ Len(tokens) \in Nat /\ Tokens = 1 .. Len(tokens)
      /\ Len(tokens) = num /\ num > 0 /\ cur \in Tokens
      /\ \A t \in Tokens : tokens[t].size \in 0 .. num
      /\ WalkInv
  BY <1>1, WalkHas
<1> DEFINE t == json_obj_get_val_tok(cur, "link", "array")
<1>3. UNCHANGED <<input, pos, count, num, super, error, buttons, j, k, node>>
  BY DEF EnterTable
<1>4. CASE ReadsBehind(cur, "link")
  <2>1. pc' = "wild" /\ UNCHANGED <<cur, tokens, links, i>>
    BY <1>4 DEF EnterTable
  <2>2. UNCHANGED <<input, parser>>
    BY <1>3, <2>1 DEF parser
  <2>3. WalkInv'
    BY <1>2, <1>3, <2>1 DEF WalkInv, Walking
  <2> QED
    BY <1>1, <2>1, <2>2, <2>3, WalkKeeps DEF Stage
<1>5. CASE ~ReadsBehind(cur, "link") /\ t = 0
  <2>1. json_parse_end /\ UNCHANGED <<links, i>>
    BY <1>5 DEF EnterTable
  <2> QED
    BY <1>1, <1>3, <2>1, WalkEnds
<1>6. CASE ~ReadsBehind(cur, "link") /\ t # 0
  <2> PICK u : u = t
    OBVIOUS
  <2>1. pc' = "links" /\ cur' = u /\ links' = tokens[u].size /\ i' = 1 /\ tokens' = tokens
    BY <1>6 DEF EnterTable
  <2>2. u \in Tokens
    BY <1>2, <1>6, ValueIs
  <2>3. UNCHANGED <<input, parser>>
    BY <1>3, <2>1 DEF parser
  <2>4. links' \in 0 .. num /\ cur' \in 0 .. Len(tokens) /\ cur' # 0 /\ i' \in 0 .. links' + 1
    BY <1>2, <2>1, <2>2
  <2>5. WalkInv'
    BY <1>2, <1>3, <2>1, <2>4 DEF WalkInv, Walking
  <2> QED
    BY <1>1, <2>1, <2>3, <2>5, WalkKeeps DEF Stage
<1> QED
  BY <1>4, <1>5, <1>6

LEMMA EnterLinkKeeps ==
  ASSUME IInv, EnterLink
  PROVE  IInv'
<1>1. Walking /\ pc = "links" /\ i <= links
  BY DEF EnterLink, Walking
<1>2. /\ Forest /\ Sized /\ Len(tokens) \in Nat /\ Tokens = 1 .. Len(tokens)
      /\ Len(tokens) = num /\ num > 0 /\ cur \in Tokens
      /\ \A t \in Tokens : tokens[t].size \in 0 .. num
      /\ WalkInv
  BY <1>1, WalkHas
<1> DEFINE t == json_arr_get_val_tok(cur, i, "array")
<1>3. /\ UNCHANGED <<input, parser, links, k, node>> /\ num' = num /\ tokens' = tokens
  BY DEF EnterLink, parser
<1>4. links \in 0 .. num /\ i \in 1 .. links
  BY <1>1, <1>2 DEF WalkInv
<1>5. CASE t = 0
  <2>1. pc' = pc /\ i' = i + 1 /\ UNCHANGED <<cur, buttons, j>>
    BY <1>5 DEF EnterLink
  <2>2. i' \in 0 .. links + 1 /\ i' >= 1
    BY <1>4, <2>1
  <2>3. WalkInv'
    BY <1>1, <1>2, <1>3, <2>1, <2>2 DEF WalkInv, Walking
  <2> QED
    BY <1>1, <1>3, <2>1, <2>3, WalkKeeps DEF Stage
<1>6. CASE t # 0
  <2> PICK u : u = t
    OBVIOUS
  <2>1. pc' = "link" /\ cur' = u /\ buttons' = tokens[u].size /\ j' = 1 /\ i' = i
    BY <1>6 DEF EnterLink
  <2>2. u \in Tokens
    <3>1. i \in Nat \ {0}
      BY <1>4
    <3> QED
      BY <1>2, <1>6, <3>1, ElementIs
  <2>3. buttons' \in 0 .. num /\ cur' \in 0 .. Len(tokens) /\ cur' # 0 /\ j' \in 0 .. num + 1
    BY <1>2, <2>1, <2>2
  <2>4. WalkInv'
    BY <1>1, <1>2, <1>3, <1>4, <2>1, <2>3 DEF WalkInv, Walking
  <2> QED
    BY <1>1, <1>3, <2>1, <2>4, WalkKeeps DEF Stage
<1> QED
  BY <1>5, <1>6

\* Where the cursor is after json_arr_leave_object.
LEMMA LeaveIsToken ==
  ASSUME Forest, cur \in Tokens, NEW t \in {0} \cup Tokens
  PROVE  LeaveObject(t) \in Tokens
  BY UpIsToken DEF LeaveObject

LEMMA FieldsTyped ==
  ASSUME IInv, Walking, NEW t \in Tokens, ~Behind(t)
  PROVE  Fields(t) \in [Field -> Name \cup {"uninitialised"}]
<1>1. Forest /\ Sized /\ Tokens = 1 .. Len(tokens) /\ Len(tokens) \in Nat
      /\ node \in [Field -> Name \cup {"uninitialised"}]
  BY WalkHas DEF WalkInv
<1> DEFINE s(f) == json_obj_get_val_tok(t, f, "str")
<1>2. ASSUME NEW f \in Field
      PROVE  s(f) = 0 \/ text[tokens[s(f)].start] \in Name
  <2>1. ~ReadsBehind(t, f)
    BY <1>1 DEF Behind
  <2>2. s(f) \in {0} \cup Tokens /\ (s(f) # 0 => tokens[s(f)].type = "str")
    BY <1>1, <2>1, ValueIs
  <2> HIDE DEF s
  <2>3. \A u \in Tokens : tokens[u].type = "str" => text[tokens[u].start] \in Name
    BY DEF IInv, TokensInv
  <2> QED
    BY <2>2, <2>3
<1>3. Fields(t) = [f \in Field |-> IF s(f) = 0 \/ text[tokens[s(f)].start] \in LongName
                                     THEN node[f] ELSE text[tokens[s(f)].start]]
  BY DEF Fields
<1> HIDE DEF s
<1>4. \A f \in Field : node[f] \in Name \cup {"uninitialised"}
  BY <1>1
<1>5. \A f \in Field :
        (IF s(f) = 0 \/ text[tokens[s(f)].start] \in LongName
           THEN node[f] ELSE text[tokens[s(f)].start]) \in Name \cup {"uninitialised"}
  BY <1>2, <1>4
<1> QED
  BY <1>3, <1>5

LEMMA ReadButtonKeeps ==
  ASSUME IInv, ReadButton
  PROVE  IInv'
<1>1. Walking /\ pc = "link" /\ j <= buttons
  BY DEF ReadButton, Walking
<1>2. /\ Forest /\ Sized /\ Len(tokens) \in Nat /\ Tokens = 1 .. Len(tokens)
      /\ Len(tokens) = num /\ num > 0 /\ cur \in Tokens /\ WalkInv
  BY <1>1, WalkHas
<1>3. /\ UNCHANGED <<input, parser, links, buttons, i, j>> /\ num' = num /\ tokens' = tokens
      /\ k' = 1
  BY DEF ReadButton, parser
<1>4. /\ links \in 0 .. num /\ buttons \in 0 .. num /\ i \in 1 .. links /\ j \in 1 .. buttons
      /\ j \in 0 .. num + 1 /\ i \in 0 .. links + 1 /\ 1 \in 0 .. num + 1
      /\ node \in [Field -> Name \cup {"uninitialised"}]
  BY <1>1, <1>2 DEF WalkInv
<1> PICK t : t = json_arr_get_val_tok(cur, j, "object")
  OBVIOUS
<1>5. t \in {0} \cup Tokens
  <2>1. j \in Nat \ {0}
    BY <1>4
  <2> QED
    BY <1>2, <2>1, ElementIs
<1>6. CASE Behind(t)
  <2>1. pc' = "wild" /\ cur' = cur /\ node' = node
    BY <1>6 DEF ReadButton
  <2>2. WalkInv'
    BY <1>2, <1>3, <1>4, <2>1 DEF WalkInv, Walking
  <2> QED
    BY <1>1, <1>3, <2>1, <2>2, WalkKeeps DEF Stage
<1>7. CASE ~Behind(t)
  <2>1. /\ pc' = "others" /\ cur' = LeaveObject(t)
        /\ node' = IF t = 0 THEN node ELSE Fields(t)
    BY <1>7 DEF ReadButton
  <2>2. cur' \in Tokens
    BY <1>2, <1>5, <2>1, LeaveIsToken
  <2>3. node' \in [Field -> Name \cup {"uninitialised"}]
    BY <1>1, <1>4, <1>5, <1>7, <2>1, FieldsTyped
  <2>4. cur' \in 0 .. Len(tokens) /\ cur' # 0
    BY <1>2, <2>2
  <2>5. WalkInv'
    BY <1>3, <1>4, <2>1, <2>3, <2>4 DEF WalkInv, Walking
  <2> QED
    BY <1>1, <1>3, <2>1, <2>5, WalkKeeps DEF Stage
<1> QED
  BY <1>6, <1>7

LEMMA ReadOtherKeeps ==
  ASSUME IInv, ReadOther
  PROVE  IInv'
<1>1. Walking /\ pc = "others" /\ k <= buttons
  BY DEF ReadOther, Walking
<1>2. /\ Forest /\ Sized /\ Len(tokens) \in Nat /\ Tokens = 1 .. Len(tokens)
      /\ Len(tokens) = num /\ num > 0 /\ cur \in Tokens /\ WalkInv
  BY <1>1, WalkHas
<1>3. /\ UNCHANGED <<input, parser, links, buttons, i, j>> /\ num' = num /\ tokens' = tokens
      /\ k' = k + 1
  BY DEF ReadOther, parser
<1>4. /\ links \in 0 .. num /\ buttons \in 0 .. num /\ i \in 1 .. links /\ j \in 1 .. buttons
      /\ k \in 1 .. buttons /\ node \in [Field -> Name \cup {"uninitialised"}]
  BY <1>1, <1>2 DEF WalkInv
<1>5. j \in 0 .. num + 1 /\ i \in 0 .. links + 1 /\ k + 1 \in 0 .. num + 1 /\ k + 1 >= 1
  BY <1>2, <1>4
<1> PICK t : t = json_arr_get_val_tok(cur, k, "object")
  OBVIOUS
<1>6. t \in {0} \cup Tokens
  <2>1. k \in Nat \ {0}
    BY <1>4
  <2> QED
    BY <1>2, <2>1, ElementIs
<1>7. CASE Behind(t) /\ k # j
  <2>1. pc' = "wild" /\ cur' = cur /\ node' = node
    BY <1>7 DEF ReadOther
  <2>2. WalkInv'
    BY <1>2, <1>3, <1>4, <1>5, <2>1 DEF WalkInv, Walking
  <2> QED
    BY <1>1, <1>3, <2>1, <2>2, WalkKeeps DEF Stage
<1>8. CASE ~(Behind(t) /\ k # j)
  <2>1. /\ pc' \in {"wild", "others"} /\ cur' = LeaveObject(t)
        /\ IF t # 0 /\ k # j THEN node' = Fields(t) ELSE node' = node
    BY <1>1, <1>8 DEF ReadOther
  <2>2. cur' \in Tokens
    BY <1>2, <1>6, <2>1, LeaveIsToken
  <2>3. node' \in [Field -> Name \cup {"uninitialised"}]
    BY <1>1, <1>4, <1>6, <1>8, <2>1, FieldsTyped
  <2>4. cur' \in 0 .. Len(tokens) /\ cur' # 0
    BY <1>2, <2>2
  <2>5. WalkInv'
    BY <1>3, <1>4, <1>5, <2>1, <2>3, <2>4 DEF WalkInv, Walking
  <2> QED
    BY <1>1, <1>3, <2>1, <2>5, WalkKeeps DEF Stage
<1> QED
  BY <1>7, <1>8

LEMMA SetButtonKeeps ==
  ASSUME IInv, SetButton
  PROVE  IInv'
<1>1. Walking /\ pc = "others" /\ pc' = "link" /\ j' = j + 1
      /\ UNCHANGED <<input, parser, cur, links, buttons, i, k, node>>
      /\ tokens' = tokens /\ num' = num
  BY DEF SetButton, Walking, parser
<1>2. WalkInv /\ num \in Nat
  BY <1>1, WalkHas
<1>3. j \in 1 .. buttons /\ buttons \in 0 .. num
  BY <1>1, <1>2 DEF WalkInv
<1>4. j' \in 0 .. num + 1 /\ j' >= 1
  BY <1>1, <1>2, <1>3
<1>5. WalkInv'
  BY <1>1, <1>2, <1>4 DEF WalkInv, Walking
<1> QED
  BY <1>1, <1>5, WalkKeeps DEF Stage

LEMMA LeaveLinkKeeps ==
  ASSUME IInv, LeaveLink
  PROVE  IInv'
<1>1. Walking /\ pc = "link" /\ pc' = "links" /\ i' = i + 1 /\ cur' = Up(cur)
      /\ UNCHANGED <<input, parser, links, buttons, j, k, node>>
      /\ tokens' = tokens /\ num' = num
  BY DEF LeaveLink, Walking, parser
<1>2. /\ Forest /\ Len(tokens) \in Nat /\ Tokens = 1 .. Len(tokens) /\ cur \in Tokens
      /\ WalkInv /\ num \in Nat
  BY <1>1, WalkHas
<1>3. cur' \in Tokens
  BY <1>1, <1>2, UpIsToken
<1>4. i \in 1 .. links /\ links \in 0 .. num
  BY <1>1, <1>2 DEF WalkInv
<1>5. i' \in 0 .. links + 1 /\ i' >= 1 /\ cur' \in 0 .. Len(tokens) /\ cur' # 0
  BY <1>1, <1>2, <1>3, <1>4
<1>6. WalkInv'
  BY <1>1, <1>2, <1>5 DEF WalkInv, Walking
<1> QED
  BY <1>1, <1>6, WalkKeeps DEF Stage

LEMMA LeaveTableKeeps ==
  ASSUME IInv, LeaveTable
  PROVE  IInv'
<1>1. Walking /\ json_parse_end
      /\ UNCHANGED <<input, pos, count, num, super, error, links, buttons, i, j, k, node>>
  BY DEF LeaveTable, Walking
<1> QED
  BY <1>1, WalkEnds

-----------------------------------------------------------------------------
(* The invariant *)

LEMMA InitHolds ==
  ASSUME Init
  PROVE  IInv
<1>1. /\ pc = "count" /\ pos = 1 /\ count = 0 /\ tokens = <<>> /\ num = 0 /\ super = 0
      /\ error = "none" /\ cur = 0 /\ links = 0 /\ buttons = 0 /\ i = 0 /\ j = 0 /\ k = 0
      /\ node = [f \in Field |-> "uninitialised"]
  BY DEF Init
<1>2. text \in Seq(Char) /\ (source = "torn" => TornText)
  <2>1. CASE source = "whole" /\ table \in Tables /\ text = Written(table)
    BY <2>1, TextAssumption
  <2>2. CASE source = "torn" /\ table \in Cut
             /\ \E n \in 1 .. Len(Written(table)) : text \in TornAt(Written(table), n)
    <3>1. PICK n \in 1 .. Len(Written(table)) : text \in TornAt(Written(table), n)
      BY <2>2
    <3> QED
      BY <2>2, <3>1, TornTexts
  <2>3. CASE source = "junk" /\ text \in Junk
    BY <2>3, TextAssumption
  <2> QED
    BY <2>1, <2>2, <2>3 DEF Init
<1>3. Len(text) \in Nat
  BY <1>2
<1>4. TokensInv
  <2>1. tokens \in Seq(Token) /\ Len(tokens) = 0 /\ Tokens = {}
    BY <1>1 DEF Tokens
  <2>2. Forest /\ Sized
    BY <2>1 DEF Forest, Preorder, Sized
  <2> QED
    BY <2>1, <2>2 DEF TokensInv
<1>5. Len(tokens) = 0
  BY <1>1
<1>6. SuperInv
  BY <1>1, <1>5 DEF SuperInv
<1>7. CountInv
  <2>1. Before(pos) = {} /\ ~Covered(pos)
    BY <1>1, <1>3 DEF Starts, Before, Covered
  <2>2. Cardinality(Before(pos)) = 0
    BY <2>1, FS_EmptySet
  <2> QED
    BY <1>1, <1>3, <2>1, <2>2 DEF CountInv
<1>8. WalkInv
  <2>1. ~Walking /\ pc \notin {"links", "link", "others"}
    BY <1>1 DEF Walking
  <2>2. \A m \in Nat : 0 \in 0 .. m /\ 0 \in 0 .. m + 1
    OBVIOUS
  <2>3. cur \in 0 .. Len(tokens) /\ links \in 0 .. num /\ buttons \in 0 .. num
        /\ i \in 0 .. links + 1 /\ j \in 0 .. num + 1 /\ k \in 0 .. num + 1
    <3>1. 0 \in Nat
      OBVIOUS
    <3> QED
      BY <1>1, <1>5, <2>2, <3>1, Zenon
  <2>4. node \in [Field -> Name \cup {"uninitialised"}]
    BY <1>1
  <2> QED
    BY <1>1, <2>1, <2>3, <2>4 DEF WalkInv
<1>9. TornInv
  BY <1>1, <1>2, <1>3 DEF TornInv, EndsOpen
<1>10. pos \in 1 .. Len(text) + 1 /\ pc \in Stage
  BY <1>1, <1>3 DEF Stage
<1> QED
  BY <1>2, <1>4, <1>6, <1>7, <1>8, <1>9, <1>10 DEF IInv

LEMMA StutterKeeps ==
  ASSUME IInv, UNCHANGED vars
  PROVE  IInv'
<1>1. /\ UNCHANGED <<text, source, table, pc, pos, count, tokens, num, super, error>>
      /\ UNCHANGED <<cur, links, buttons, i, j, k, node>>
  BY DEF vars, input, parser, walk
<1>2. TokensInv'
  <2>1. TokensInv /\ pos \in Nat /\ pos' \in Nat /\ pos <= pos'
    BY <1>1 DEF IInv
  <2> QED
    BY <1>1, <2>1, TokensKept
<1>3. SuperInv'
  BY <1>1 DEF IInv, SuperInv, Reaches, Parent, Tokens
<1>4. CountInv'
  BY <1>1 DEF IInv, CountInv, Starts, Before, Covered
<1>5. WalkInv'
  BY <1>1 DEF IInv, WalkInv, Walking
<1>6. TornInv'
  BY <1>1 DEF IInv, TornInv, TornText, EndsOpen, Unclosed, IsOpen
<1> QED
  BY <1>1, <1>2, <1>3, <1>4, <1>5, <1>6 DEF IInv

LEMMA NextKeeps ==
  ASSUME IInv, [Next]_vars
  PROVE  IInv'
<1>1. json_parsing => IInv'
  BY EnterTableKeeps, EnterLinkKeeps, ReadButtonKeeps, ReadOtherKeeps, SetButtonKeeps,
     LeaveLinkKeeps, LeaveTableKeeps DEF json_parsing
<1> QED
  BY <1>1, ParseKeeps, StutterKeeps DEF Next

LEMMA InvariantHolds == Spec => []IInv
  BY InitHolds, NextKeeps, PTL DEF Spec

LEMMA TypesFollow ==
  ASSUME IInv
  PROVE  TypeOK
<1>1. /\ pc \in Stage /\ pos \in 1 .. Len(text) + 1 /\ Len(text) \in Nat
      /\ tokens \in Seq(Token) /\ Forest /\ Len(tokens) \in Nat
  BY DEF IInv, TokensInv, Forest
<1>2. {count, num} \subseteq 0 .. Len(text)
  <2>1. Cardinality(Starts) \in 0 .. Len(text)
    BY <1>1, StartsAre
  <2>2. count \in 0 .. Len(text) /\ num \in {0, Cardinality(Starts)}
    BY DEF IInv, CountInv
  <2> QED
    BY <1>1, <2>1, <2>2
<1>3. ASSUME NEW t \in DOMAIN tokens
      PROVE  /\ tokens[t].type \in {"object", "array", "str", "num"}
             /\ tokens[t].start \in 1 .. pos /\ tokens[t].end \in 0 .. pos
             /\ tokens[t].parent \in 0 .. t - 1
  <2>1. t \in Tokens
    BY DEF Tokens
  <2>2. tokens[t] \in Token
    BY <1>1
  <2>3. tokens[t].type \in {"object", "array", "str", "num"}
    BY <2>2 DEF Token
  <2>4. tokens[t].start \in 1 .. pos /\ tokens[t].end \in 0 .. pos
    BY <2>1 DEF IInv, TokensInv
  <2>5. tokens[t].parent \in 0 .. t - 1
    BY <1>1, <2>1 DEF Forest, Parent
  <2> QED
    BY <2>3, <2>4, <2>5
<1>4. pc # "end" => super \in 0 .. Len(tokens)
  BY DEF IInv, SuperInv
<1>5. /\ cur \in 0 .. Len(tokens) /\ (Walking => cur # 0)
      /\ {links, buttons} \subseteq 0 .. num
      /\ i \in 0 .. links + 1 /\ j \in 0 .. num + 1 /\ k \in 0 .. num + 1
      /\ node \in [Field -> Name \cup {"uninitialised"}]
  BY DEF IInv, WalkInv
<1> QED
  BY <1>1, <1>2, <1>3, <1>4, <1>5 DEF TypeOK, Stage

LEMMA NestingFollows ==
  ASSUME IInv
  PROVE  TokensNested
<1>1. Forest /\ Sized /\ error # "NOMEM"
  BY DEF IInv, TokensInv, CountInv
<1>2. Walking => Len(tokens) = num
  BY WalkHas
<1>3. ASSUME NEW t \in DOMAIN tokens
      PROVE  /\ tokens[t].size = Cardinality(Parts(t))
             /\ Parts(t) = {Part(t, n) : n \in 1 .. tokens[t].size}
  <2>1. t \in Tokens
    BY DEF Tokens
  <2> QED
    BY <1>1, <2>1, PartsFound DEF Sized
<1> QED
  BY <1>1, <1>2, <1>3 DEF TokensNested

-----------------------------------------------------------------------------
(* Theorems *)

\* Whatever the text is, complete or not, JSON or not: the places that
\* jsmn_parse and json_parser.c keep stay within the text and the tokens that are
\* in use, and json_parsing's cursor is on a token as long as it walks.
THEOREM TypeCorrect == Spec => []TypeOK
<1>1. IInv => TypeOK
  BY TypesFollow
<1> QED
  BY <1>1, InvariantHolds, PTL

\* Of any text the second pass of jsmn_parse takes exactly the tokens for which
\* the first one made room: it never fails for lack of memory and leaves none
\* unused.  The size of a token is the number of its parts, and json_skip_elem,
\* which knows only the sizes, finds each of them and nothing else.
THEOREM TokensAreNested == Spec => []TokensNested
<1>1. IInv => TokensNested
  BY NestingFollows
<1> QED
  BY <1>1, InvariantHolds, PTL

\* The text of an object that was cut anywhere is refused by json_parse_start:
\* json_parsing never walks over half of a link table.
THEOREM TornIsRefused == Spec => []TornRefused
<1>1. IInv => TornRefused
  BY DEF IInv, TornInv, TornRefused, Walking
<1> QED
  BY <1>1, InvariantHolds, PTL

=============================================================================
