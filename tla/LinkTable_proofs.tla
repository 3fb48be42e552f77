-------------------------- MODULE LinkTable_proofs --------------------------
(***************************************************************************)
(* The hash map behaves as a function, whatever the hash is; and the table *)
(* of links in force is the one last commanded, over lost power, colliding *)
(* hashes and a map replaced word by word.                                 *)
(***************************************************************************)
EXTENDS LinkTable, FunctionTheorems, FiniteSetTheorems, TLAPS

-----------------------------------------------------------------------------
(* The hash map *)

\* An initialised map is well-formed and empty.
LEMMA InitMap ==
  WellFormed(map_init) /\ \A k \in Key : MapGet(map_init, k) = {}
BY DEF WellFormed, IsMap, map_init, MapGet, GetRef

\* The index of a bucket lies in the array.
LEMMA BucketInArray ==
  ASSUME NEW m, WellFormed(m), m.nbuckets > 0, NEW k \in Key
  PROVE  BucketIdx(m, k) \in 0 .. m.nbuckets - 1 /\ BucketIdx(m, k) \in DOMAIN m.buckets
BY HashAssumption DEF WellFormed, BucketIdx

\* A map's nodes are well-typed, and a key has one node in the whole map.
LEMMA NodesUnique ==
  ASSUME NEW m, WellFormed(m)
  PROVE  /\ Nodes(m) \subseteq Node
         /\ \A x, y \in Nodes(m) : x.key = y.key => x = y
<1>1. Nodes(m) \subseteq Node
  BY DEF WellFormed, Nodes
<1>2. ASSUME NEW x \in Nodes(m), NEW y \in Nodes(m), x.key = y.key PROVE x = y
  <2>1. PICK p \in DOMAIN m.buckets : x \in m.buckets[p]
    BY DEF Nodes
  <2>2. PICK q \in DOMAIN m.buckets : y \in m.buckets[q]
    BY DEF Nodes
  <2>3. p = q
    BY <1>2, <2>1, <2>2 DEF WellFormed, BucketIdx
  <2> QED
    BY <1>2, <2>1, <2>2, <2>3 DEF WellFormed
<1> QED
  BY <1>1, <1>2

\* map_getref looks in one bucket and finds what is in the map.
LEMMA GetRefNodes ==
  ASSUME NEW m, WellFormed(m), NEW k \in Key
  PROVE  GetRef(m, k) = {x \in Nodes(m) : x.key = k}
<1>1. CASE m.nbuckets = 0
  BY <1>1 DEF GetRef, Nodes, WellFormed
<1>2. CASE m.nbuckets > 0
  <2>1. BucketIdx(m, k) \in DOMAIN m.buckets
    BY <1>2, BucketInArray
  <2>2. GetRef(m, k) = {x \in m.buckets[BucketIdx(m, k)] : x.key = k}
    BY <1>2 DEF GetRef
  <2>3. ASSUME NEW x \in Nodes(m), x.key = k
        PROVE  x \in m.buckets[BucketIdx(m, k)]
    <3>1. PICK p \in DOMAIN m.buckets : x \in m.buckets[p]
      BY DEF Nodes
    <3>2. p = BucketIdx(m, k)
      BY <2>3, <3>1 DEF WellFormed, BucketIdx
    <3> QED
      BY <3>1, <3>2
  <2> QED
    BY <2>1, <2>2, <2>3 DEF Nodes
<1> QED
  BY <1>1, <1>2 DEF WellFormed

\* A key has at most one node.
LEMMA GetRefUnique ==
  ASSUME NEW m, WellFormed(m), NEW k \in Key,
         NEW x \in GetRef(m, k), NEW y \in GetRef(m, k)
  PROVE  x = y
BY GetRefNodes, NodesUnique

\* map_resize keeps every node, in the bucket it then belongs to.
LEMMA ResizeKeeps ==
  ASSUME NEW m, WellFormed(m), NEW n \in Nat \ {0}
  PROVE  /\ WellFormed(Resize(m, n))
         /\ Nodes(Resize(m, n)) = Nodes(m)
         /\ Resize(m, n).nbuckets = n /\ Resize(m, n).nnodes = m.nnodes
<1> DEFINE r == Resize(m, n)
<1>1. /\ IsMap(r) /\ r.nbuckets = n /\ r.nnodes = m.nnodes
      /\ r.buckets = [b \in 0 .. n - 1 |-> {x \in Nodes(m) : Hash[x.key] % n = b}]
  <2> DEFINE bs == [b \in 0 .. n - 1 |-> {x \in Nodes(m) : Hash[x.key] % n = b}]
  <2>1. m = [buckets |-> m.buckets, nbuckets |-> m.nbuckets, nnodes |-> m.nnodes]
    BY DEF WellFormed, IsMap
  <2>2. r = [buckets |-> bs, nbuckets |-> n, nnodes |-> m.nnodes]
    <3> HIDE DEF bs
    <3>1. r = [m EXCEPT !.nbuckets = n, !.buckets = bs]
      BY DEF Resize, bs
    <3> QED
      BY <2>1, <3>1
  <2> HIDE DEF r, bs
  <2>3. r.buckets = bs /\ r.nbuckets = n /\ r.nnodes = m.nnodes
    BY <2>2
  <2> QED
    BY <2>2, <2>3 DEF IsMap, bs
<1>2. \A x \in Nodes(m) : Hash[x.key] % n \in 0 .. n - 1
  BY NodesUnique, HashAssumption DEF Node
<1>3. Nodes(r) = Nodes(m)
  <2>1. Nodes(r) = UNION {{x \in Nodes(m) : Hash[x.key] % n = b} : b \in 0 .. n - 1}
    BY <1>1 DEF Nodes
  <2> QED
    BY <1>2, <2>1
<1>4. r.buckets \in [0 .. r.nbuckets - 1 -> SUBSET Node]
  BY <1>1, NodesUnique
<1>5. \A b \in DOMAIN r.buckets : \A x \in r.buckets[b] :
        /\ BucketIdx(r, x.key) = b
        /\ \A y \in r.buckets[b] : x.key = y.key => x = y
  BY <1>1, NodesUnique DEF BucketIdx
<1> QED
  BY <1>1, <1>3, <1>4, <1>5 DEF WellFormed

\* The map has room for one more node once it has grown.
LEMMA GrowKeeps ==
  ASSUME NEW m, WellFormed(m)
  PROVE  /\ WellFormed(Grow(m))
         /\ Nodes(Grow(m)) = Nodes(m)
         /\ Grow(m).nbuckets > 0 /\ Grow(m).nnodes = m.nnodes
         /\ Grow(m).nbuckets =
              IF Full(m) THEN IF m.nbuckets > 0 THEN 2 * m.nbuckets ELSE 1
                         ELSE m.nbuckets
<1> DEFINE n == IF m.nbuckets > 0 THEN 2 * m.nbuckets ELSE 1
<1>1. m.nbuckets \in Nat /\ m.nnodes \in Nat
  BY DEF WellFormed
<1>2. n \in Nat \ {0}
  BY <1>1
<1>3. CASE Full(m)
  <2>1. Grow(m) = Resize(m, n)
    BY <1>3 DEF Grow
  <2>2. /\ WellFormed(Resize(m, n)) /\ Nodes(Resize(m, n)) = Nodes(m)
        /\ Resize(m, n).nbuckets = n /\ Resize(m, n).nnodes = m.nnodes
    BY <1>2, ResizeKeeps, Zenon
  <2> QED
    BY <1>2, <1>3, <2>1, <2>2
<1>4. CASE ~Full(m)
  BY <1>1, <1>4 DEF Grow, Full
<1> QED
  BY <1>3, <1>4

\* A new node comes into its bucket, if the key has none.
LEMMA AddKeeps ==
  ASSUME NEW m, WellFormed(m), m.nbuckets > 0,
         NEW x \in Node, GetRef(m, x.key) = {}
  PROVE  /\ WellFormed(AddNode(m, x))
         /\ Nodes(AddNode(m, x)) = Nodes(m) \cup {x}
         /\ AddNode(m, x).nbuckets = m.nbuckets
         /\ AddNode(m, x).nnodes = m.nnodes + 1
<1> DEFINE i == BucketIdx(m, x.key)
           bs == [m.buckets EXCEPT ![i] = @ \cup {x}]
           r == AddNode(m, x)
<1>1. x.key \in Key /\ i \in DOMAIN m.buckets
  BY BucketInArray DEF Node
<1>2. /\ IsMap(r) /\ r.buckets = bs
      /\ r.nbuckets = m.nbuckets /\ r.nnodes = m.nnodes + 1
  <2>1. m = [buckets |-> m.buckets, nbuckets |-> m.nbuckets, nnodes |-> m.nnodes]
    BY DEF WellFormed, IsMap
  <2>2. r = [m EXCEPT !.buckets = bs, !.nnodes = m.nnodes + 1]
    BY <2>1 DEF AddNode
  <2> HIDE DEF r, bs
  <2>3. r = [buckets |-> bs, nbuckets |-> m.nbuckets, nnodes |-> m.nnodes + 1]
    BY <2>1, <2>2
  <2>4. r.buckets = bs /\ r.nbuckets = m.nbuckets /\ r.nnodes = m.nnodes + 1
    BY <2>3
  <2> QED
    BY <2>3, <2>4 DEF IsMap
<1>3. m.buckets \in [0 .. m.nbuckets - 1 -> SUBSET Node]
  BY DEF WellFormed
<1>4. /\ bs \in [0 .. m.nbuckets - 1 -> SUBSET Node]
      /\ \A n \in DOMAIN bs :
           bs[n] = IF n = i THEN m.buckets[n] \cup {x} ELSE m.buckets[n]
  BY <1>1, <1>3
<1>5. Nodes(r) = Nodes(m) \cup {x}
  BY <1>1, <1>2, <1>3, <1>4 DEF Nodes
<1>6. \A y \in Nodes(m) : y.key # x.key
  BY <1>1, GetRefNodes
<1>7. \A n \in DOMAIN r.buckets : \A y \in r.buckets[n] :
        /\ BucketIdx(r, y.key) = n
        /\ \A z \in r.buckets[n] : y.key = z.key => y = z
  <2> SUFFICES ASSUME NEW n \in DOMAIN r.buckets, NEW y \in r.buckets[n]
               PROVE  /\ BucketIdx(r, y.key) = n
                      /\ \A z \in r.buckets[n] : y.key = z.key => y = z
    OBVIOUS
  <2>1. n \in DOMAIN m.buckets
    BY <1>2, <1>3, <1>4
  <2>2. \A z \in r.buckets[n] : z \in m.buckets[n] \/ (z = x /\ n = i)
    BY <1>2, <1>4
  <2>3. BucketIdx(r, y.key) = n
    BY <1>2, <2>1, <2>2 DEF BucketIdx, WellFormed
  <2>4. \A z \in m.buckets[n] : z \in Nodes(m)
    BY <2>1 DEF Nodes
  <2>5. ASSUME NEW z \in r.buckets[n], y.key = z.key PROVE y = z
    BY <1>6, <2>2, <2>4, <2>5, NodesUnique
  <2> QED
    BY <2>3, <2>5
<1>8. WellFormed(r)
  <2> HIDE DEF r, bs
  <2>1. m.nbuckets \in Nat /\ m.nnodes \in Nat
    BY DEF WellFormed
  <2> QED
    BY <1>2, <1>4, <1>7, <2>1 DEF WellFormed
<1> QED
  BY <1>2, <1>5, <1>8

NewValue(x, k, v) == IF x.key = k THEN [x EXCEPT !.value = v] ELSE x

LEMMA NewValueNode ==
  ASSUME NEW x \in Node, NEW k \in Key, NEW v \in Value
  PROVE  /\ NewValue(x, k, v) \in Node
         /\ NewValue(x, k, v).key = x.key
         /\ NewValue(x, k, v).value = IF x.key = k THEN v ELSE x.value
         /\ NewValue(x, k, v).room = x.room
BY DEF NewValue, Node

\* A new value comes into the node of its key.
LEMMA ReplaceKeeps ==
  ASSUME NEW m, WellFormed(m), m.nbuckets > 0, NEW k \in Key, NEW v \in Value
  PROVE  /\ WellFormed(Replace(m, k, v))
         /\ Nodes(Replace(m, k, v)) = {NewValue(x, k, v) : x \in Nodes(m)}
         /\ Replace(m, k, v).nbuckets = m.nbuckets
         /\ Replace(m, k, v).nnodes = m.nnodes
<1> DEFINE i == BucketIdx(m, k)
           bs == [m.buckets EXCEPT ![i] = {NewValue(x, k, v) : x \in @}]
           r == Replace(m, k, v)
<1>1. i \in DOMAIN m.buckets
  BY BucketInArray
<1>2. /\ IsMap(r) /\ r.buckets = bs
      /\ r.nbuckets = m.nbuckets /\ r.nnodes = m.nnodes
  <2>1. m = [buckets |-> m.buckets, nbuckets |-> m.nbuckets, nnodes |-> m.nnodes]
    BY DEF WellFormed, IsMap
  <2>2. r = [m EXCEPT !.buckets = bs]
    BY <2>1 DEF Replace, NewValue
  <2> HIDE DEF r, bs
  <2>3. r = [buckets |-> bs, nbuckets |-> m.nbuckets, nnodes |-> m.nnodes]
    BY <2>1, <2>2
  <2>4. r.buckets = bs /\ r.nbuckets = m.nbuckets /\ r.nnodes = m.nnodes
    BY <2>3
  <2> QED
    BY <2>3, <2>4 DEF IsMap
<1>3. m.buckets \in [0 .. m.nbuckets - 1 -> SUBSET Node]
  BY DEF WellFormed
<1>4. \A n \in DOMAIN m.buckets : n # i =>
        \A x \in m.buckets[n] : NewValue(x, k, v) = x
  BY DEF WellFormed, NewValue
<1>5. /\ DOMAIN bs = DOMAIN m.buckets
      /\ \A n \in DOMAIN m.buckets :
           bs[n] = {NewValue(x, k, v) : x \in m.buckets[n]}
  BY <1>1, <1>3, <1>4
<1>6. bs \in [0 .. m.nbuckets - 1 -> SUBSET Node]
  <2> HIDE DEF bs
  <2>1. ASSUME NEW n \in DOMAIN m.buckets PROVE bs[n] \in SUBSET Node
    <3>1. bs[n] = {NewValue(x, k, v) : x \in m.buckets[n]}
      BY <1>5
    <3>2. \A x \in m.buckets[n] : x \in Node
      BY <1>3
    <3>3. \A x \in m.buckets[n] : NewValue(x, k, v) \in Node
      BY <3>2, NewValueNode
    <3> QED
      BY <3>1, <3>3
  <2>2. bs = [n \in DOMAIN m.buckets |-> bs[n]]
    BY <1>3 DEF bs
  <2> QED
    BY <1>3, <2>1, <2>2
<1>7. Nodes(r) = {NewValue(x, k, v) : x \in Nodes(m)}
  BY <1>2, <1>5 DEF Nodes
<1>8. \A n \in DOMAIN r.buckets : \A y \in r.buckets[n] :
        /\ BucketIdx(r, y.key) = n
        /\ \A z \in r.buckets[n] : y.key = z.key => y = z
  <2> SUFFICES ASSUME NEW n \in DOMAIN r.buckets,
                      NEW y \in r.buckets[n], NEW z \in r.buckets[n]
               PROVE  /\ BucketIdx(r, y.key) = n
                      /\ y.key = z.key => y = z
    OBVIOUS
  <2>1. n \in DOMAIN m.buckets
    BY <1>2, <1>5
  <2>2. PICK y0 \in m.buckets[n] : y = NewValue(y0, k, v)
    BY <1>2, <1>5, <2>1
  <2>3. PICK z0 \in m.buckets[n] : z = NewValue(z0, k, v)
    BY <1>2, <1>5, <2>1
  <2>4. y.key = y0.key /\ z.key = z0.key
    BY <1>3, <2>1, <2>2, <2>3, NewValueNode
  <2>5. BucketIdx(r, y.key) = n
    BY <1>2, <2>1, <2>4 DEF BucketIdx, WellFormed
  <2>6. y.key = z.key => y0 = z0
    BY <2>1, <2>4 DEF WellFormed
  <2> QED
    BY <2>2, <2>3, <2>5, <2>6
<1>9. WellFormed(r)
  <2> HIDE DEF r, bs
  <2>1. m.nbuckets \in Nat /\ m.nnodes \in Nat
    BY DEF WellFormed
  <2> QED
    BY <1>2, <1>6, <1>8, <2>1 DEF WellFormed
<1> QED
  BY <1>2, <1>7, <1>9

\* map_set_ is the update of a function: the key then has the value, unless
\* there was no memory for it, and no other key is touched.  This holds for
\* every hash, so whatever collides, and also when the map grows.
THEOREM MapSetUpdates ==
  ASSUME NEW m, WellFormed(m), NEW k \in Key, NEW v \in Value,
         NEW vsize \in Nat, NEW got
  PROVE  /\ WellFormed(MapSet(m, k, v, vsize, got))
         /\ \A x \in Key :
              MapGet(MapSet(m, k, v, vsize, got), x) =
                IF x = k /\ ~SetFails(m, k, got) THEN {v} ELSE MapGet(m, x)
<1> DEFINE r == MapSet(m, k, v, vsize, got)
<1>1. CASE GetRef(m, k) # {}
  <2>1. r = Replace(m, k, v) /\ ~SetFails(m, k, got)
    BY <1>1 DEF MapSet, SetFails
  <2>2. m.nbuckets > 0
    BY <1>1 DEF GetRef, WellFormed
  <2>3. WellFormed(r) /\ Nodes(r) = {NewValue(x, k, v) : x \in Nodes(m)}
    BY <2>1, <2>2, ReplaceKeeps
  <2>4. ASSUME NEW x \in Key
        PROVE  MapGet(r, x) = IF x = k THEN {v} ELSE MapGet(m, x)
    <3> HIDE DEF r
    <3>1. /\ GetRef(r, x) = {y \in Nodes(r) : y.key = x}
          /\ GetRef(m, x) = {y \in Nodes(m) : y.key = x}
          /\ GetRef(m, k) = {y \in Nodes(m) : y.key = k}
      BY <2>3, GetRefNodes
    <3>2. \A y \in Nodes(m) :
            /\ NewValue(y, k, v).key = y.key
            /\ NewValue(y, k, v).value = IF y.key = k THEN v ELSE y.value
      BY NodesUnique, NewValueNode
    <3>3. GetRef(r, x) = {NewValue(y, k, v) : y \in GetRef(m, x)}
      BY <2>3, <3>1, <3>2
    <3>4. MapGet(r, x) = {NewValue(y, k, v).value : y \in GetRef(m, x)}
      BY <3>3 DEF MapGet
    <3>5. CASE x = k
      <4>1. \A y \in GetRef(m, x) : NewValue(y, k, v).value = v
        BY <3>1, <3>2, <3>5
      <4> QED
        BY <1>1, <3>4, <3>5, <4>1
    <3>6. CASE x # k
      <4>1. \A y \in GetRef(m, x) : NewValue(y, k, v).value = y.value
        BY <3>1, <3>2, <3>6
      <4> QED
        BY <3>4, <3>6, <4>1 DEF MapGet
    <3> QED
      BY <3>5, <3>6
  <2> QED
    BY <2>1, <2>3, <2>4
<1>2. CASE SetFails(m, k, got)
  BY <1>2 DEF MapSet, SetFails
<1>3. CASE GetRef(m, k) = {} /\ ~SetFails(m, k, got)
  <2> DEFINE g == Grow(m)
             n == [key |-> k, value |-> v, room |-> vsize]
  <2>1. r = AddNode(g, n)
    BY <1>3 DEF MapSet
  <2>2. n \in Node /\ n.key = k /\ n.value = v
    BY DEF Node, Value
  <2>3. WellFormed(g) /\ Nodes(g) = Nodes(m) /\ g.nbuckets > 0
    BY GrowKeeps
  <2>4. GetRef(g, n.key) = {}
    <3> HIDE DEF g, n
    <3> QED
      BY <1>3, <2>2, <2>3, GetRefNodes
  <2>5. WellFormed(r) /\ Nodes(r) = Nodes(m) \cup {n}
    <3> HIDE DEF r, g, n
    <3> QED
      BY <2>1, <2>2, <2>3, <2>4, AddKeeps
  <2>6. ASSUME NEW x \in Key
        PROVE  MapGet(r, x) = IF x = k THEN {v} ELSE MapGet(m, x)
    <3> HIDE DEF r, g, n
    <3>1. /\ GetRef(r, x) = {y \in Nodes(r) : y.key = x}
          /\ GetRef(m, x) = {y \in Nodes(m) : y.key = x}
      BY <2>5, GetRefNodes
    <3>2. GetRef(r, x) = IF x = k THEN {n} ELSE GetRef(m, x)
      BY <1>3, <2>2, <2>5, <3>1
    <3> QED
      BY <2>2, <3>2 DEF MapGet
  <2> QED
    BY <1>3, <2>5, <2>6
<1> QED
  BY <1>1, <1>2, <1>3

-----------------------------------------------------------------------------
(* Room for the nodes *)

LEMMA PowerOfTwoStart == PowerOfTwo(1)
BY DEF PowerOfTwo

LEMMA PowerOfTwoDoubled ==
  ASSUME NEW n \in Nat \ {0}, PowerOfTwo(n)
  PROVE  PowerOfTwo(2 * n)
<1> SUFFICES ASSUME NEW S \in SUBSET (1 .. 2 * n), 1 \in S,
                    \A x \in S : 2 * x <= 2 * n => 2 * x \in S
             PROVE  2 * n \in S
  BY DEF PowerOfTwo
<1> DEFINE T == S \cap (1 .. n)
<1>1. T \in SUBSET (1 .. n) /\ 1 \in T
  OBVIOUS
<1>2. ASSUME NEW x \in T, 2 * x <= n PROVE 2 * x \in T
  BY <1>2
<1>3. n \in T
  BY <1>1, <1>2 DEF PowerOfTwo
<1> QED
  BY <1>3

\* Nodes whose values are replaced are as many as before.
LEMMA SameNumber ==
  ASSUME NEW m, WellFormed(m), IsFiniteSet(Nodes(m)),
         NEW k \in Key, NEW v \in Value
  PROVE  LET T == {NewValue(x, k, v) : x \in Nodes(m)} IN
         IsFiniteSet(T) /\ Cardinality(T) = Cardinality(Nodes(m))
<1> DEFINE T == {NewValue(x, k, v) : x \in Nodes(m)}
           f == [x \in Nodes(m) |-> NewValue(x, k, v)]
<1>1. \A x, y \in Nodes(m) : NewValue(x, k, v) = NewValue(y, k, v) => x = y
  <2>1. \A x \in Nodes(m) : NewValue(x, k, v).key = x.key
    BY NodesUnique, NewValueNode
  <2> QED
    BY <2>1, NodesUnique
<1>2. f \in Bijection(Nodes(m), T)
  <2>1. f \in [Nodes(m) -> T]
    OBVIOUS
  <2>2. \A y \in T : \E x \in Nodes(m) : f[x] = y
    OBVIOUS
  <2>3. \A x, y \in Nodes(m) : f[x] = f[y] => x = y
    BY <1>1
  <2> HIDE DEF f, T
  <2> QED
    BY <2>1, <2>2, <2>3, Fun_IsBij
<1> QED
  BY <1>2, FS_Bijection DEF ExistsBijection

LEMMA CountedInit ==
  Nodes(map_init) = {} /\ Counted(map_init)
<1>1. Nodes(map_init) = {} /\ map_init.nbuckets = 0 /\ map_init.nnodes = 0
  BY DEF Nodes, map_init
<1> QED
  BY <1>1, FS_EmptySet DEF Counted

\* map_set_ keeps the count of the nodes and has a bucket for each of them;
\* the room for a value is that of the first value of its key.
THEOREM MapSetCounts ==
  ASSUME NEW m, WellFormed(m), IsFiniteSet(Nodes(m)), Counted(m),
         NEW k \in Key, NEW v \in Value, NEW vsize \in Nat, NEW got
  PROVE  LET r == MapSet(m, k, v, vsize, got) IN
         /\ IsFiniteSet(Nodes(r)) /\ Counted(r)
         /\ \A y \in Nodes(r) :
              \/ \E x \in Nodes(m) : y.key = x.key /\ y.room = x.room
              \/ y.key = k /\ y.room = vsize
<1> DEFINE r == MapSet(m, k, v, vsize, got)
<1>1. CASE GetRef(m, k) # {}
  <2>1. r = Replace(m, k, v) /\ m.nbuckets > 0
    BY <1>1 DEF MapSet, GetRef, WellFormed
  <2>2. /\ Nodes(r) = {NewValue(x, k, v) : x \in Nodes(m)}
        /\ r.nbuckets = m.nbuckets /\ r.nnodes = m.nnodes
    BY <2>1, ReplaceKeeps
  <2>3. \A x \in Nodes(m) : /\ NewValue(x, k, v).key = x.key
                            /\ NewValue(x, k, v).room = x.room
    BY NodesUnique, NewValueNode
  <2>4. IsFiniteSet(Nodes(r)) /\ Counted(r)
    <3> HIDE DEF r
    <3> QED
      BY <2>2, SameNumber DEF Counted
  <2>5. \A y \in Nodes(r) : \E x \in Nodes(m) : y.key = x.key /\ y.room = x.room
    <3> HIDE DEF r
    <3> QED
      BY <2>2, <2>3
  <2> QED
    BY <2>4, <2>5
<1>2. CASE SetFails(m, k, got)
  BY <1>2 DEF MapSet, SetFails
<1>3. CASE GetRef(m, k) = {} /\ ~ SetFails(m, k, got)
  <2> DEFINE g == Grow(m)
             n == [key |-> k, value |-> v, room |-> vsize]
  <2>1. r = AddNode(g, n)
    BY <1>3 DEF MapSet
  <2>2. n \in Node /\ n.key = k /\ n.room = vsize
    BY DEF Node, Value
  <2>3. /\ WellFormed(g) /\ Nodes(g) = Nodes(m) /\ g.nbuckets > 0
        /\ g.nnodes = m.nnodes
        /\ g.nbuckets =
             IF Full(m) THEN IF m.nbuckets > 0 THEN 2 * m.nbuckets ELSE 1
                        ELSE m.nbuckets
    BY GrowKeeps
  <2> HIDE DEF r, g, n
  <2>4. GetRef(g, n.key) = {} /\ n \notin Nodes(m)
    BY <1>3, <2>2, <2>3, GetRefNodes
  <2>5. /\ Nodes(r) = Nodes(m) \cup {n}
        /\ r.nbuckets = g.nbuckets /\ r.nnodes = m.nnodes + 1
    BY <2>1, <2>2, <2>3, <2>4, AddKeeps
  <2>6. IsFiniteSet(Nodes(r)) /\ r.nnodes = Cardinality(Nodes(r))
    BY <2>4, <2>5, FS_AddElement DEF Counted
  <2>7. /\ m.nnodes \in Nat /\ m.nbuckets \in Nat /\ m.nnodes <= m.nbuckets
        /\ m.nbuckets > 0 => PowerOfTwo(m.nbuckets)
    BY DEF WellFormed, Counted
  <2>8. r.nnodes <= r.nbuckets
    BY <2>3, <2>5, <2>7 DEF Full
  <2>9. PowerOfTwo(r.nbuckets)
    BY <2>3, <2>5, <2>7, PowerOfTwoStart, PowerOfTwoDoubled DEF Full
  <2>10. /\ IsFiniteSet(Nodes(r)) /\ Counted(r)
         /\ \A y \in Nodes(r) : y \in Nodes(m) \/ (y.key = k /\ y.room = vsize)
    BY <2>2, <2>5, <2>6, <2>8, <2>9 DEF Counted
  <2> USE DEF r
  <2> QED
    BY <2>10
<1> QED
  BY <1>1, <1>2, <1>3


-----------------------------------------------------------------------------
(* What json_parsing has to put into the map *)

Text == Seq(Seq(Key))

LEMMA OthersType ==
  ASSUME NEW t \in Text, NEW i \in 1 .. Len(t), NEW j \in 1 .. Len(t[i])
  PROVE  /\ t[i][j] \in Key /\ Others(t[i], j) \in Value
         /\ Len(Others(t[i], j)) = Len(t[i]) - 1
<1>1. t[i] \in Seq(Key)
  BY DEF Text
<1>2. t[i][j] \in Key
  BY <1>1
<1>3. SubSeq(t[i], 1, j - 1) \in Seq(Key)
  BY <1>1
<1>4. SubSeq(t[i], j + 1, Len(t[i])) \in Seq(Key)
  BY <1>1
<1>5. /\ Len(SubSeq(t[i], 1, j - 1)) = j - 1
      /\ Len(SubSeq(t[i], j + 1, Len(t[i]))) = Len(t[i]) - j
  BY <1>1
<1>6. ASSUME NEW a \in Seq(Key), NEW b \in Seq(Key)
      PROVE  a \o b \in Seq(Key) /\ Len(a \o b) = Len(a) + Len(b)
  OBVIOUS
<1>7. Others(t[i], j) \in Value
  BY <1>3, <1>4, <1>6 DEF Others, Value
<1>8. Len(Others(t[i], j)) = (j - 1) + (Len(t[i]) - j)
  BY <1>3, <1>4, <1>5, <1>6 DEF Others
<1>9. Len(t[i]) \in Nat
  BY <1>1
<1> QED
  BY <1>2, <1>7, <1>8, <1>9

\* The places of a table, in the form the proofs use.
LEMMA PlacesOf ==
  ASSUME NEW t \in Text, NEW k \in Key, NEW p
  PROVE  /\ \A q \in Places(t, k, p) :
              /\ q = <<q[1], q[2]>>
              /\ q[1] \in 1 .. Len(t) /\ q[2] \in 1 .. Len(t[q[1]])
              /\ t[q[1]][q[2]] = k
              /\ q[1] < p[1] \/ (q[1] = p[1] /\ q[2] < p[2])
         /\ \A i \in 1 .. Len(t) : \A j \in 1 .. Len(t[i]) :
              t[i][j] = k /\ (i < p[1] \/ (i = p[1] /\ j < p[2]))
                => <<i, j>> \in Places(t, k, p)
<1>1. DOMAIN t = 1 .. Len(t) /\ \A i \in 1 .. Len(t) : DOMAIN t[i] = 1 .. Len(t[i])
  BY DEF Text
<1>2. ASSUME NEW q \in Places(t, k, p)
      PROVE  /\ q = <<q[1], q[2]>>
             /\ q[1] \in 1 .. Len(t) /\ q[2] \in 1 .. Len(t[q[1]])
             /\ t[q[1]][q[2]] = k
             /\ q[1] < p[1] \/ (q[1] = p[1] /\ q[2] < p[2])
  <2>1. PICK i \in DOMAIN t : q \in {i} \X DOMAIN t[i]
    BY DEF Places
  <2>2. q = <<q[1], q[2]>> /\ q[1] = i /\ q[2] \in DOMAIN t[i]
    BY <2>1
  <2> QED
    BY <1>1, <2>1, <2>2 DEF Places
<1>3. ASSUME NEW i \in 1 .. Len(t), NEW j \in 1 .. Len(t[i]), t[i][j] = k,
             i < p[1] \/ (i = p[1] /\ j < p[2])
      PROVE  <<i, j>> \in Places(t, k, p)
  <2>1. <<i, j>> \in {i} \X DOMAIN t[i]
    BY <1>1
  <2>2. <<i, j>> \in UNION {{x} \X DOMAIN t[x] : x \in DOMAIN t}
    BY <1>1, <2>1
  <2> QED
    BY <1>3, <2>2 DEF Places
<1> QED
  BY <1>2, <1>3

\* Nothing comes before the first place.
LEMMA LinkedStart ==
  ASSUME NEW t \in Text, NEW k \in Key
  PROVE  Linked(t, k, <<1, 1>>) = {}
<1>1. Places(t, k, <<1, 1>>) = {}
  BY PlacesOf
<1> QED
  BY <1>1 DEF Linked

\* The end of a link is the start of the next one.
LEMMA LinkedNext ==
  ASSUME NEW t \in Text, NEW k \in Key, NEW i \in 1 .. Len(t),
         NEW j \in Nat, j > Len(t[i])
  PROVE  Linked(t, k, <<i + 1, 1>>) = Linked(t, k, <<i, j>>)
<1>1. \A n \in 1 .. Len(t) : Len(t[n]) \in Nat
  BY DEF Text
<1>2. Len(t) \in Nat
  BY DEF Text
<1>3. Places(t, k, <<i + 1, 1>>) \subseteq Places(t, k, <<i, j>>)
  <2> SUFFICES ASSUME NEW q \in Places(t, k, <<i + 1, 1>>)
               PROVE  q \in Places(t, k, <<i, j>>)
    OBVIOUS
  <2>1. /\ q = <<q[1], q[2]>>
        /\ q[1] \in 1 .. Len(t) /\ q[2] \in 1 .. Len(t[q[1]])
        /\ t[q[1]][q[2]] = k
        /\ q[1] < i + 1 \/ (q[1] = i + 1 /\ q[2] < 1)
    BY SMTT(30), PlacesOf
  <2>2. q[1] < i \/ (q[1] = i /\ q[2] < j)
    <3>1. q[1] \in 1 .. Len(t) /\ q[2] \in Nat /\ q[2] >= 1 /\ i \in Nat
      BY <1>1, <1>2, <2>1
    <3>2. q[1] = i => q[2] < j
      BY <1>1, <2>1, <3>1
    <3> QED BY <1>2, <2>1, <3>1, <3>2
  <2>3. <<q[1], q[2]>> \in Places(t, k, <<i, j>>)
    BY <2>1, <2>2, PlacesOf
  <2> QED
    BY <2>1, <2>3
<1>4. Places(t, k, <<i, j>>) \subseteq Places(t, k, <<i + 1, 1>>)
  <2> SUFFICES ASSUME NEW q \in Places(t, k, <<i, j>>)
               PROVE  q \in Places(t, k, <<i + 1, 1>>)
    OBVIOUS
  <2>1. /\ q = <<q[1], q[2]>>
        /\ q[1] \in 1 .. Len(t) /\ q[2] \in 1 .. Len(t[q[1]])
        /\ t[q[1]][q[2]] = k
        /\ q[1] < i \/ (q[1] = i /\ q[2] < j)
    BY PlacesOf
  <2>2. q[1] < i + 1
    BY <1>2, <2>1
  <2>3. <<q[1], q[2]>> \in Places(t, k, <<i + 1, 1>>)
    BY <2>1, <2>2, PlacesOf
  <2> QED
    BY <2>1, <2>3
<1> QED
  BY <1>3, <1>4 DEF Linked

\* A button that is passed has its links replaced, any other one keeps them.
LEMMA LinkedStep ==
  ASSUME NEW t \in Text, NEW k \in Key,
         NEW i \in 1 .. Len(t), NEW j \in 1 .. Len(t[i])
  PROVE  Linked(t, k, <<i, j + 1>>) =
           IF t[i][j] = k THEN {Others(t[i], j)} ELSE Linked(t, k, <<i, j>>)
<1> DEFINE P == Places(t, k, <<i, j + 1>>)
           Q == Places(t, k, <<i, j>>)
<1>1. \A n \in 1 .. Len(t) : Len(t[n]) \in Nat
  BY DEF Text
<1>2. Len(t) \in Nat
  BY DEF Text
<1>3. ASSUME NEW q \in Q PROVE q \in P
  <2>1. /\ q = <<q[1], q[2]>>
        /\ q[1] \in 1 .. Len(t) /\ q[2] \in 1 .. Len(t[q[1]])
        /\ t[q[1]][q[2]] = k
        /\ q[1] < i \/ (q[1] = i /\ q[2] < j)
    BY <1>3, PlacesOf
  <2>2. q[1] < i \/ (q[1] = i /\ q[2] < j + 1)
    BY <1>1, <1>2, <2>1
  <2>3. <<q[1], q[2]>> \in P
    BY <2>1, <2>2, PlacesOf
  <2> QED
    BY <2>1, <2>3
<1>4. ASSUME NEW q \in P PROVE q \in Q \/ q = <<i, j>>
  <2>1. /\ q = <<q[1], q[2]>>
        /\ q[1] \in 1 .. Len(t) /\ q[2] \in 1 .. Len(t[q[1]])
        /\ t[q[1]][q[2]] = k
        /\ q[1] < i \/ (q[1] = i /\ q[2] < j + 1)
    BY <1>4, PlacesOf
  <2>2. q[1] < i \/ (q[1] = i /\ q[2] < j) \/ (q[1] = i /\ q[2] = j)
    BY <1>1, <1>2, <2>1
  <2>3. CASE q[1] = i /\ q[2] = j
    BY <2>1, <2>3
  <2>4. CASE q[1] < i \/ (q[1] = i /\ q[2] < j)
    <3>1. <<q[1], q[2]>> \in Q
      BY <2>1, <2>4, PlacesOf
    <3> QED
      BY <2>1, <3>1
  <2> QED
    BY <2>2, <2>3, <2>4
<1>5. CASE t[i][j] # k
  <2>1. <<i, j>> \notin P
    <3>1. SUFFICES ASSUME <<i, j>> \in P PROVE FALSE
      OBVIOUS
    <3>2. t[<<i, j>>[1]][<<i, j>>[2]] = k
      BY <3>1, PlacesOf
    <3> QED
      BY <1>5, <3>2
  <2>2. P = Q
    BY <1>3, <1>4, <2>1
  <2> QED
    BY <1>5, <2>2 DEF Linked
<1>6. CASE t[i][j] = k
  <2>1. <<i, j>> \in P
    BY <1>2, <1>6, PlacesOf
  <2>2. \A r \in P : r[1] \in Nat /\ r[2] \in Nat
                     /\ (r[1] < i \/ (r[1] = i /\ r[2] <= j))
    <3> SUFFICES ASSUME NEW r \in P
                 PROVE  /\ r[1] \in Nat /\ r[2] \in Nat
                        /\ r[1] < i \/ (r[1] = i /\ r[2] <= j)
      OBVIOUS
    <3>1. /\ r[1] \in 1 .. Len(t) /\ r[2] \in 1 .. Len(t[r[1]])
          /\ r[1] < i \/ (r[1] = i /\ r[2] < j + 1)
      BY PlacesOf
    <3> QED
      BY <1>1, <1>2, <3>1
  <2> HIDE DEF P
  <2> DEFINE B == {q \in P : \A r \in P :
                     r[1] < q[1] \/ (r[1] = q[1] /\ r[2] <= q[2])}
  <2>3. <<i, j>> \in B
    BY <2>1, <2>2
  <2>4. ASSUME NEW q \in B PROVE q[1] = i /\ q[2] = j
    <3>1. <<i, j>>[1] < q[1] \/ (<<i, j>>[1] = q[1] /\ <<i, j>>[2] <= q[2])
      BY <2>1, <2>4
    <3>2. q[1] \in Nat /\ q[2] \in Nat /\ (q[1] < i \/ (q[1] = i /\ q[2] <= j))
      BY <2>2, <2>4
    <3> QED
      BY <3>1, <3>2
  <2>5. {Others(t[q[1]], q[2]) : q \in B} = {Others(t[i], j)}
    BY <2>3, <2>4
  <2> QED
    BY <1>6, <2>5 DEF Linked, P
<1> QED
  BY <1>5, <1>6

-----------------------------------------------------------------------------
(* The invariant *)

\* The map holds what the table has before a place, as far as memory went.
Holds(m, t, p) ==
  \A k \in Key :
    /\ MapGet(m, k) \subseteq Linked(t, k, p)
    /\ ~memoryFailed => MapGet(m, k) = Linked(t, k, p)

ParseInv ==
  pc \in {"start", "parse"} =>
    /\ at = <<at[1], at[2]>> /\ at[2] \in Nat \ {0}
    /\ \/ at[1] \in 1 .. Len(item)
       \/ at = TheEnd(item)
    /\ Holds(new, item, at)

CopyInv ==
  pc = "copy" =>
    /\ todo # {}
    /\ Holds(new, item, TheEnd(item))
    /\ \A w \in Word : map[w] = IF w \in todo THEN replaced[w] ELSE new[w]

\* The file follows the table last commanded, and so does the table in use,
\* but for a boot with a torn file.
FileInv ==
  ~flashFailed =>
    /\ pc \in {"run", "write", "start", "parse", "copy", "wild"} =>
         \/ item = last
         \/ item = <<>> /\ file = "torn" /\ pc \notin {"write", "start"}
    /\ pc = "write" => file = "torn"
    /\ pc # "write" =>
         \/ file = "absent" /\ last = <<>>
         \/ file = "whole" /\ content = last
         \/ file = "torn" /\ interrupted

RunInv ==
  /\ pc # "copy" => todo = {}
  /\ pc = "run" => Holds(map, item, TheEnd(item))
  /\ pc = "boot" => item = <<>> /\ map = map_init /\ ~memoryFailed
  /\ pc = "panic" => \/ interrupted \/ flashFailed \/ memoryFailed
                     \/ last \notin OneLine \cap Strict

Inv == TypeOK /\ IsMap(map) /\ ParseInv /\ CopyInv /\ FileInv /\ RunInv

LEMMA TableText == Tables \cup {<<>>} \subseteq Text
<1>1. <<>> \in Seq(Seq(Key))
  OBVIOUS
<1> QED
  BY <1>1, TableAssumption DEF Text

\* The size of a value is a number, and depends on the link and on the button.
LEMMA VSizeType ==
  ASSUME NEW t \in Tables \cup {<<>>}, NEW i \in 1 .. Len(t),
         NEW j \in 1 .. Len(t[i])
  PROVE  VSize(t[i], j) \in Nat
<1>1. t \in Text /\ t \in Tables
  BY TableText DEF Text
<1>2. i \in DOMAIN t /\ j \in DOMAIN t[i]
  BY <1>1 DEF Text
<1> QED
  BY <1>1, <1>2, NameAssumption

LEMMA VSizeSame ==
  ASSUME NEW link, NEW i, NEW j, link[i] = link[j]
  PROVE  VSize(link, i) = VSize(link, j)
BY DEF VSize

\* A map that has been initialised holds what comes before the first place.
LEMMA HoldsStart ==
  ASSUME NEW t \in Text
  PROVE  \A k \in Key : MapGet(map_init, k) = Linked(t, k, <<1, 1>>)
BY InitMap, LinkedStart

LEMMA HoldsNothing ==
  \A k \in Key : MapGet(map_init, k) = Linked(<<>>, k, TheEnd(<<>>))
<1>1. TheEnd(<<>>) = <<1, 1>>
  BY DEF TheEnd
<1> QED
  BY <1>1, HoldsStart, TableText

LEMMA StartParseInv ==
  ASSUME TypeOK, NEW t \in Tables \cup {<<>>}, StartParse(t),
         pc' \in {"start", "parse"}
  PROVE  /\ item' = t
         /\ at' \in Nat \X Nat
         /\ WellFormed(new')
         /\ ParseInv'
<1>1. item' = t /\ at' = <<1, 1>> /\ new' = map_init
  BY DEF StartParse
<1>2. t \in Text /\ Len(t) \in Nat
  BY TableText DEF Text
<1>3. 1 \in 1 .. Len(t) \/ <<1, 1>> = TheEnd(t)
  BY <1>2 DEF TheEnd
<1>4. Holds(new, item, at)'
  BY <1>1, <1>2, HoldsStart DEF Holds
<1>5. ParseInv'
  BY <1>1, <1>3, <1>4 DEF ParseInv
<1> QED
  BY <1>1, <1>5, InitMap

LEMMA InitInv == Init => Inv
<1> SUFFICES ASSUME Init PROVE Inv
  OBVIOUS
<1>1. WellFormed(new) /\ WellFormed(replaced) /\ WellFormed(map)
  BY InitMap DEF Init
<1>2. TypeOK
  <2>1. 0 \in 0 .. MaxCommands /\ 0 \in 0 .. MaxRestarts /\ 0 \in 0 .. MaxFailures
    BY BoundAssumption
  <2>2. <<1, 1>> \in Nat \X Nat
    OBVIOUS
  <2> QED
    BY <1>1, <2>1, <2>2 DEF Init, TypeOK
<1>3. IsMap(map)
  BY <1>1 DEF WellFormed
<1> QED
  BY <1>2, <1>3 DEF Init, Inv, ParseInv, CopyInv, FileInv, RunInv

LEMMA BootWithoutFileInv == Inv /\ BootWithoutFile => Inv'
<1> SUFFICES ASSUME Inv, BootWithoutFile PROVE Inv'
  OBVIOUS
<1> USE DEF Inv, BootWithoutFile, flash, counters, history
<1>1. TypeOK'
  BY DEF TypeOK
<1>2. ParseInv' /\ CopyInv'
  BY DEF ParseInv, CopyInv
<1>3. FileInv'
  BY DEF FileInv, RunInv
<1>4. RunInv'
  <2>1. Holds(map, item, TheEnd(item))'
    BY HoldsNothing DEF RunInv, Holds
  <2> QED
    BY <2>1 DEF RunInv
<1> QED
  BY <1>1, <1>2, <1>3, <1>4

LEMMA BootWithFileInv == Inv /\ BootWithFile => Inv'
<1> SUFFICES ASSUME Inv, BootWithFile PROVE Inv'
  OBVIOUS
<1> USE DEF Inv, BootWithFile, flash, counters, history
<1>1. content \in Tables \cup {<<>>}
  BY DEF TypeOK
<1>2. /\ pc' = "start" /\ item' = content /\ memoryFailed' = FALSE
      /\ at' \in Nat \X Nat /\ WellFormed(new') /\ ParseInv'
  BY <1>1, StartParseInv DEF StartParse
<1>3. TypeOK'
  BY <1>2 DEF TypeOK
<1>4. CopyInv' /\ RunInv'
  BY <1>2 DEF CopyInv, RunInv
<1>5. FileInv'
  BY <1>2 DEF FileInv
<1> QED
  BY <1>2, <1>3, <1>4, <1>5

LEMMA BootWithTornFileInv == Inv /\ BootWithTornFile => Inv'
<1> SUFFICES ASSUME Inv, BootWithTornFile PROVE Inv'
  OBVIOUS
<1> USE DEF Inv, BootWithTornFile, flash, counters, history
<1>1. /\ pc' = "parse" /\ item' = <<>> /\ memoryFailed' = FALSE
      /\ at' \in Nat \X Nat /\ WellFormed(new') /\ ParseInv'
  BY StartParseInv DEF StartParse
<1>2. TypeOK'
  BY <1>1 DEF TypeOK
<1>3. CopyInv' /\ RunInv'
  BY <1>1 DEF CopyInv, RunInv
<1>4. FileInv'
  BY <1>1 DEF FileInv
<1> QED
  BY <1>1, <1>2, <1>3, <1>4

LEMMA BootPanicsInv == Inv /\ BootPanics => Inv'
<1> SUFFICES ASSUME Inv, BootPanics PROVE Inv'
  OBVIOUS
<1> USE DEF Inv, BootPanics, memory, flash, counters, history
<1>1. TypeOK'
  BY DEF TypeOK
<1>2. ParseInv' /\ CopyInv' /\ FileInv'
  BY DEF ParseInv, CopyInv, FileInv
<1>3. RunInv'
  BY DEF RunInv, FileInv
<1> QED
  BY <1>1, <1>2, <1>3

\* Memory is forgotten, the file is kept.
LEMMA ForgetInv ==
  ASSUME Inv, Forget, UNCHANGED <<flash, last, flashFailed, commands, failures>>,
         restarts' \in 0 .. MaxRestarts, interrupted' \in BOOLEAN,
         interrupted' = (interrupted \/ pc = "write"),
         pc # "boot"
  PROVE  Inv'
<1> USE DEF Inv, Forget, flash
<1>1. WellFormed(map)' /\ WellFormed(new)' /\ WellFormed(replaced)'
  BY InitMap
<1>2. TypeOK'
  BY <1>1 DEF TypeOK
<1>3. ParseInv' /\ CopyInv'
  BY DEF ParseInv, CopyInv
<1>4. RunInv'
  BY DEF RunInv
<1>5. IsMap(map)'
  BY <1>1 DEF WellFormed
<1>6. FileInv'
  <2>1. CASE pc = "write"
    <3>1. flashFailed \/ (file = "torn" /\ interrupted')
      BY <2>1 DEF FileInv
    <3> QED
      BY <3>1 DEF FileInv
  <2>2. CASE pc # "write"
    BY <2>2 DEF FileInv
  <2> QED
    BY <2>1, <2>2
<1> QED
  BY <1>2, <1>3, <1>4, <1>5, <1>6

LEMMA RestartInv == Inv /\ (Reboot \/ Restart) => Inv'
<1>1. ASSUME Inv, Reboot PROVE Inv'
  <2>1. /\ restarts' \in 0 .. MaxRestarts /\ interrupted' \in BOOLEAN
        /\ interrupted' = (interrupted \/ pc = "write") /\ pc # "boot"
    BY <1>1 DEF Inv, TypeOK, Reboot, flash, counters, history
  <2> QED
    BY <1>1, <2>1, ForgetInv DEF Reboot, flash, counters, history
<1>2. ASSUME Inv, Restart PROVE Inv'
  <2>1. /\ restarts' \in 0 .. MaxRestarts /\ interrupted' \in BOOLEAN
        /\ interrupted' = (interrupted \/ pc = "write") /\ pc # "boot"
    BY <1>2, BoundAssumption DEF Inv, TypeOK, Restart
  <2> QED
    BY <1>2, <2>1, ForgetInv DEF Restart
<1> QED
  BY <1>1, <1>2

LEMMA CommandInv ==
  ASSUME Inv, NEW t \in Tables, Command(t) \/ CommandNotSaved(t)
  PROVE  Inv'
<1> USE DEF Inv, flash
<1>1. /\ commands' \in 0 .. MaxCommands /\ restarts' \in 0 .. MaxRestarts
      /\ failures' \in 0 .. MaxFailures
  BY SMTT(30), BoundAssumption DEF TypeOK, Command, CommandNotSaved
<1>2. CASE Command(t)
  <2> USE <1>2 DEF Command
  <2>1. TypeOK'
    BY <1>1 DEF TypeOK
  <2>2. ParseInv' /\ CopyInv' /\ RunInv'
    BY DEF ParseInv, CopyInv, RunInv
  <2>3. FileInv'
    BY DEF FileInv
  <2> QED
    BY <2>1, <2>2, <2>3
<1>3. CASE CommandNotSaved(t)
  <2> USE <1>3 DEF CommandNotSaved
  <2>1. /\ pc' = "start" /\ item' = t /\ memoryFailed' = FALSE
        /\ at' \in Nat \X Nat /\ WellFormed(new') /\ ParseInv'
    BY StartParseInv DEF StartParse
  <2>2. TypeOK'
    BY <1>1, <2>1 DEF TypeOK
  <2>3. CopyInv' /\ RunInv'
    BY <2>1 DEF CopyInv, RunInv
  <2>4. FileInv'
    BY DEF FileInv
  <2> QED
    BY <2>1, <2>2, <2>3, <2>4
<1> QED
  BY <1>2, <1>3

LEMMA CloseInv == Inv /\ (CloseFile \/ CloseFails) => Inv'
<1> SUFFICES ASSUME Inv, CloseFile \/ CloseFails PROVE Inv'
  OBVIOUS
<1> USE DEF Inv, flash, counters, history
<1>1. /\ commands' \in 0 .. MaxCommands /\ restarts' \in 0 .. MaxRestarts
      /\ failures' \in 0 .. MaxFailures
  BY BoundAssumption DEF TypeOK, CloseFile, CloseFails
<1>2. /\ StartParse(item) /\ pc' = "start"
      /\ item \in Tables \cup {<<>>} /\ pc = "write"
  BY DEF TypeOK, CloseFile, CloseFails
<1>3. /\ pc' = "start" /\ item' = item /\ memoryFailed' = FALSE
      /\ at' \in Nat \X Nat /\ WellFormed(new') /\ ParseInv'
  BY <1>2, StartParseInv DEF StartParse
<1>4. TypeOK'
  BY <1>1, <1>2, <1>3 DEF TypeOK, CloseFile, CloseFails
<1>5. CopyInv' /\ RunInv'
  BY <1>2, <1>3 DEF CopyInv, RunInv, CloseFile, CloseFails
<1>6. FileInv'
  BY <1>2, <1>3 DEF FileInv, CloseFile, CloseFails
<1>7. IsMap(map)'
  BY DEF CloseFile, CloseFails
<1> QED
  BY <1>3, <1>4, <1>5, <1>6, <1>7

LEMMA StartInv == Inv /\ (ParseStart \/ ParseRefused \/ ParseNoMemory) => Inv'
<1>1. ASSUME Inv, ParseStart \/ ParseRefused PROVE Inv'
  <2> USE <1>1 DEF Inv, memory, flash, counters, history
  <2>1. /\ pc = "start" /\ pc' \in {"parse", "panic"}
        /\ UNCHANGED <<memory, flash, counters, history>>
        /\ pc' = "panic" => item \notin Strict
    BY <1>1 DEF ParseStart, ParseRefused
  <2>2. TypeOK'
    BY <2>1 DEF TypeOK
  <2>3. ParseInv' /\ CopyInv' /\ FileInv'
    BY <2>1 DEF ParseInv, CopyInv, FileInv, Holds
  <2>4. RunInv'
    BY <2>1 DEF RunInv, FileInv
  <2> QED
    BY <2>1, <2>2, <2>3, <2>4
<1>2. ASSUME Inv, ParseNoMemory PROVE Inv'
  <2> USE <1>2 DEF Inv, ParseNoMemory, flash, history
  <2>1. failures' \in 0 .. MaxFailures
    BY BoundAssumption DEF TypeOK
  <2>2. TypeOK'
    BY <2>1 DEF TypeOK
  <2>3. ParseInv' /\ CopyInv' /\ FileInv' /\ RunInv'
    BY DEF ParseInv, CopyInv, FileInv, RunInv
  <2> QED
    BY <2>2, <2>3
<1> QED
  BY <1>1, <1>2

LEMMA ParseButtonInv == Inv /\ ParseButton => Inv'
<1> SUFFICES ASSUME Inv, ParseButton PROVE Inv'
  OBVIOUS
<1> USE DEF Inv, flash, history
<1> DEFINE i == at[1]
           j == at[2]
           k == item[i][j]
           v == Others(item[i], j)
           s == VSize(item[i], j)
<1>1. /\ pc = "parse" /\ i <= Len(item) /\ j <= Len(item[i])
      /\ at' = <<i, j + 1>>
      /\ UNCHANGED <<booting, item, map, todo, replaced, file, content,
                     commands, restarts, last, flashFailed, interrupted>>
  BY DEF ParseButton
<1>2. PICK m \in Memory :
        /\ m # "enough" => failures < MaxFailures
        /\ failures' = IF m = "enough" THEN failures ELSE failures + 1
        /\ new' = MapSet(new, k, v, s, m)
        /\ memoryFailed' = (memoryFailed \/ SetFails(new, k, m))
        /\ pc' \in {"parse"} \cup
                    (IF Overruns(new, k, s) THEN {"wild"} ELSE {})
  BY DEF ParseButton
<1>3. item \in Text /\ Len(item) \in Nat
  BY TableText DEF TypeOK, Text
<1>4. i \in 1 .. Len(item)
  BY <1>1, <1>3 DEF ParseInv, TheEnd
<1>5. Len(item[i]) \in Nat
  BY <1>3, <1>4 DEF Text
<1>6. j \in 1 .. Len(item[i]) /\ at = <<i, j>>
  BY <1>1, <1>5 DEF ParseInv
<1>7. k \in Key /\ v \in Value /\ s \in Nat
  <2>1. k \in Key /\ v \in Value
    BY <1>3, <1>4, <1>6, OthersType
  <2>2. s \in Nat
    BY <1>4, <1>6, VSizeType DEF TypeOK
  <2> QED
    BY <2>1, <2>2
<1>8. pc' \in {"parse", "wild"}
  BY <1>2
<1>9. WellFormed(new)
  BY DEF TypeOK
<1>10. /\ WellFormed(new')
       /\ \A x \in Key :
            MapGet(new', x) =
              IF x = k /\ ~SetFails(new, k, m) THEN {v} ELSE MapGet(new, x)
  <2> HIDE DEF k, v, s
  <2> QED
    BY <1>2, <1>7, <1>9, MapSetUpdates
<1>11. \A x \in Key :
         Linked(item, x, at') = IF k = x THEN {v} ELSE Linked(item, x, at)
  <2> SUFFICES ASSUME NEW x \in Key
               PROVE  Linked(item, x, at') =
                        IF k = x THEN {v} ELSE Linked(item, x, at)
    OBVIOUS
  <2>1. Linked(item, x, <<i, j + 1>>) =
          IF k = x THEN {v} ELSE Linked(item, x, <<i, j>>)
    <3> HIDE DEF i, j
    <3> QED
      BY <1>3, <1>4, <1>6, LinkedStep
  <2>2. at' = <<i, j + 1>> /\ at = <<i, j>>
    BY <1>1, <1>6
  <2> HIDE DEF i, j, k, v
  <2> QED
    BY <2>1, <2>2
<1>12. Holds(new, item, at)'
  <2> SUFFICES ASSUME NEW x \in Key
               PROVE  /\ MapGet(new', x) \subseteq Linked(item, x, at')
                      /\ ~memoryFailed' => MapGet(new', x) = Linked(item, x, at')
    BY <1>1 DEF Holds
  <2>1. /\ MapGet(new, x) \subseteq Linked(item, x, at)
        /\ ~memoryFailed => MapGet(new, x) = Linked(item, x, at)
    BY <1>1 DEF ParseInv, Holds
  <2>2. memoryFailed' = (memoryFailed \/ SetFails(new, k, m))
    BY <1>2
  <2> HIDE DEF k, v
  <2>3. CASE x = k
    <3>1. CASE SetFails(new, k, m)
      <4>1. MapGet(new, x) = {}
        BY <2>3, <3>1 DEF SetFails, MapGet
      <4> QED
        BY <1>10, <2>2, <2>3, <3>1, <4>1
    <3>2. CASE ~SetFails(new, k, m)
      BY <1>10, <1>11, <2>3, <3>2
    <3> QED
      BY <3>1, <3>2
  <2>4. CASE x # k
    BY <1>10, <1>11, <2>1, <2>2, <2>4
  <2> QED
    BY <2>3, <2>4
<1>13. TypeOK'
  <2>1. failures' \in 0 .. MaxFailures
    BY <1>2, BoundAssumption DEF TypeOK
  <2>2. at' \in Nat \X Nat
    BY <1>1, <1>4, <1>5, <1>6
  <2>3. memoryFailed' \in BOOLEAN
    BY <1>2, Zenon DEF TypeOK
  <2> QED
    BY <1>1, <1>8, <1>10, <2>1, <2>2, <2>3 DEF TypeOK
<1>14. ParseInv'
  BY <1>1, <1>4, <1>5, <1>6, <1>12 DEF ParseInv
<1>15. CopyInv' /\ RunInv' /\ FileInv'
  BY <1>1, <1>8 DEF CopyInv, RunInv, FileInv
<1> QED
  BY <1>1, <1>13, <1>14, <1>15

LEMMA LeaveLinkInv == Inv /\ LeaveLink => Inv'
<1> SUFFICES ASSUME Inv, LeaveLink PROVE Inv'
  OBVIOUS
<1> USE DEF Inv, LeaveLink, flash, counters, history
<1> DEFINE i == at[1]
           j == at[2]
<1>1. item \in Text /\ Len(item) \in Nat
  BY TableText DEF TypeOK, Text
<1>2. i \in 1 .. Len(item) /\ j \in Nat \ {0} /\ at = <<i, j>>
  BY <1>1 DEF ParseInv, TheEnd
<1>3. at' = <<i + 1, 1>> /\ j > Len(item[i])
  OBVIOUS
<1>4. \A k \in Key : Linked(item, k, at') = Linked(item, k, at)
  <2> HIDE DEF i, j
  <2> QED
    BY <1>1, <1>2, <1>3, LinkedNext
<1>5. Holds(new, item, at)'
  BY <1>4 DEF ParseInv, Holds
<1>6. i + 1 \in 1 .. Len(item) \/ at' = TheEnd(item)
  BY <1>1, <1>2, <1>3 DEF TheEnd
<1>7. ParseInv'
  BY <1>3, <1>5, <1>6 DEF ParseInv
<1>8. TypeOK'
  BY <1>2, <1>3 DEF TypeOK
<1>9. CopyInv' /\ RunInv' /\ FileInv'
  BY DEF CopyInv, RunInv, FileInv
<1> QED
  BY <1>7, <1>8, <1>9

LEMMA ParseEndInv == Inv /\ ParseEnd => Inv'
<1> SUFFICES ASSUME Inv, ParseEnd PROVE Inv'
  OBVIOUS
<1> USE DEF Inv, ParseEnd, flash, counters, history
<1>1. at = TheEnd(item)
  <2>1. Len(item) \in Nat
    BY TableText DEF TypeOK, Text
  <2> QED
    BY <2>1 DEF ParseInv
<1>2. WellFormed(map)
  BY DEF TypeOK, RunInv
<1>3. TypeOK'
  BY <1>2 DEF TypeOK, Word
<1>4. Holds(new, item, TheEnd(item))'
  BY <1>1 DEF ParseInv, Holds
<1>5. CopyInv'
  BY <1>4 DEF CopyInv, Word
<1>6. ParseInv' /\ RunInv' /\ FileInv'
  BY DEF ParseInv, RunInv, FileInv
<1> QED
  BY <1>3, <1>5, <1>6

\* Each word of the map is the old one or the new one, at the end all are new.
LEMMA WordCopied ==
  ASSUME Inv, NEW w \in Word, CopyWord(w)
  PROVE  /\ map' = [map EXCEPT ![w] = new[w]] /\ todo' = todo \ {w}
         /\ w \in todo /\ pc = "copy" /\ IsMap(map)'
         /\ \A x \in Word : map'[x] = IF x \in todo' THEN replaced[x] ELSE new[x]
         /\ todo' = {} => map' = new
<1> USE DEF Inv, CopyWord, flash, counters, history
<1>1. /\ map' = [map EXCEPT ![w] = new[w]] /\ todo' = todo \ {w} /\ w \in todo
      /\ pc = "copy" /\ IsMap(map)
  OBVIOUS
<1>2. IsMap(map)' /\ \A x \in Word : map'[x] = IF x = w THEN new[x] ELSE map[x]
  <2>1. PICK b, n, c : map = [buckets |-> b, nbuckets |-> n, nnodes |-> c]
    BY <1>1 DEF IsMap
  <2>2. PICK b2, n2, c2 : map' = [buckets |-> b2, nbuckets |-> n2, nnodes |-> c2]
    BY <1>1, <2>1 DEF Word
  <2>3. IsMap(map)'
    BY <2>2 DEF IsMap
  <2>4. \A x \in Word : map'[x] = IF x = w THEN new[x] ELSE map[x]
    BY <1>1, <2>1 DEF Word
  <2> QED
    BY <2>3, <2>4
<1>3. \A x \in Word : map'[x] = IF x \in todo' THEN replaced[x] ELSE new[x]
  BY <1>1, <1>2 DEF CopyInv
<1>4. todo' = {} => map' = new
  <2> SUFFICES ASSUME todo' = {} PROVE map' = new
    OBVIOUS
  <2>1. /\ map'.buckets = new.buckets /\ map'.nbuckets = new.nbuckets
        /\ map'.nnodes = new.nnodes
    BY <1>3 DEF Word
  <2>2. /\ map' = [buckets |-> map'.buckets, nbuckets |-> map'.nbuckets,
                   nnodes |-> map'.nnodes]
        /\ new = [buckets |-> new.buckets, nbuckets |-> new.nbuckets,
                  nnodes |-> new.nnodes]
    BY <1>2 DEF TypeOK, WellFormed, IsMap
  <2> QED
    BY <2>1, <2>2
<1> QED
  BY <1>1, <1>2, <1>3, <1>4

LEMMA CopyWordInv ==
  ASSUME Inv, NEW w \in Word, CopyWord(w)
  PROVE  Inv'
<1> USE DEF Inv, CopyWord, flash, counters, history
<1>1. /\ todo' = todo \ {w} /\ w \in todo /\ pc = "copy"
  OBVIOUS
<1>2. IsMap(map)'
  BY WordCopied
<1>3. \A x \in Word : map'[x] = IF x \in todo' THEN replaced[x] ELSE new[x]
  BY WordCopied
<1>4. todo' = {} => map' = new
  BY WordCopied
<1>5. CASE todo = {w}
  <2>1. map' = new /\ todo' = {} /\ pc' = "run" /\ booting' = FALSE
    BY <1>1, <1>4, <1>5
  <2>2. WellFormed(map)'
    BY <2>1 DEF TypeOK
  <2>3. TypeOK'
    BY <2>1, <2>2 DEF TypeOK
  <2>4. Holds(map, item, TheEnd(item))'
    BY <1>1, <2>1 DEF CopyInv, Holds
  <2>5. ParseInv' /\ CopyInv' /\ RunInv'
    BY <2>1, <2>4 DEF ParseInv, CopyInv, RunInv
  <2>6. FileInv'
    BY <1>1, <2>1 DEF FileInv
  <2> QED
    BY <1>2, <2>3, <2>5, <2>6
<1>6. CASE todo # {w}
  <2>1. /\ UNCHANGED <<pc, booting>> /\ todo' # {}
        /\ todo' \subseteq Word
    BY <1>1, <1>6 DEF TypeOK
  <2>2. TypeOK'
    BY <2>1 DEF TypeOK
  <2>3. Holds(new, item, TheEnd(item))'
    BY <1>1 DEF CopyInv, Holds
  <2>4. ParseInv' /\ CopyInv' /\ RunInv' /\ FileInv'
    BY <1>1, <1>3, <2>1, <2>3 DEF ParseInv, CopyInv, RunInv, FileInv
  <2> QED
    BY <1>2, <2>2, <2>4
<1> QED
  BY <1>5, <1>6

LEMMA Invariant == Spec => []Inv
<1>1. Init => Inv
  BY InitInv
<1>2. Inv /\ [Next]_vars => Inv'
  <2> SUFFICES ASSUME Inv, [Next]_vars PROVE Inv'
    OBVIOUS
  <2>1. CASE BootWithoutFile
    BY <2>1, BootWithoutFileInv
  <2>2. CASE BootWithFile
    BY <2>2, BootWithFileInv
  <2>3. CASE BootPanics
    BY <2>3, BootPanicsInv
  <2>4. CASE Reboot \/ Restart
    BY <2>4, RestartInv
  <2>5. CASE \E t \in Tables : Command(t) \/ CommandNotSaved(t)
    BY <2>5, CommandInv
  <2>6. CASE CloseFile \/ CloseFails
    BY <2>6, CloseInv
  <2>7. CASE ParseButton
    BY <2>7, ParseButtonInv
  <2>8. CASE LeaveLink
    BY <2>8, LeaveLinkInv
  <2>9. CASE ParseEnd
    BY <2>9, ParseEndInv
  <2>10. CASE \E w \in Word : CopyWord(w)
    BY <2>10, CopyWordInv
  <2>11. CASE BootWithTornFile
    BY <2>11, BootWithTornFileInv
  <2>12. CASE ParseStart \/ ParseRefused \/ ParseNoMemory
    BY <2>12, StartInv
  <2>13. CASE UNCHANGED vars
    BY <2>13 DEF vars, memory, flash, counters, history, Inv, TypeOK, ParseInv,
                 CopyInv, FileInv, RunInv, Holds
  <2> QED
    BY <2>1, <2>2, <2>3, <2>4, <2>5, <2>6, <2>7, <2>8, <2>9, <2>10, <2>11,
       <2>12, <2>13 DEF Next
<1> QED
  BY <1>1, <1>2, PTL DEF Spec

-----------------------------------------------------------------------------
(* The theorems *)

\* The state keeps its types, and every map is well-formed, for any tables,
\* buttons and hash.
THEOREM TypeCorrect == Spec => []TypeOK
<1>1. Inv => TypeOK
  BY DEF Inv
<1> QED
  BY <1>1, Invariant, PTL

\* Whenever the gateway runs, the links are those of the table last commanded.
THEOREM LinksAreInForce == Spec => []LinksInForce
<1>1. Inv => LinksInForce
  <2> SUFFICES ASSUME Inv, pc = "run", ~flashFailed, NEW k \in Key
        PROVE  /\ MapGet(map, k) \subseteq Linked(last, k, TheEnd(last))
               /\ ~memoryFailed /\ file # "torn" =>
                    MapGet(map, k) = Linked(last, k, TheEnd(last))
    BY DEF LinksInForce
  <2>1. /\ MapGet(map, k) \subseteq Linked(item, k, TheEnd(item))
        /\ ~memoryFailed => MapGet(map, k) = Linked(item, k, TheEnd(item))
    BY DEF Inv, RunInv, Holds
  <2>2. item = last \/ (item = <<>> /\ file = "torn")
    BY DEF Inv, FileInv
  <2>3. Linked(<<>>, k, TheEnd(<<>>)) = {}
    BY HoldsNothing, InitMap
  <2> QED
    BY <2>1, <2>2, <2>3
<1> QED
  BY <1>1, Invariant, PTL

\* A lookup while the map is replaced finds old links, new ones or none.
THEOREM LookupIsSafe == Spec => []LookupDuringCopy
<1>1. Inv => LookupDuringCopy
  <2> SUFFICES ASSUME Inv, pc = "copy", NEW k \in Key
        PROVE  /\ InArray(map, k) => MapGet(map, k) \subseteq
                    {x.value : x \in {x \in Nodes(replaced) \cup Nodes(new) :
                                       x.key = k}}
               /\ replaced.nbuckets = new.nbuckets => InArray(map, k)
    BY DEF LookupDuringCopy
  <2>1. /\ map.buckets \in {replaced.buckets, new.buckets}
        /\ map.nbuckets \in {replaced.nbuckets, new.nbuckets}
    BY DEF Inv, CopyInv, Word
  <2>2. WellFormed(new) /\ WellFormed(replaced)
    BY DEF Inv, TypeOK
  <2>3. ASSUME InArray(map, k), NEW x \in GetRef(map, k)
        PROVE  x \in Nodes(replaced) \cup Nodes(new) /\ x.key = k
    <3>1. map.nbuckets \in Nat
      BY <2>1, <2>2 DEF WellFormed
    <3>2. /\ BucketIdx(map, k) \in DOMAIN map.buckets
          /\ x \in map.buckets[BucketIdx(map, k)] /\ x.key = k
      BY <2>3, <3>1 DEF InArray, GetRef
    <3> QED
      BY <2>1, <3>2 DEF Nodes
  <2>4. ASSUME replaced.nbuckets = new.nbuckets, map.nbuckets > 0
        PROVE  BucketIdx(map, k) \in DOMAIN map.buckets
    <3>1. BucketIdx(map, k) = BucketIdx(new, k)
      BY <2>1, <2>4 DEF BucketIdx
    <3>2. BucketIdx(new, k) \in 0 .. new.nbuckets - 1
      BY <2>1, <2>2, <2>4, BucketInArray
    <3>3. /\ DOMAIN new.buckets = 0 .. new.nbuckets - 1
          /\ DOMAIN replaced.buckets = 0 .. replaced.nbuckets - 1
      BY <2>2 DEF WellFormed
    <3> QED
      BY <2>1, <2>4, <3>1, <3>2, <3>3
  <2> QED
    BY <2>3, <2>4 DEF MapGet, InArray
<1> QED
  BY <1>1, Invariant, PTL

\* json_parsing stops the gateway only for one of five reasons: a restart while
\* the file was written, a failed flash, no memory for the tokens, a table of
\* several lines, a text that jsmn refuses.
THEOREM PanicsAreExplained == Spec => []PanicExplained
<1>1. Inv => PanicExplained
  BY DEF Inv, RunInv, PanicExplained
<1> QED
  BY <1>1, Invariant, PTL

-----------------------------------------------------------------------------
(* Room in the maps *)

Sound(m) == IsFiniteSet(Nodes(m)) /\ Counted(m)

\* The room for a value is that of a link of the table with its key.
RoomInv ==
  \A x \in Nodes(new) :
    \E i \in 1 .. Len(item) : \E j \in 1 .. Len(item[i]) :
      item[i][j] = x.key /\ x.room = VSize(item[i], j)

BoundsInv ==
  /\ Sound(new) /\ Sound(replaced)
  /\ todo = {} => Sound(map)
  /\ pc \in {"start", "parse"} => RoomInv
  /\ pc = "wild" => TwoLinks(item)

LEMMA SoundInit == Nodes(map_init) = {} /\ Sound(map_init)
BY CountedInit, FS_EmptySet DEF Sound

LEMMA BoundsInit == Init => BoundsInv
BY SoundInit DEF Init, BoundsInv

LEMMA BoundsParse ==
  ASSUME BoundsInv, NEW t, StartParse(t), UNCHANGED <<map, todo, replaced>>,
         pc' \in {"start", "parse"}
  PROVE  BoundsInv'
BY SoundInit DEF BoundsInv, StartParse, RoomInv

\* A value that is longer than its room was last in another link.
LEMMA BoundsButton ==
  ASSUME Inv, BoundsInv, ParseButton
  PROVE  BoundsInv'
<1> USE DEF Inv
<1> DEFINE i == at[1]
           j == at[2]
           k == item[i][j]
           v == Others(item[i], j)
           s == VSize(item[i], j)
<1>1. /\ pc = "parse" /\ i <= Len(item) /\ j <= Len(item[i])
      /\ UNCHANGED <<item, map, todo, replaced>>
  BY DEF ParseButton
<1>2. PICK m \in Memory :
        /\ new' = MapSet(new, k, v, s, m)
        /\ pc' \in {"parse"} \cup
                    (IF Overruns(new, k, s) THEN {"wild"} ELSE {})
  BY DEF ParseButton
<1>3. item \in Text /\ Len(item) \in Nat
  BY TableText DEF TypeOK, Text
<1>4. i \in 1 .. Len(item)
  BY <1>1, <1>3 DEF ParseInv, TheEnd
<1>5. Len(item[i]) \in Nat
  BY <1>3, <1>4 DEF Text
<1>6. j \in 1 .. Len(item[i])
  BY <1>1, <1>5 DEF ParseInv
<1>7. k \in Key /\ v \in Value /\ s \in Nat
  <2>1. k \in Key /\ v \in Value
    BY <1>3, <1>4, <1>6, OthersType
  <2>2. s \in Nat
    BY <1>4, <1>6, VSizeType DEF TypeOK
  <2> QED
    BY <2>1, <2>2
<1>8. WellFormed(new) /\ Sound(new) /\ RoomInv
  BY <1>1 DEF TypeOK, BoundsInv
<1>9. /\ Sound(new')
      /\ \A y \in Nodes(new') :
           \/ \E x \in Nodes(new) : y.key = x.key /\ y.room = x.room
           \/ y.key = k /\ y.room = s
  <2> HIDE DEF k, v, s
  <2> QED
    BY <1>2, <1>7, <1>8, MapSetCounts DEF Sound
<1>10. RoomInv'
  <2> SUFFICES ASSUME NEW y \in Nodes(new')
               PROVE  \E p \in 1 .. Len(item) : \E q \in 1 .. Len(item[p]) :
                        item[p][q] = y.key /\ y.room = VSize(item[p], q)
    BY <1>1 DEF RoomInv
  <2> QED
    BY <1>4, <1>6, <1>7, <1>8, <1>9 DEF RoomInv
<1>11. pc' = "wild" => TwoLinks(item)
  <2> SUFFICES ASSUME pc' = "wild" PROVE TwoLinks(item)
    OBVIOUS
  <2>1. PICK x \in GetRef(new, k) : s > x.room
    BY <1>2 DEF Overruns
  <2>2. x \in Nodes(new) /\ x.key = k
    <3> HIDE DEF k
    <3> QED
      BY <1>7, <1>8, GetRefNodes
  <2>0. PICK p \in 1 .. Len(item) : \E q \in 1 .. Len(item[p]) :
          item[p][q] = k /\ x.room = VSize(item[p], q)
    BY <1>8, <2>2 DEF RoomInv
  <2>3. PICK q \in 1 .. Len(item[p]) :
          item[p][q] = k /\ x.room = VSize(item[p], q)
    BY <2>0
  <2>4. p # i
    <3> SUFFICES ASSUME p = i PROVE FALSE
      OBVIOUS
    <3>1. s = VSize(item[p], q)
      BY <2>3, VSizeSame
    <3> QED
      BY <1>7, <2>1, <2>3, <3>1
  <2>5. /\ i \in DOMAIN item /\ p \in DOMAIN item
        /\ j \in DOMAIN item[i] /\ q \in DOMAIN item[p]
    <3>1. /\ DOMAIN item = 1 .. Len(item)
          /\ \A n \in 1 .. Len(item) : DOMAIN item[n] = 1 .. Len(item[n])
      BY <1>3 DEF Text
    <3> HIDE DEF i, j
    <3> QED
      BY <1>4, <1>6, <2>3, <3>1
  <2> QED
    BY <2>3, <2>4, <2>5 DEF TwoLinks
<1>12. pc' \in {"parse", "wild"}
  BY <1>2
<1> QED
  BY <1>1, <1>9, <1>10, <1>11, <1>12 DEF BoundsInv

LEMMA BoundsStep == Inv /\ BoundsInv /\ [Next]_vars => BoundsInv'
<1> SUFFICES ASSUME Inv, BoundsInv, [Next]_vars PROVE BoundsInv'
  OBVIOUS
<1>1. CASE BootWithoutFile \/ BootPanics
  BY <1>1 DEF BootWithoutFile, BootPanics, memory, BoundsInv
<1>2. CASE BootWithFile \/ BootWithTornFile \/ CloseFile \/ CloseFails
  BY <1>2, BoundsParse
  DEF BootWithFile, BootWithTornFile, CloseFile, CloseFails
<1>3. CASE Reboot \/ Restart
  BY <1>3, SoundInit DEF Reboot, Restart, Forget, BoundsInv
<1>4. ASSUME NEW t \in Tables, Command(t) PROVE BoundsInv'
  BY <1>4 DEF Command, BoundsInv
<1>5. ASSUME NEW t \in Tables, CommandNotSaved(t) PROVE BoundsInv'
  BY <1>5, BoundsParse DEF CommandNotSaved
<1>6. CASE ParseButton
  BY <1>6, BoundsButton
<1>7. CASE LeaveLink
  BY <1>7 DEF LeaveLink, BoundsInv, RoomInv
<1>8. CASE ParseEnd
  BY <1>8 DEF ParseEnd, BoundsInv, Inv, RunInv, Word
<1>9. ASSUME NEW w \in Word, CopyWord(w) PROVE BoundsInv'
  <2>1. todo' = {} => map' = new
    BY <1>9, WordCopied
  <2>2. pc' \in {"copy", "run"} /\ UNCHANGED <<new, replaced>>
    BY <1>9 DEF CopyWord
  <2> QED
    BY <2>1, <2>2 DEF BoundsInv
<1>10. CASE ParseStart \/ ParseRefused \/ ParseNoMemory
  BY <1>10 DEF ParseStart, ParseRefused, ParseNoMemory, memory, BoundsInv,
               RoomInv
<1>11. CASE UNCHANGED vars
  BY <1>11 DEF vars, memory, BoundsInv, RoomInv
<1> QED
  BY <1>1, <1>2, <1>3, <1>4, <1>5, <1>6, <1>7, <1>8, <1>9, <1>10, <1>11
     DEF Next

\* For any table and any hash, however often the map grows or fails to, there
\* is a bucket for each node and the mask fits; and only a table with a button
\* in two links has a value copied over one of fewer bytes (map_set_).
THEOREM MapsStayInBounds == Spec => []MapsInBounds
<1>1. BoundsInv => MapsInBounds
  BY DEF BoundsInv, Sound, MapsInBounds
<1>2. Init => BoundsInv
  BY BoundsInit
<1>3. Inv /\ BoundsInv /\ [Next]_vars => BoundsInv'
  BY BoundsStep
<1> QED
  BY <1>1, <1>2, <1>3, Invariant, PTL DEF Spec
=============================================================================
