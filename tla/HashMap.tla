------------------------------ MODULE HashMap ------------------------------
(***************************************************************************)
(* The hash map of linkNode/map/map.c, as used for the links: a button's   *)
(* name is the key, the names of the buttons linked to it are the value.   *)
(* A chain of nodes is a set: its order decides nothing, because a key has *)
(* one node.  nbuckets is a power of two, so masking is a remainder.  The  *)
(* room of a value is what was allocated for it, in bytes.                 *)
(***************************************************************************)
EXTENDS Naturals, Sequences, FiniteSets

CONSTANTS
  Key,   \* names of buttons
  Hash   \* map_hash

ASSUME HashAssumption == Hash \in [Key -> Nat]

Value == Seq(Key)
Node == [key : Key, value : Value, room : Nat]

map_init == [buckets |-> [n \in {} |-> {}], nbuckets |-> 0, nnodes |-> 0]

BucketIdx(m, k) == Hash[k] % m.nbuckets

\* The bucket of a key lies inside the array.
InArray(m, k) == m.nbuckets > 0 => BucketIdx(m, k) \in DOMAIN m.buckets

\* Mutant: equal hashes are taken for equal keys.
GetRefByHash(m, k) ==
  IF m.nbuckets = 0 THEN {}
  ELSE {x \in m.buckets[BucketIdx(m, k)] : Hash[x.key] = Hash[k]}

\* map_getref: the node of a key, or nothing.
GetRef(m, k) ==
  IF m.nbuckets = 0 THEN {}
  ELSE {x \in m.buckets[BucketIdx(m, k)] : x.key = k}

\* map_get_: the value of a key, or nothing.
MapGet(m, k) == {x.value : x \in GetRef(m, k)}

Nodes(m) == UNION {m.buckets[n] : n \in DOMAIN m.buckets}

AddNode(m, x) ==
  [m EXCEPT !.buckets[BucketIdx(m, x.key)] = @ \cup {x}, !.nnodes = @ + 1]

\* Mutant: the nodes stay in the buckets they are in.
ResizeInPlace(m, n) ==
  [m EXCEPT !.nbuckets = n,
            !.buckets = [b \in 0 .. n - 1 |->
                           IF b \in DOMAIN @ THEN @[b] ELSE {}]]

Resize(m, n) ==
  [m EXCEPT !.nbuckets = n,
            !.buckets = [b \in 0 .. n - 1 |->
                           {x \in Nodes(m) : Hash[x.key] % n = b}]]

Full(m) == m.nnodes >= m.nbuckets

Grow(m) ==
  IF Full(m) THEN Resize(m, IF m.nbuckets > 0 THEN 2 * m.nbuckets ELSE 1)
             ELSE m

\* The new value is copied over the old one, whatever room that has.
Replace(m, k, v) ==
  [m EXCEPT !.buckets[BucketIdx(m, k)] =
     {IF x.key = k THEN [x EXCEPT !.value = v] ELSE x : x \in @}]

Overruns(m, k, vsize) == \E x \in GetRef(m, k) : vsize > x.room

Memory == {"enough", "no node", "no buckets"}

\* map_set_ runs out of memory; the map is then as it was, because a failed
\* map_resize puts the nodes back.
SetFails(m, k, memory) ==
  /\ GetRef(m, k) = {}
  /\ memory = "no node" \/ (memory = "no buckets" /\ Full(m))

\* Mutant: a key that is there keeps its value.
MapSetOnce(m, k, v, vsize, memory) ==
  IF GetRef(m, k) # {} \/ SetFails(m, k, memory) THEN m
  ELSE AddNode(Grow(m), [key |-> k, value |-> v, room |-> vsize])

\* map_set_: a value v of vsize bytes.
MapSet(m, k, v, vsize, memory) ==
  IF GetRef(m, k) # {} THEN Replace(m, k, v)
  ELSE IF SetFails(m, k, memory) THEN m
  ELSE AddNode(Grow(m), [key |-> k, value |-> v, room |-> vsize])

-----------------------------------------------------------------------------

\* What has 1, and the double of each of its members, has n.
PowerOfTwo(n) ==
  \A S \in SUBSET (1 .. n) :
    1 \in S /\ (\A x \in S : 2 * x <= n => 2 * x \in S) => n \in S

IsMap(m) ==
  m = [buckets |-> m.buckets, nbuckets |-> m.nbuckets, nnodes |-> m.nnodes]

\* A node is in the bucket of its key, and a key has one node.
WellFormed(m) ==
  /\ IsMap(m)
  /\ m.nbuckets \in Nat /\ m.nnodes \in Nat
  /\ m.buckets \in [0 .. m.nbuckets - 1 -> SUBSET Node]
  /\ \A n \in DOMAIN m.buckets : \A x \in m.buckets[n] :
       /\ BucketIdx(m, x.key) = n
       /\ \A y \in m.buckets[n] : x.key = y.key => x = y

\* No bucket is wanting: there is one for each node, and masking the hash
\* with nbuckets - 1 is the remainder.
Counted(m) ==
  /\ m.nnodes = Cardinality(Nodes(m)) /\ m.nnodes <= m.nbuckets
  /\ m.nbuckets > 0 => PowerOfTwo(m.nbuckets)
=============================================================================
