---------------------------- MODULE EncoderProofs ----------------------------
(* What the formats of a report say, for every report, every order in      *)
(* which its HashMap is walked, and whatever the symbols are.              *)
EXTENDS Encoders, SumTheorems, SequenceTheorems

-----------------------------------------------------------------------------
(* Induction, as theorems about sets *)

(* A nonempty set of naturals has a least element. *)
LEMMA LeastNat ==
    ASSUME NEW T \in SUBSET Nat, T # {}
    PROVE  \E x \in T : \A y \in T : x <= y
<1>1. PICK x \in T : \A y \in T : ~(<<y, x>> \in OpToRel(<, Nat))
  BY NatLessThanWellFounded, WFMin
<1>2. \A y \in T : ~(y < x)
  BY <1>1 DEF OpToRel
<1> QED
  BY <1>2

(* A set of numbers with zero and the successor of each has them all. *)
LEMMA NatSetInduction ==
    ASSUME NEW Q, 0 \in Q, \A n \in Nat : n \in Q => n + 1 \in Q
    PROVE  Nat \subseteq Q
<1> DEFINE Bad == Nat \ Q
<1>1. SUFFICES ASSUME Bad # {} PROVE FALSE
  OBVIOUS
<1>2. PICK n \in Bad : \A m \in Bad : n <= m
  <2>1. Bad \in SUBSET Nat
    OBVIOUS
  <2> HIDE DEF Bad
  <2> QED
    BY <1>1, <2>1, LeastNat
<1>3. n \in Nat /\ n \notin Q /\ n # 0
  BY <1>2
<1>4. n - 1 \in Nat /\ n - 1 \notin Bad
  BY <1>2, <1>3
<1>5. (n - 1) + 1 \in Q
  BY <1>4
<1> QED
  BY <1>3, <1>5

(* A set with the empty sequence, and with each sequence also those that   *)
(* are longer by one element, has them all.                                *)
LEMMA SeqSetInduction ==
    ASSUME NEW S, NEW Q, <<>> \in Q,
           \A s \in Seq(S) : \A e \in S : s \in Q => Append(s, e) \in Q
    PROVE  Seq(S) \subseteq Q
<1> DEFINE P == {n \in Nat : \A s \in Seq(S) : Len(s) = n => s \in Q}
<1>1. 0 \in P
  <2>1. ASSUME NEW s \in Seq(S), Len(s) = 0 PROVE s = <<>>
    BY <2>1, EmptySeq
  <2> QED
    BY <2>1
<1>2. ASSUME NEW n \in Nat, n \in P PROVE n + 1 \in P
  <2> SUFFICES ASSUME NEW s \in Seq(S), Len(s) = n + 1 PROVE s \in Q
    OBVIOUS
  <2> DEFINE front == SubSeq(s, 1, n)
             last == s[n + 1]
  <2>1. front \in Seq(S) /\ Len(front) = n /\ \A i \in 1..n : front[i] = s[i]
    <3>1. \A i \in 1..n : s[i] \in S
      BY ElementOfSeq
    <3> QED
      BY <3>1, SubSeqProperties
  <2>2. last \in S
    BY ElementOfSeq
  <2> HIDE DEF front, last
  <2>3. Append(front, last) = s
    <3>1. /\ Append(front, last) \in Seq(S) /\ Len(Append(front, last)) = n + 1
          /\ \A i \in 1..(n + 1) :
                Append(front, last)[i] = IF i <= n THEN front[i] ELSE last
      BY <2>1, <2>2
    <3>2. \A i \in 1..(n + 1) : Append(front, last)[i] = s[i]
      BY <2>1, <3>1 DEF last
    <3> QED
      BY <3>1, <3>2, SeqEqual
  <2>4. front \in Q
    BY <1>2, <2>1
  <2> QED
    BY <2>1, <2>2, <2>3, <2>4
<1> HIDE DEF P
<1>3. Nat \subseteq P
  BY <1>1, <1>2, NatSetInduction
<1>4. ASSUME NEW s \in Seq(S) PROVE s \in Q
  <2>1. Len(s) \in P
    BY <1>3
  <2> QED
    BY <2>1 DEF P
<1> QED
  BY <1>4

-----------------------------------------------------------------------------
(* Walks and groups *)

(* A walk of a HashMap passes every key once. *)
LEMMA WalkPasses ==
    ASSUME NEW S, IsFiniteSet(S), NEW order \in SetToSeqs(S)
    PROVE  /\ order \in Seq(S) /\ Len(order) \in Nat
           /\ DOMAIN order = 1..Len(order)
           /\ \A i \in DOMAIN order : order[i] \in S
           /\ \A i, j \in DOMAIN order : order[i] = order[j] => i = j
           /\ {order[i] : i \in DOMAIN order} = S
<1> DEFINE n == Cardinality(S)
<1>1. n \in Nat
  BY FS_CardinalityType
<1> HIDE DEF n
<1>2. /\ order \in [1..n -> S]
      /\ \A i, j \in 1..n : i # j => order[i] # order[j]
  BY DEF SetToSeqs, n
<1>3. order \in Seq(S) /\ Len(order) = n
  BY <1>1, <1>2
<1>4. order \in Injection(1..n, S)
  BY <1>2 DEF Injection, IsInjective
<1>5. Cardinality(1..n) = n
  BY <1>1, FS_Interval
<1>6. order \in Surjection(1..n, S)
  BY <1>4, <1>5, FS_Injection DEF n
<1>7. \A s \in S : \E i \in 1..n : order[i] = s
  BY <1>6 DEF Surjection
<1> QED
  BY <1>1, <1>2, <1>3, <1>7

(* Finitely many integers. *)
IsData(data) == IsFiniteSet(DOMAIN data) /\ \A x \in DOMAIN data : data[x] \in Int

(* `names` gives the places of data the names they have in other.          *)
Renames(names, data, by, other, otherBy) ==
    /\ \A x \in DOMAIN data : other[names[x]] = data[x] /\ otherBy[names[x]] = by[x]
    /\ \A x, y \in DOMAIN data : names[x] = names[y] => x = y
    /\ DOMAIN other = {names[x] : x \in DOMAIN data}

(* A group is finite, and what it holds is an integer. *)
LEMMA GroupType ==
    ASSUME NEW data, IsData(data),
           NEW by
    PROVE  /\ IsData(Grouped(data, by))
           /\ SumFunction(Grouped(data, by)) = SumFunction(data)
<1> DEFINE S == DOMAIN data
           g == [v \in {by[x] : x \in S} |-> SumFunctionOnSet(data, {x \in S : by[x] = v})]
<1>1. IsFiniteSet(S) /\ \A x \in S : data[x] \in Int
  BY DEF IsData
<1> HIDE DEF S
<1>2. /\ IsFiniteSet(DOMAIN g) /\ \A v \in DOMAIN g : g[v] \in Int
      /\ SumFunction(g) = SumFunctionOnSet(data, S)
  <2> HIDE DEF g
  <2>1. LET group == [v \in {by[x] : x \in S} |->
                         SumFunctionOnSet(data, {x \in S : by[x] = v})]
        IN  /\ IsFiniteSet(DOMAIN group)
            /\ \A v \in DOMAIN group : group[v] \in Int
            /\ SumFunction(group) = SumFunctionOnSet(data, S)
    BY <1>1, SumGroups
  <2> QED
    BY <2>1, Zenon DEF g
<1>3. g = Grouped(data, by)
  BY DEF Grouped, S
<1> QED
  BY <1>2, <1>3 DEF SumFunction, S, IsData

(* Data that is the same up to the names of its places is grouped alike.   *)
LEMMA GroupReindex ==
    ASSUME NEW data, IsData(data),
           NEW by, NEW names, NEW other, NEW otherBy,
           Renames(names, data, by, other, otherBy)
    PROVE  Grouped(data, by) = Grouped(other, otherBy)
<1> USE DEF IsData, Renames
<1>1. {by[x] : x \in DOMAIN data} = {otherBy[y] : y \in DOMAIN other}
  OBVIOUS
<1>2. ASSUME NEW v
      PROVE  SumFunctionOnSet(data, {x \in DOMAIN data : by[x] = v})
                = SumFunctionOnSet(other, {y \in DOMAIN other : otherBy[y] = v})
  <2> DEFINE S == {x \in DOMAIN data : by[x] = v}
             T == {y \in DOMAIN other : otherBy[y] = v}
  <2>1. T = {names[x] : x \in S}
    OBVIOUS
  <2>2. IsFiniteSet(S)
    BY FS_Subset
  <2>3. /\ \A x \in S : data[x] \in Int /\ other[names[x]] = data[x]
        /\ \A x, y \in S : names[x] = names[y] => x = y
    OBVIOUS
  <2> HIDE DEF S, T
  <2>4. SumFunctionOnSet(other, {names[x] : x \in S}) = SumFunctionOnSet(data, S)
    BY <2>2, <2>3, SumReindex
  <2>5. SumFunctionOnSet(data, S) = SumFunctionOnSet(other, T)
    BY <2>1, <2>4
  <2> QED
    BY <2>5 DEF S, T
<1> DEFINE A == {by[x] : x \in DOMAIN data}
           B == {otherBy[y] : y \in DOMAIN other}
           F(v) == SumFunctionOnSet(data, {x \in DOMAIN data : by[x] = v})
           G(v) == SumFunctionOnSet(other, {y \in DOMAIN other : otherBy[y] = v})
<1>3. A = B /\ \A v : F(v) = G(v)
  BY <1>1, <1>2
<1>4. Grouped(data, by) = [v \in A |-> F(v)] /\ Grouped(other, otherBy) = [v \in B |-> G(v)]
  BY DEF Grouped
<1> HIDE DEF A, B, F, G
<1> QED
  BY <1>3, <1>4

(* Adding to a place adds to its group. *)
LEMMA GroupAdded ==
    ASSUME NEW data, IsData(data),
           NEW e, NEW n \in Int, NEW by
    PROVE  Grouped(Added(data, e, n), by) = Added(Grouped(data, by), by[e], n)
<1> USE DEF IsData
<1> DEFINE new == Added(data, e, n)
           S(v) == {x \in DOMAIN data : by[x] = v}
           T(v) == {x \in DOMAIN new : by[x] = v}
           g == Grouped(data, by)
<1>1. /\ DOMAIN new = DOMAIN data \union {e}
      /\ new[e] = (IF e \in DOMAIN data THEN data[e] ELSE 0) + n
      /\ \A x \in DOMAIN data \ {e} : new[x] = data[x]
      /\ \A x \in DOMAIN new : new[x] \in Int
  BY DEF Added, Insert
<1> HIDE DEF new
<1>2. ASSUME NEW v
      PROVE  /\ IsFiniteSet(S(v)) /\ IsFiniteSet(T(v))
             /\ SumFunctionOnSet(data, S(v)) \in Int
             /\ SumFunctionOnSet(new, T(v)) =
                   SumFunctionOnSet(data, S(v)) + (IF v = by[e] THEN n ELSE 0)
  <2>1. IsFiniteSet(S(v)) /\ IsFiniteSet(T(v))
    <3>1. IsFiniteSet(DOMAIN new)
      BY <1>1, FS_AddElement
    <3> QED
      BY <3>1, FS_Subset
  <2>2. (\A x \in S(v) : data[x] \in Int) /\ (\A x \in T(v) : new[x] \in Int)
    BY <1>1
  <2>3. SumFunctionOnSet(data, S(v)) \in Int
    <3> HIDE DEF S
    <3> QED
      BY <2>1, <2>2, SumInt
  <2>4. CASE v # by[e]
    <3>1. S(v) = T(v) /\ \A x \in S(v) : new[x] = data[x]
      BY <1>1, <2>4
    <3> HIDE DEF S, T
    <3>2. SumFunctionOnSet(new, S(v)) = SumFunctionOnSet(data, S(v))
      BY <2>1, <3>1, SumEqual
    <3> QED
      BY <2>1, <2>3, <2>4, <3>1, <3>2
  <2>5. CASE v = by[e]
    <3> DEFINE R == S(v) \ {e}
    <3>1. R = T(v) \ {e} /\ e \in T(v) /\ \A x \in R : new[x] = data[x]
      BY <1>1, <2>5
    <3>2. IsFiniteSet(R) /\ \A x \in R : data[x] \in Int
      BY <2>1, FS_Subset
    <3>3. e \in S(v) <=> e \in DOMAIN data
      BY <2>5
    <3>4. e \in DOMAIN data => data[e] \in Int
      OBVIOUS
    <3> HIDE DEF S, T
    <3>5. SumFunctionOnSet(new, T(v)) = new[e] + SumFunctionOnSet(new, T(v) \ {e})
      BY <2>1, <2>2, <3>1, SumRemove
    <3>6. CASE e \in DOMAIN data
      <4>1. SumFunctionOnSet(data, S(v)) = data[e] + SumFunctionOnSet(data, S(v) \ {e})
        BY <2>1, <2>2, <3>3, <3>6, SumRemove
      <4> HIDE DEF R
      <4>2. SumFunctionOnSet(new, R) = SumFunctionOnSet(data, R)
               /\ SumFunctionOnSet(data, R) \in Int
        BY <3>1, <3>2, SumEqual, SumInt
      <4>3. SumFunctionOnSet(data, S(v)) = data[e] + SumFunctionOnSet(data, R)
        BY <4>1 DEF R
      <4>4. SumFunctionOnSet(new, T(v)) = new[e] + SumFunctionOnSet(data, R)
        BY <3>1, <3>5, <4>2
      <4> QED
        BY <1>1, <2>1, <2>3, <2>5, <3>4, <3>6, <4>2, <4>3, <4>4
    <3>7. CASE e \notin DOMAIN data
      <4>1. S(v) = R
        BY <3>3, <3>7
      <4> HIDE DEF R
      <4>2. SumFunctionOnSet(new, R) = SumFunctionOnSet(data, R)
        BY <3>1, <3>2, SumEqual
      <4> QED
        BY <1>1, <2>1, <2>3, <2>5, <3>1, <3>5, <3>7, <4>1, <4>2
    <3> QED
      BY <3>6, <3>7
  <2> QED
    BY <2>4, <2>5
<1>3. /\ DOMAIN g = {by[x] : x \in DOMAIN data}
      /\ \A v \in DOMAIN g : g[v] = SumFunctionOnSet(data, S(v))
      /\ Grouped(new, by) = [v \in {by[x] : x \in DOMAIN new} |-> SumFunctionOnSet(new, T(v))]
  BY DEF Grouped
<1>4. {by[x] : x \in DOMAIN new} = DOMAIN g \union {by[e]}
  BY <1>1, <1>3
<1>5. by[e] \notin DOMAIN g => SumFunctionOnSet(data, S(by[e])) = 0
  <2> SUFFICES ASSUME by[e] \notin DOMAIN g PROVE SumFunctionOnSet(data, S(by[e])) = 0
    OBVIOUS
  <2>1. S(by[e]) = {}
    BY <1>3
  <2> QED
    BY <2>1, SumEmpty
<1> HIDE DEF S, T
<1>6. Grouped(new, by) = [v \in DOMAIN g \union {by[e]} |->
                            SumFunctionOnSet(data, S(v)) + (IF v = by[e] THEN n ELSE 0)]
  BY <1>2, <1>3, <1>4
<1> DEFINE h == Grouped(new, by)
           b == by[e]
<1>7. /\ DOMAIN h = DOMAIN g \union {b}
      /\ h = [v \in DOMAIN h |-> h[v]]
      /\ \A v \in DOMAIN g \ {b} : h[v] = g[v]
      /\ h[b] = IF b \in DOMAIN g THEN g[b] + n ELSE n
  <2>1. \A v : SumFunctionOnSet(data, S(v)) \in Int
    BY <1>2
  <2> DEFINE sum(v) == SumFunctionOnSet(data, S(v))
  <2>2. /\ h = [v \in DOMAIN g \union {b} |-> sum(v) + (IF v = b THEN n ELSE 0)]
        /\ \A v : sum(v) \in Int
        /\ \A v \in DOMAIN g : g[v] = sum(v)
        /\ b \notin DOMAIN g => sum(b) = 0
    BY <1>3, <1>5, <1>6, <2>1
  <2> HIDE DEF sum, h, g, b
  <2>3. DOMAIN h = DOMAIN g \union {b}
    BY <2>2
  <2>4. \A v \in DOMAIN g \ {b} : h[v] = g[v]
    BY <2>2
  <2>5. h[b] = sum(b) + n /\ sum(b) \in Int
    BY <2>2
  <2>6. h[b] = IF b \in DOMAIN g THEN g[b] + n ELSE n
    BY <2>2, <2>5
  <2>7. h = [v \in DOMAIN h |-> h[v]]
    BY <2>2, <2>3
  <2> QED
    BY <2>3, <2>4, <2>6, <2>7
<1>8. g = [v \in DOMAIN g |-> g[v]]
  BY DEF Grouped
<1> HIDE DEF h, g, b
<1>9. h = Added(g, b, n)
  BY <1>7, <1>8 DEF Added, Insert
<1> QED
  BY <1>9 DEF h, g, b, new

(* Groups of groups are groups. *)
LEMMA GroupGroups ==
    ASSUME NEW data, IsData(data),
           NEW by, NEW then
    PROVE  Grouped(Grouped(data, by), then)
              = Grouped(data, [x \in DOMAIN data |-> then[by[x]]])
<1> USE DEF IsData
<1> DEFINE g == Grouped(data, by)
           both == [x \in DOMAIN data |-> then[by[x]]]
<1>1. /\ DOMAIN g = {by[x] : x \in DOMAIN data}
      /\ \A v \in DOMAIN g : g[v] = SumFunctionOnSet(data, {x \in DOMAIN data : by[x] = v})
  BY DEF Grouped
<1>2. {then[v] : v \in DOMAIN g} = {both[x] : x \in DOMAIN data}
  BY <1>1
<1>3. ASSUME NEW w
      PROVE  SumFunctionOnSet(g, {v \in DOMAIN g : then[v] = w})
                = SumFunctionOnSet(data, {x \in DOMAIN data : both[x] = w})
  <2> DEFINE S == {x \in DOMAIN data : both[x] = w}
             V == {v \in DOMAIN g : then[v] = w}
             part == [v \in {by[x] : x \in S} |->
                         SumFunctionOnSet(data, {x \in S : by[x] = v})]
  <2>1. V = DOMAIN part
    BY <1>1
  <2>2. ASSUME NEW v \in V PROVE part[v] = g[v]
    <3>1. {x \in S : by[x] = v} = {x \in DOMAIN data : by[x] = v}
      BY <2>2
    <3>2. v \in DOMAIN g /\ v \in DOMAIN part
      BY <2>1, <2>2
    <3> QED
      BY <1>1, <3>1, <3>2
  <2>3. IsFiniteSet(S) /\ \A x \in S : data[x] \in Int
    BY FS_Subset
  <2> HIDE DEF g, both
  <2>4. IsFiniteSet(DOMAIN part) /\ SumFunction(part) = SumFunctionOnSet(data, S)
    <3> HIDE DEF S, part
    <3>1. LET group == [v \in {by[x] : x \in S} |->
                           SumFunctionOnSet(data, {x \in S : by[x] = v})]
          IN  /\ IsFiniteSet(DOMAIN group)
              /\ \A v \in DOMAIN group : group[v] \in Int
              /\ SumFunction(group) = SumFunctionOnSet(data, S)
      BY <2>3, SumGroups
    <3> QED
      BY <3>1, Zenon DEF part
  <2> HIDE DEF part, V, S
  <2>5. SumFunctionOnSet(part, V) = SumFunctionOnSet(g, V)
    BY <2>1, <2>2, <2>4, SumEqual
  <2>6. SumFunctionOnSet(g, V) = SumFunctionOnSet(data, S)
    BY <2>1, <2>4, <2>5 DEF SumFunction
  <2> QED
    BY <2>6 DEF V, S
<1> HIDE DEF g, both
<1>4. Grouped(g, then) = Grouped(data, both)
  BY <1>2, <1>3 DEF Grouped
<1> QED
  BY <1>4 DEF g, both

-----------------------------------------------------------------------------
(* The symbols of a stack *)

(* g has what the first frames of s flatten to, for each of the first n.   *)
Flattens(g, s, n) ==
    g = [i \in 1..n |-> IF i = 1 THEN s[i] ELSE g[i - 1] \o s[i]]

(* The recursion of FlattenSeq has a solution. *)
LEMMA FlattensExists ==
    ASSUME NEW s
    PROVE  \A n \in Nat : \E g : Flattens(g, s, n)
<1> DEFINE Q == {n \in Nat : \E g : Flattens(g, s, n)}
<1>1. 0 \in Q
  <2> DEFINE g == [i \in 1..0 |-> <<>>]
  <2>1. Flattens(g, s, 0)
    BY DEF Flattens
  <2> QED
    BY <2>1
<1>2. ASSUME NEW n \in Nat, n \in Q PROVE n + 1 \in Q
  <2>1. PICK g : Flattens(g, s, n)
    BY <1>2
  <2> DEFINE f == [i \in 1..(n + 1) |-> IF i = 1 THEN s[i] ELSE g[i - 1] \o s[i]]
  <2>2. \A i \in 1..n : g[i] = IF i = 1 THEN s[i] ELSE g[i - 1] \o s[i]
    BY <2>1 DEF Flattens
  <2>3. \A i \in 1..n : f[i] = g[i]
    BY <2>2
  <2>4. \A i \in 1..(n + 1) : i # 1 => i - 1 \in 1..n /\ f[i - 1] = g[i - 1]
    <3> HIDE DEF f
    <3>1. \A i \in 1..(n + 1) : i # 1 => i - 1 \in 1..n
      OBVIOUS
    <3> QED
      BY <2>3, <3>1
  <2>5. f = [i \in 1..(n + 1) |-> IF i = 1 THEN s[i] ELSE f[i - 1] \o s[i]]
    BY <2>4
  <2>6. Flattens(f, s, n + 1)
    <3> HIDE DEF f
    <3> QED
      BY <2>5 DEF Flattens
  <2> HIDE DEF f
  <2> QED
    BY <2>6
<1> HIDE DEF Q
<1>3. Nat \subseteq Q
  BY <1>1, <1>2, NatSetInduction
<1> QED
  BY <1>3 DEF Q

(* The sequences begin with the same n elements. *)
Alike(s, t, n) == \A i \in 1..n : s[i] = t[i]

(* Sequences that begin alike flatten alike so far. *)
LEMMA FlattensUnique ==
    ASSUME NEW n \in Nat, NEW m \in Nat, n <= m, NEW s, NEW t, Alike(s, t, n),
           NEW f, Flattens(f, s, n), NEW g, Flattens(g, t, m)
    PROVE  \A i \in 1..n : f[i] = g[i]
<1> DEFINE Q == {i \in Nat : i \in 1..n => f[i] = g[i]}
<1>1. \A i \in 1..n : /\ f[i] = IF i = 1 THEN s[i] ELSE f[i - 1] \o s[i]
                      /\ g[i] = IF i = 1 THEN t[i] ELSE g[i - 1] \o t[i]
  <2>1. \A i \in 1..n : f[i] = IF i = 1 THEN s[i] ELSE f[i - 1] \o s[i]
    BY DEF Flattens
  <2>2. \A i \in 1..m : g[i] = IF i = 1 THEN t[i] ELSE g[i - 1] \o t[i]
    BY DEF Flattens
  <2>3. 1..n \subseteq 1..m
    OBVIOUS
  <2> QED
    BY <2>1, <2>2, <2>3
<1>2. 0 \in Q
  OBVIOUS
<1>3. ASSUME NEW i \in Nat, i \in Q PROVE i + 1 \in Q
  <2> SUFFICES ASSUME i + 1 \in 1..n PROVE f[i + 1] = g[i + 1]
    OBVIOUS
  <2>1. s[i + 1] = t[i + 1]
    BY DEF Alike
  <2>2. CASE i = 0
    <3>1. f[1] = s[1] /\ g[1] = t[1]
      BY <1>1, <2>2
    <3> QED
      BY <2>1, <2>2, <3>1
  <2>3. CASE i # 0
    <3>1. f[i] = g[i]
      BY <1>3, <2>3
    <3>2. /\ f[i + 1] = f[(i + 1) - 1] \o s[i + 1]
          /\ g[i + 1] = g[(i + 1) - 1] \o t[i + 1]
      <4>1. i + 1 # 1
        BY <2>3
      <4> DEFINE j == i + 1
      <4> HIDE DEF j
      <4>2. j \in 1..n /\ j # 1
        BY <4>1 DEF j
      <4>3. f[j] = f[j - 1] \o s[j] /\ g[j] = g[j - 1] \o t[j]
        BY <1>1, <4>2
      <4> QED
        BY <4>3 DEF j
    <3>3. (i + 1) - 1 = i
      OBVIOUS
    <3> QED
      BY <2>1, <3>1, <3>2, <3>3
  <2> QED
    BY <2>2, <2>3
<1> HIDE DEF Q
<1>4. Nat \subseteq Q
  BY <1>2, <1>3, NatSetInduction
<1> QED
  BY <1>4 DEF Q

(* FlattenSeq is what the recursion computes. *)
LEMMA FlattenIs ==
    ASSUME NEW S, NEW s \in Seq(S)
    PROVE  /\ s = <<>> => FlattenSeq(s) = <<>>
           /\ s # <<>> => \E g : Flattens(g, s, Len(s)) /\ FlattenSeq(s) = g[Len(s)]
<1> DEFINE g == CHOOSE f : Flattens(f, s, Len(s))
<1>1. s = <<>> => FlattenSeq(s) = <<>>
  BY DEF FlattenSeq
<1>2. s # <<>> => FlattenSeq(s) = g[Len(s)]
  BY DEF FlattenSeq, Flattens
<1>3. Flattens(g, s, Len(s))
  BY FlattensExists
<1> HIDE DEF g
<1> QED
  BY <1>1, <1>2, <1>3

(* One more frame at the end is one more frame at the end. *)
LEMMA FlattenAppend ==
    ASSUME NEW S, NEW s \in Seq(Seq(S)), NEW x \in Seq(S)
    PROVE  FlattenSeq(Append(s, x)) = FlattenSeq(s) \o x
<1> DEFINE t == Append(s, x)
           n == Len(s)
<1>1. /\ t \in Seq(Seq(S)) /\ Len(t) = n + 1 /\ n \in Nat /\ t[n + 1] = x
      /\ Alike(s, t, n) /\ t # <<>>
  BY DEF Alike
<1> HIDE DEF t
<1>2. PICK g : Flattens(g, t, n + 1) /\ FlattenSeq(t) = g[n + 1]
  BY <1>1, FlattenIs
<1>3. CASE s = <<>>
  <2>1. n = 0 /\ FlattenSeq(s) = <<>>
    BY <1>3, FlattenIs
  <2>2. g[1] = t[1]
    BY <1>2, <2>1 DEF Flattens
  <2> QED
    BY <1>1, <1>2, <2>1, <2>2 DEF t
<1>4. CASE s # <<>>
  <2>1. PICK f : Flattens(f, s, n) /\ FlattenSeq(s) = f[n]
    BY <1>4, FlattenIs
  <2>2. n # 0
    BY <1>4
  <2> HIDE DEF n
  <2>3. f[n] = g[n]
    <3> DEFINE m == n + 1
    <3>1. m \in Nat /\ n <= m /\ Flattens(g, t, m) /\ n \in 1..n
      BY <1>1, <1>2, <2>2
    <3> HIDE DEF m
    <3> QED
      BY <1>1, <2>1, <3>1, FlattensUnique
  <2>4. g[n + 1] = g[n] \o t[n + 1]
    <3>1. n + 1 \in 1..(n + 1) /\ n + 1 # 1 /\ (n + 1) - 1 = n
      BY <1>1, <2>2
    <3> QED
      BY <1>2, <3>1 DEF Flattens
  <2> QED
    BY <1>1, <1>2, <2>1, <2>3, <2>4 DEF t
<1> QED
  BY <1>3, <1>4

(* A sequence is what its first elements are, and one more. *)
LEMMA SubSeqStep ==
    ASSUME NEW S, NEW s \in Seq(S), NEW n \in Nat, n < Len(s)
    PROVE  /\ SubSeq(s, 1, n) \in Seq(S) /\ s[n + 1] \in S
           /\ SubSeq(s, 1, n + 1) = Append(SubSeq(s, 1, n), s[n + 1])
           /\ SubSeq(s, 1, 0) = <<>>
<1> DEFINE a == SubSeq(s, 1, n)
           b == SubSeq(s, 1, n + 1)
           e == s[n + 1]
<1>1. \A i \in 1..(n + 1) : s[i] \in S
  BY ElementOfSeq
<1>2. a \in Seq(S) /\ Len(a) = n /\ \A i \in 1..n : a[i] = s[i]
  BY <1>1, SubSeqProperties
<1>3. b \in Seq(S) /\ Len(b) = n + 1 /\ \A i \in 1..(n + 1) : b[i] = s[i]
  BY <1>1, SubSeqProperties
<1>4. SubSeq(s, 1, 0) = <<>>
  <2>1. SubSeq(s, 1, 0) \in Seq(S) /\ Len(SubSeq(s, 1, 0)) = 0
    BY SubSeqProperties
  <2> QED
    BY <2>1, EmptySeq
<1>5. e \in S
  BY <1>1
<1> HIDE DEF a, b
<1>6. /\ Append(a, e) \in Seq(S) /\ Len(Append(a, e)) = n + 1
      /\ \A i \in 1..(n + 1) : Append(a, e)[i] = s[i]
  BY <1>2, <1>5
<1> HIDE DEF e
<1>7. Append(a, e) = b
  BY <1>3, <1>6, SeqEqual
<1> QED
  BY <1>2, <1>4, <1>5, <1>7 DEF a, b, e

(* The flattening of a stack, frame by frame. *)
LEMMA FlattenSteps ==
    ASSUME NEW S, NEW s \in Seq(Seq(S))
    PROVE  /\ FlattenSeq(SubSeq(s, 1, 0)) = <<>>
           /\ \A n \in 0..(Len(s) - 1) :
                 FlattenSeq(SubSeq(s, 1, n + 1)) = FlattenSeq(SubSeq(s, 1, n)) \o s[n + 1]
           /\ \A n \in 0..Len(s) : FlattenSeq(SubSeq(s, 1, n)) \in Seq(S)
           /\ FlattenSeq(SubSeq(s, 1, Len(s))) = FlattenSeq(s)
<1> DEFINE F(n) == FlattenSeq(SubSeq(s, 1, n))
           Q == {n \in Nat : n <= Len(s) => F(n) \in Seq(S)}
<1>0. Len(s) \in Nat
  OBVIOUS
<1>1. F(0) = <<>>
  <2>1. SubSeq(s, 1, 0) = <<>>
    BY EmptySeq, SubSeqEmpty
  <2> QED
    BY <2>1, EmptySeq, FlattenIs
<1>2. ASSUME NEW n \in 0..(Len(s) - 1) PROVE F(n + 1) = F(n) \o s[n + 1]
  <2>1. /\ SubSeq(s, 1, n) \in Seq(Seq(S)) /\ s[n + 1] \in Seq(S)
        /\ SubSeq(s, 1, n + 1) = Append(SubSeq(s, 1, n), s[n + 1])
    BY <1>0, SubSeqStep
  <2> QED
    BY <2>1, FlattenAppend
<1>3. 0 \in Q
  BY <1>1, EmptySeq
<1>4. ASSUME NEW n \in Nat, n \in Q PROVE n + 1 \in Q
  <2> SUFFICES ASSUME n + 1 <= Len(s) PROVE F(n + 1) \in Seq(S)
    OBVIOUS
  <2>1. F(n) \in Seq(S) /\ n \in 0..(Len(s) - 1)
    BY <1>0, <1>4
  <2>2. s[n + 1] \in Seq(S)
    BY <1>0, ElementOfSeq
  <2>3. F(n + 1) = F(n) \o s[n + 1]
    BY <1>2, <2>1
  <2> HIDE DEF F
  <2> QED
    BY <2>1, <2>2, <2>3, ConcatProperties
<1>5. SubSeq(s, 1, Len(s)) = s
  BY SubSeqFull
<1> HIDE DEF Q
<1>6. Nat \subseteq Q
  BY <1>3, <1>4, NatSetInduction
<1>7. \A n \in 0..Len(s) : F(n) \in Seq(S)
  <2> SUFFICES ASSUME NEW n \in 0..Len(s) PROVE F(n) \in Seq(S)
    OBVIOUS
  <2>1. n \in Nat /\ n <= Len(s) /\ n \in Q
    BY <1>0, <1>6
  <2> QED
    BY <2>1 DEF Q
<1> QED
  BY <1>1, <1>2, <1>5, <1>7

(* The symbols of a stack are a sequence. *)
LEMMA FlattenType ==
    ASSUME NEW S, NEW s \in Seq(Seq(S))
    PROVE  FlattenSeq(s) \in Seq(S)
<1>1. Len(s) \in 0..Len(s)
  OBVIOUS
<1>2. FlattenSeq(SubSeq(s, 1, Len(s))) \in Seq(S)
  BY <1>1, FlattenSteps
<1>3. FlattenSeq(SubSeq(s, 1, Len(s))) = FlattenSeq(s)
  BY FlattenSteps
<1> QED
  BY <1>2, <1>3

(* The raw names of the symbols are the symbols' raw names. *)
LEMMA FlattenRawNames ==
    ASSUME NEW S, NEW frames \in Seq(Seq(S))
    PROVE  /\ DOMAIN FlattenSeq(RawNames(frames)) = DOMAIN FlattenSeq(frames)
           /\ \A i \in DOMAIN FlattenSeq(frames) :
                 FlattenSeq(RawNames(frames))[i] = RawName(FlattenSeq(frames)[i])
<1> DEFINE R == {RawName(s) : s \in S}
           Raw(x) == [j \in DOMAIN x |-> RawName(x[j])]
           Q == {f \in Seq(Seq(S)) : FlattenSeq(RawNames(f)) = Raw(FlattenSeq(f))}
<1>1. ASSUME NEW x \in Seq(S) PROVE Raw(x) \in Seq(R) /\ Len(Raw(x)) = Len(x)
  OBVIOUS
<1>2. ASSUME NEW f \in Seq(Seq(S))
      PROVE  /\ RawNames(f) \in Seq(Seq(R)) /\ Len(RawNames(f)) = Len(f)
             /\ \A i \in 1..Len(f) : RawNames(f)[i] = Raw(f[i])
  <2>1. \A i \in 1..Len(f) : f[i] \in Seq(S)
    BY ElementOfSeq
  <2>2. RawNames(f) = [i \in 1..Len(f) |-> Raw(f[i])]
    BY DEF RawNames
  <2>3. \A i \in 1..Len(f) : Raw(f[i]) \in Seq(R)
    BY <1>1, <2>1
  <2> HIDE DEF Raw, R
  <2> QED
    BY <2>2, <2>3
<1>3. <<>> \in Q
  <2>1. <<>> \in Seq(Seq(S)) /\ <<>> \in Seq(Seq(R)) /\ Len(<<>>) = 0
    BY EmptySeq
  <2>2. RawNames(<<>>) = <<>>
    BY <1>2, <2>1, EmptySeq
  <2>3. FlattenSeq(<<>>) = <<>>
    BY <2>1, FlattenIs
  <2>4. Raw(<<>>) = <<>>
    OBVIOUS
  <2> QED
    BY <2>1, <2>2, <2>3, <2>4
<1>4. ASSUME NEW f \in Seq(Seq(S)), NEW x \in Seq(S), f \in Q
      PROVE  Append(f, x) \in Q
  <2> DEFINE t == Append(f, x)
             u == Append(RawNames(f), Raw(x))
  <2>1. t \in Seq(Seq(S)) /\ Len(t) = Len(f) + 1
        /\ \A i \in 1..(Len(f) + 1) : t[i] = IF i <= Len(f) THEN f[i] ELSE x
    <3>1. /\ t \in Seq(Seq(S)) /\ Len(t) = Len(f) + 1 /\ t[Len(f) + 1] = x
          /\ \A i \in 1..Len(f) : t[i] = f[i]
      BY AppendProperties
    <3> HIDE DEF t
    <3>2. \A i \in 1..(Len(f) + 1) : IF i <= Len(f) THEN i \in 1..Len(f) ELSE i = Len(f) + 1
      BY LenProperties
    <3> QED
      BY <3>1, <3>2
  <2>2. RawNames(t) \in Seq(Seq(R)) /\ Len(RawNames(t)) = Len(t)
        /\ \A i \in 1..Len(t) : RawNames(t)[i] = Raw(t[i])
    BY <1>2, <2>1
  <2>3. /\ RawNames(f) \in Seq(Seq(R)) /\ Len(RawNames(f)) = Len(f)
        /\ \A i \in 1..Len(f) : RawNames(f)[i] = Raw(f[i])
    BY <1>2
  <2>4. Raw(x) \in Seq(R)
    BY <1>1
  <2>5. FlattenSeq(RawNames(f)) = Raw(FlattenSeq(f))
    BY <1>4
  <2> HIDE DEF Raw, R, t
  <2>6. u \in Seq(Seq(R)) /\ Len(u) = Len(f) + 1
        /\ \A i \in 1..(Len(f) + 1) : u[i] = IF i <= Len(f) THEN RawNames(f)[i] ELSE Raw(x)
    BY <2>3, <2>4
  <2> HIDE DEF u
  <2>7. RawNames(t) = u
    <3>1. ASSUME NEW i \in 1..Len(u) PROVE RawNames(t)[i] = u[i]
      <4>1. i \in 1..(Len(f) + 1) /\ Len(f) \in Nat
        BY <2>6
      <4>2. RawNames(t)[i] = Raw(t[i]) /\ t[i] = IF i <= Len(f) THEN f[i] ELSE x
        BY <2>1, <2>2, <4>1
      <4>3. u[i] = IF i <= Len(f) THEN RawNames(f)[i] ELSE Raw(x)
        BY <2>6, <4>1
      <4>4. i <= Len(f) => RawNames(f)[i] = Raw(f[i])
        BY <2>3, <4>1
      <4> QED
        BY <4>2, <4>3, <4>4
    <3>2. Len(RawNames(t)) = Len(u)
      BY <2>1, <2>2, <2>6
    <3> QED
      BY <2>2, <2>6, <3>1, <3>2, SeqEqual
  <2>8. FlattenSeq(u) = FlattenSeq(RawNames(f)) \o Raw(x)
    BY <2>3, <2>4, FlattenAppend DEF u
  <2>9. FlattenSeq(t) = FlattenSeq(f) \o x
    BY FlattenAppend DEF t
  <2>10. Raw(FlattenSeq(f) \o x) = Raw(FlattenSeq(f)) \o Raw(x)
    <3> DEFINE a == FlattenSeq(f)
    <3>1. a \in Seq(S)
      BY FlattenType
    <3> HIDE DEF a
    <3>2. a \o x \in Seq(S) /\ Len(a \o x) = Len(a) + Len(x)
          /\ \A i \in 1..(Len(a) + Len(x)) :
                (a \o x)[i] = IF i <= Len(a) THEN a[i] ELSE x[i - Len(a)]
      BY <3>1, ConcatProperties
    <3>3. /\ Raw(a) \in Seq(R) /\ Len(Raw(a)) = Len(a)
          /\ Raw(x) \in Seq(R) /\ Len(Raw(x)) = Len(x)
          /\ Raw(a \o x) \in Seq(R) /\ Len(Raw(a \o x)) = Len(a) + Len(x)
      BY <1>1, <3>1, <3>2
    <3>4. Raw(a) \o Raw(x) \in Seq(R) /\ Len(Raw(a) \o Raw(x)) = Len(a) + Len(x)
          /\ \A i \in 1..(Len(a) + Len(x)) :
                (Raw(a) \o Raw(x))[i] = IF i <= Len(a) THEN Raw(a)[i] ELSE Raw(x)[i - Len(a)]
      <4> DEFINE p == Raw(a)
                 q == Raw(x)
      <4>1. p \in Seq(R) /\ q \in Seq(R) /\ Len(p) = Len(a) /\ Len(q) = Len(x)
        BY <3>3
      <4> HIDE DEF p, q
      <4>2. p \o q \in Seq(R) /\ Len(p \o q) = Len(p) + Len(q)
            /\ \A i \in 1..(Len(p) + Len(q)) :
                  (p \o q)[i] = IF i <= Len(p) THEN p[i] ELSE q[i - Len(p)]
        BY <4>1, ConcatProperties
      <4>3. p \o q \in Seq(R) /\ Len(p \o q) = Len(a) + Len(x)
            /\ \A i \in 1..(Len(a) + Len(x)) :
                  (p \o q)[i] = IF i <= Len(a) THEN p[i] ELSE q[i - Len(a)]
        BY <4>1, <4>2
      <4> QED
        BY <4>3 DEF p, q
    <3>5. Len(a) \in Nat /\ Len(x) \in Nat /\ DOMAIN a = 1..Len(a) /\ DOMAIN x = 1..Len(x)
          /\ DOMAIN (a \o x) = 1..(Len(a) + Len(x))
      BY <3>1, <3>2
    <3>6. ASSUME NEW i \in 1..(Len(a) + Len(x))
          PROVE  Raw(a \o x)[i] = (Raw(a) \o Raw(x))[i]
      <4>1. Raw(a \o x)[i] = RawName((a \o x)[i])
        BY <3>5 DEF Raw
      <4>2. CASE i <= Len(a)
        <5>1. i \in DOMAIN a
          BY <3>5, <4>2
        <5>2. Raw(a)[i] = RawName(a[i])
          BY <5>1 DEF Raw
        <5> QED
          BY <3>2, <3>4, <4>1, <4>2, <5>2
      <4>3. CASE ~(i <= Len(a))
        <5> DEFINE j == i - Len(a)
        <5>1. j \in DOMAIN x
          BY <3>5, <4>3
        <5>2. (a \o x)[i] = x[j] /\ (Raw(a) \o Raw(x))[i] = Raw(x)[j]
          BY <3>2, <3>4, <4>3
        <5> HIDE DEF j
        <5>3. Raw(x)[j] = RawName(x[j])
          BY <5>1 DEF Raw
        <5> QED
          BY <4>1, <5>2, <5>3
      <4> QED
        BY <4>2, <4>3
    <3>7. Raw(a \o x) = Raw(a) \o Raw(x)
      <4> DEFINE p == Raw(a \o x)
                 q == Raw(a) \o Raw(x)
      <4>1. p \in Seq(R) /\ q \in Seq(R) /\ Len(p) = Len(q) /\ \A i \in 1..Len(p) : p[i] = q[i]
        BY <3>3, <3>4, <3>6
      <4> HIDE DEF p, q
      <4>2. p = q
        BY <4>1, SeqEqual
      <4> QED
        BY <4>2 DEF p, q
    <3> QED
      BY <3>7 DEF a
  <2>11. FlattenSeq(RawNames(t)) = Raw(FlattenSeq(t))
    BY <2>5, <2>7, <2>8, <2>9, <2>10
  <2> QED
    BY <2>1, <2>11 DEF t
<1> HIDE DEF Q
<1>5. Seq(Seq(S)) \subseteq Q
  BY <1>3, <1>4, SeqSetInduction
<1>6. frames \in Q
  BY <1>5
<1> QED
  BY <1>6 DEF Q

(* Equal Frames are written as the same stack: a name is what the raw name *)
(* is demangled to.                                                        *)
LEMMA EqualFramesEqualStack ==
    ASSUME NEW S, NEW f, NEW g, f.frames \in Seq(Seq(S)), g.frames \in Seq(Seq(S)),
           FramesEq(f, g)
    PROVE  Stack(f) = Stack(g)
<1> DEFINE raw == FlattenSeq(RawNames(f.frames))
           a == FlattenSeq(f.frames)
           b == FlattenSeq(g.frames)
<1>1. /\ DOMAIN a = DOMAIN raw /\ \A i \in DOMAIN a : raw[i] = RawName(a[i])
  BY FlattenRawNames
<1>2. RawNames(f.frames) = RawNames(g.frames)
  BY DEF FramesEq
<1>3. /\ DOMAIN b = DOMAIN raw /\ \A i \in DOMAIN b : raw[i] = RawName(b[i])
  BY <1>2, FlattenRawNames
<1>4. Names(f) = [i \in DOMAIN a |-> Name(a[i])] /\ Names(g) = [i \in DOMAIN b |-> Name(b[i])]
  BY DEF Names, Symbols
<1> HIDE DEF a, b, raw
<1>5. \A i \in DOMAIN a : Name(a[i]) = Demangle[raw[i]]
  BY <1>1 DEF Name
<1>6. \A i \in DOMAIN b : Name(b[i]) = Demangle[raw[i]]
  BY <1>3 DEF Name
<1>7. Names(f) = Names(g)
  BY <1>1, <1>3, <1>4, <1>5, <1>6
<1>8. ThreadNameOrId(f) = ThreadNameOrId(g)
  BY DEF FramesEq, ThreadNameOrId
<1> QED
  BY <1>7, <1>8 DEF Stack

-----------------------------------------------------------------------------
(* Folded stacks *)

(* What a report holds: at least one sample for each of finitely many      *)
(* stacks.                                                                 *)
IsReport(report) ==
    /\ IsFiniteSet(DOMAIN report)
    /\ \A key \in DOMAIN report : report[key] \in Nat \ {0}

(* The samples of a report by the stack they are written as. *)
ByStack(report) == Grouped(report, [key \in DOMAIN report |-> Stack(key)])

(* Lines that give each key of a walk its stack and its count say what the *)
(* report says.                                                            *)
LEMMA LinesTally ==
    ASSUME NEW report, IsReport(report), NEW order \in SetToSeqs(DOMAIN report),
           NEW lines, DOMAIN lines = DOMAIN order,
           \A i \in DOMAIN order : /\ lines[i].stack = Stack(order[i])
                                   /\ lines[i].weight = report[order[i]]
    PROVE  Tally(lines) = ByStack(report)
<1> DEFINE data == [i \in DOMAIN lines |-> lines[i].weight]
           by == [i \in DOMAIN lines |-> lines[i].stack]
           otherBy == [key \in DOMAIN report |-> Stack(key)]
<1>1. /\ Len(order) \in Nat /\ DOMAIN order = 1..Len(order)
      /\ \A i \in DOMAIN order : order[i] \in DOMAIN report
      /\ \A i, j \in DOMAIN order : order[i] = order[j] => i = j
      /\ {order[i] : i \in DOMAIN order} = DOMAIN report
  BY WalkPasses DEF IsReport
<1>2. DOMAIN data = DOMAIN order /\ IsFiniteSet(DOMAIN data)
  BY <1>1, FS_Interval
<1>3. \A i \in DOMAIN data : report[order[i]] = data[i] /\ data[i] \in Int
  BY <1>1, <1>2 DEF IsReport
<1>4. \A i \in DOMAIN data : otherBy[order[i]] = by[i]
  BY <1>1, <1>2
<1> HIDE DEF data, by, otherBy
<1>5. Grouped(data, by) = Grouped(report, otherBy)
  <2>1. \A i \in DOMAIN data : report[order[i]] = data[i] /\ otherBy[order[i]] = by[i]
    BY <1>3, <1>4
  <2>2. \A i, j \in DOMAIN data : order[i] = order[j] => i = j
    BY <1>1, <1>2
  <2>3. DOMAIN report = {order[i] : i \in DOMAIN data}
    BY <1>1, <1>2
  <2>4. \A i \in DOMAIN data : data[i] \in Int
    BY <1>3
  <2>5. IsData(data) /\ Renames(order, data, by, report, otherBy)
    BY <1>2, <2>1, <2>2, <2>3, <2>4 DEF IsData, Renames
  <2> QED
    BY <2>5, GroupReindex
<1> QED
  BY <1>5 DEF Tally, ByStack, data, by, otherBy

(* The folded stacks say what the report says. *)
LEMMA FoldedTally ==
    ASSUME NEW report, IsReport(report), NEW order \in SetToSeqs(DOMAIN report)
    PROVE  Tally(Folded(report, order)) = ByStack(report)
<1> DEFINE lines == Folded(report, order)
<1>1. \A i \in DOMAIN order : order[i] \in DOMAIN report
  BY WalkPasses DEF IsReport
<1>2. \A i \in DOMAIN order : report[order[i]] > 0
  BY <1>1 DEF IsReport
<1>3. /\ DOMAIN lines = DOMAIN order
      /\ \A i \in DOMAIN order : /\ lines[i].stack = Stack(order[i])
                                 /\ lines[i].weight = report[order[i]]
  BY <1>2 DEF Folded
<1> HIDE DEF lines
<1>4. Tally(lines) = ByStack(report)
  BY <1>3, LinesTally
<1> QED
  BY <1>4 DEF lines

(* The larger of a natural number and zero is the number. *)
LEMMA MaxZero ==
    ASSUME NEW n \in Nat
    PROVE  Max({n, 0}) = n
<1>1. n \in {n, 0} /\ \A y \in {n, 0} : n >= y
  OBVIOUS
<1>2. ASSUME NEW x \in {n, 0}, \A y \in {n, 0} : x >= y PROVE x = n
  BY <1>2
<1> QED
  BY <1>1, <1>2 DEF Max

(* total_samples is the sum over the stacks. *)
LEMMA TotalIsSum ==
    ASSUME NEW report, IsReport(report)
    PROVE  TotalSamples(report) = SumFunction(report)
<1> DEFINE f == [key \in DOMAIN report |-> Max({report[key], 0})]
<1>1. \A key \in DOMAIN report : f[key] = report[key]
  BY MaxZero DEF IsReport
<1>2. IsFiniteSet(DOMAIN report) /\ DOMAIN f = DOMAIN report
  BY DEF IsReport
<1> HIDE DEF f
<1>3. SumFunctionOnSet(f, DOMAIN report) = SumFunctionOnSet(report, DOMAIN report)
  BY <1>1, <1>2, SumEqual
<1>4. TotalSamples(report) = SumFunctionOnSet(f, DOMAIN report)
  BY <1>2 DEF TotalSamples, SumFunction, f
<1> QED
  BY <1>3, <1>4 DEF SumFunction

-----------------------------------------------------------------------------
(* Building a report *)

(* Grouping looks at the places of the data alone. *)
LEMMA GroupSame ==
    ASSUME NEW data, NEW by, NEW other, \A x \in DOMAIN data : by[x] = other[x]
    PROVE  Grouped(data, by) = Grouped(data, other)
<1>1. {by[x] : x \in DOMAIN data} = {other[x] : x \in DOMAIN data}
  OBVIOUS
<1>2. \A v : {x \in DOMAIN data : by[x] = v} = {x \in DOMAIN data : other[x] = v}
  OBVIOUS
<1> QED
  BY <1>1, <1>2 DEF Grouped

(* A report is data. *)
LEMMA ReportIsData ==
    ASSUME NEW report, IsReport(report)
    PROVE  IsData(report)
  BY DEF IsReport, IsData

(* The report nothing was added to. *)
LEMMA EmptyReport == IsReport(<<>>) /\ DOMAIN <<>> = {}
  BY FS_EmptySet DEF IsReport

(* A report stays one when samples are added. *)
LEMMA AddedReport ==
    ASSUME NEW report, IsReport(report), NEW key, NEW n \in Nat \ {0}
    PROVE  /\ IsReport(Added(report, key, n))
           /\ DOMAIN Added(report, key, n) = DOMAIN report \union {key}
<1> DEFINE new == Added(report, key, n)
<1>1. /\ DOMAIN new = DOMAIN report \union {key}
      /\ new[key] = (IF key \in DOMAIN report THEN report[key] ELSE 0) + n
      /\ \A x \in DOMAIN report \ {key} : new[x] = report[x]
  BY DEF Added, Insert
<1>2. new[key] \in Nat \ {0}
  <2> HIDE DEF new
  <2>1. key \in DOMAIN report => report[key] \in Nat \ {0}
    BY DEF IsReport
  <2> QED
    BY <1>1, <2>1
<1>3. IsFiniteSet(DOMAIN new)
  BY <1>1, FS_AddElement DEF IsReport
<1> HIDE DEF new
<1>4. \A x \in DOMAIN new : new[x] \in Nat \ {0}
  BY <1>1, <1>2 DEF IsReport
<1>5. IsReport(new)
  BY <1>3, <1>4 DEF IsReport
<1> QED
  BY <1>1, <1>5 DEF new

-----------------------------------------------------------------------------
(* Speedscope *)

(* names is a table of names in W, and indices says where some of them are. *)
IsTable(indices, names, W) ==
    /\ names \in Seq(W)
    /\ \A n \in DOMAIN indices : /\ indices[n] \in Nat /\ indices[n] < Len(names)
                                 /\ names[indices[n] + 1] = n

(* Entries are only added to a table, at its end. *)
Grows(old, new) == Len(old) <= Len(new) /\ \A i \in 1..Len(old) : new[i] = old[i]

(* The indices of a sample point at its stack. *)
PointsAt(sample, names, stack) ==
    /\ sample \in Seq(Nat) /\ Len(sample) = Len(stack)
    /\ \A j \in 1..Len(stack) :
          sample[j] < Len(names) /\ names[sample[j] + 1] = stack[j]

(* What pointed at a stack still does when the table has grown. *)
LEMMA PointsAtGrown ==
    ASSUME NEW W, NEW old \in Seq(W), NEW new \in Seq(W), Grows(old, new),
           NEW V, NEW stack \in Seq(V),
           NEW sample, PointsAt(sample, old, stack)
    PROVE  PointsAt(sample, new, stack)
<1>1. /\ Len(old) \in Nat /\ Len(new) \in Nat /\ Len(old) <= Len(new)
      /\ Len(stack) \in Nat
  BY DEF Grows
<1>2. ASSUME NEW j \in 1..Len(stack)
      PROVE  sample[j] < Len(new) /\ new[sample[j] + 1] = stack[j]
  <2>1. sample[j] \in Nat /\ sample[j] < Len(old) /\ old[sample[j] + 1] = stack[j]
    BY ElementOfSeq DEF PointsAt
  <2> DEFINE i == sample[j] + 1
  <2>2. i \in 1..Len(old) /\ sample[j] < Len(new)
    BY <1>1, <2>1
  <2>3. new[i] = old[i]
    BY <2>2 DEF Grows
  <2> QED
    BY <2>1, <2>2, <2>3
<1> QED
  BY <1>2 DEF PointsAt

(* A table grows by a name pushed to it. *)
LEMMA PushGrows ==
    ASSUME NEW W, NEW names \in Seq(W), NEW name \in W
    PROVE  /\ Append(names, name) \in Seq(W) /\ Grows(names, Append(names, name))
           /\ Len(Append(names, name)) = Len(names) + 1 /\ Len(names) \in Nat
           /\ Append(names, name)[Len(names) + 1] = name
<1>1. /\ Append(names, name) \in Seq(W) /\ Len(Append(names, name)) = Len(names) + 1
      /\ Append(names, name)[Len(names) + 1] = name /\ Len(names) \in Nat
      /\ \A i \in 1..Len(names) : Append(names, name)[i] = names[i]
  OBVIOUS
<1> QED
  BY <1>1 DEF Grows

(* Growing twice is growing. *)
LEMMA GrowsTwice ==
    ASSUME NEW V, NEW a \in Seq(V), NEW b \in Seq(V), NEW c \in Seq(V),
           Grows(a, b), Grows(b, c)
    PROVE  Grows(a, c) /\ Grows(a, a)
<1>1. Len(a) \in Nat /\ Len(b) \in Nat /\ Len(c) \in Nat
  OBVIOUS
<1>2. Len(a) <= Len(c) /\ \A i \in 1..Len(a) : i \in 1..Len(b) /\ c[i] = a[i]
  BY <1>1 DEF Grows
<1> QED
  BY <1>1, <1>2 DEF Grows

(* new is acc with a name pushed to the sample, and to the table if it is   *)
(* not there.                                                              *)
Pushed(acc, new, name, W) ==
    \E idx \in Nat : /\ IsTable(new.indices, new.names, W)
                     /\ Grows(acc.names, new.names)
                     /\ idx < Len(new.names) /\ new.names[idx + 1] = name
                     /\ new.sample = Append(acc.sample, idx)

(* get_frame_idx points at the name it is asked for. *)
LEMMA FrameIdxPoints ==
    ASSUME NEW W, NEW acc, IsTable(acc.indices, acc.names, W), NEW name \in W
    PROVE  Pushed(acc, FrameIdx(acc, name), name, W)
<1> DEFINE known == name \in DOMAIN acc.indices
           idx == IF known THEN acc.indices[name] ELSE Len(acc.names)
           new == FrameIdx(acc, name)
           names == acc.names
           indices == acc.indices
<1>1. /\ new.indices = IF known THEN indices ELSE Insert(indices, name, idx)
      /\ new.names = IF known THEN names ELSE Append(names, name)
      /\ new.sample = Append(acc.sample, idx)
  BY DEF FrameIdx
<1>2. names \in Seq(W) /\ Len(names) \in Nat
  BY DEF IsTable
<1>3. CASE known
  <2>1. new.indices = indices /\ new.names = names /\ idx = indices[name]
    BY <1>1, <1>3
  <2>2. indices[name] \in Nat /\ indices[name] < Len(names) /\ names[indices[name] + 1] = name
    BY <1>3 DEF IsTable
  <2>3. Grows(names, names)
    BY <1>2 DEF Grows
  <2> HIDE DEF new, idx, names, indices
  <2>4. IsTable(indices, names, W)
    BY DEF names, indices
  <2> QED
    BY <1>1, <2>1, <2>2, <2>3, <2>4 DEF Pushed, new, names
<1>4. CASE ~known
  <2>1. /\ new.indices = Insert(indices, name, idx) /\ new.names = Append(names, name)
        /\ idx = Len(names)
    BY <1>1, <1>4
  <2> HIDE DEF new
  <2>2. /\ new.names \in Seq(W) /\ Grows(names, new.names)
        /\ Len(new.names) = Len(names) + 1 /\ new.names[Len(names) + 1] = name
    BY <1>2, <2>1, PushGrows
  <2>3. ASSUME NEW n \in DOMAIN new.indices
        PROVE  /\ new.indices[n] \in Nat /\ new.indices[n] < Len(new.names)
               /\ new.names[new.indices[n] + 1] = n
    <3>1. CASE n = name
      <4>1. new.indices[n] = Len(names)
        BY <2>1, <3>1 DEF Insert
      <4> QED
        BY <1>2, <2>2, <3>1, <4>1
    <3>2. CASE n # name
      <4>1. n \in DOMAIN indices /\ new.indices[n] = indices[n]
        BY <2>1, <2>3, <3>2 DEF Insert
      <4>2. indices[n] \in Nat /\ indices[n] < Len(names) /\ names[indices[n] + 1] = n
        BY <4>1 DEF IsTable
      <4> DEFINE i == indices[n] + 1
      <4>3. i \in 1..Len(names)
        BY <1>2, <4>2
      <4>4. new.names[i] = names[i]
        BY <2>2, <4>3 DEF Grows
      <4> HIDE DEF names, indices
      <4> QED
        BY <1>2, <2>2, <4>1, <4>2, <4>4
    <3> QED
      BY <3>1, <3>2
  <2>4. IsTable(new.indices, new.names, W)
    BY <2>2, <2>3 DEF IsTable
  <2>5. idx < Len(new.names) /\ new.names[idx + 1] = name /\ idx \in Nat
    BY <1>2, <2>1, <2>2
  <2> HIDE DEF idx
  <2> QED
    BY <1>1, <2>2, <2>4, <2>5 DEF Pushed, new
<1> QED
  BY <1>3, <1>4

(* The loop over a stack, unfolded. *)
LEMMA FrameTurns ==
    ASSUME NEW S, NEW stack \in Seq(S), NEW acc
    PROVE  \E r : /\ \A i \in 0..Len(stack) :
                        r[i] = IF i = 0 THEN [indices |-> acc.indices, names |-> acc.names, sample |-> <<>>]
                               ELSE FrameIdx(r[i - 1], stack[i])
                  /\ FrameIndices(acc, stack) = r[Len(stack)]
<1> DEFINE start == [indices |-> acc.indices, names |-> acc.names, sample |-> <<>>]
           Turns(r, n) ==
               r = [i \in 0..n |-> IF i = 0 THEN start ELSE FrameIdx(r[i - 1], stack[i])]
           Q == {n \in Nat : \E r : Turns(r, n)}
           r == CHOOSE f : Turns(f, Len(stack))
<1>1. FrameIndices(acc, stack) = r[Len(stack)]
  BY DEF FrameIndices
<1> HIDE DEF start
<1>2. 0 \in Q
  <2> DEFINE f == [i \in 0..0 |-> start]
  <2>1. Turns(f, 0)
    OBVIOUS
  <2> QED
    BY <2>1
<1>3. ASSUME NEW n \in Nat, n \in Q PROVE n + 1 \in Q
  <2>1. PICK f : Turns(f, n)
    BY <1>3
  <2> DEFINE g == [i \in 0..(n + 1) |->
                      IF i = 0 THEN start ELSE FrameIdx(f[i - 1], stack[i])]
  <2>2. \A i \in 0..n : f[i] = IF i = 0 THEN start ELSE FrameIdx(f[i - 1], stack[i])
    BY <2>1
  <2>3. \A i \in 0..n : g[i] = f[i]
    BY <2>2
  <2>4. \A i \in 0..(n + 1) : i # 0 => i - 1 \in 0..n
    OBVIOUS
  <2>5. \A i \in 0..(n + 1) : i # 0 => g[i - 1] = f[i - 1]
    BY <2>3, <2>4
  <2>6. g = [i \in 0..(n + 1) |-> IF i = 0 THEN start ELSE FrameIdx(g[i - 1], stack[i])]
    BY <2>5
  <2> HIDE DEF g
  <2>7. Turns(g, n + 1) /\ n + 1 \in Nat
    BY <2>6
  <2> HIDE DEF Turns
  <2> QED
    BY <2>7
<1> HIDE DEF Q
<1>4. Nat \subseteq Q
  BY <1>2, <1>3, NatSetInduction
<1>5. Turns(r, Len(stack))
  <2>1. Len(stack) \in Q
    BY <1>4
  <2> QED
    BY <2>1 DEF Q
<1> HIDE DEF r
<1>6. \A i \in 0..Len(stack) :
         r[i] = IF i = 0 THEN start ELSE FrameIdx(r[i - 1], stack[i])
  BY <1>5
<1> QED
  BY <1>1, <1>6 DEF start

(* The sample pushed for a stack points at it. *)
LEMMA SamplePointsAt ==
    ASSUME NEW W, NEW acc, IsTable(acc.indices, acc.names, W), NEW stack \in Seq(W)
    PROVE  /\ IsTable(FrameIndices(acc, stack).indices, FrameIndices(acc, stack).names, W)
           /\ Grows(acc.names, FrameIndices(acc, stack).names)
           /\ PointsAt(FrameIndices(acc, stack).sample, FrameIndices(acc, stack).names, stack)
<1> DEFINE start == [indices |-> acc.indices, names |-> acc.names, sample |-> <<>>]
           n == Len(stack)
           S(j) == SubSeq(stack, 1, j)
<1>1. PICK r : /\ \A j \in 0..n : r[j] = IF j = 0 THEN start ELSE FrameIdx(r[j - 1], stack[j])
               /\ FrameIndices(acc, stack) = r[n]
  BY FrameTurns
<1> DEFINE Good(j) == /\ IsTable(r[j].indices, r[j].names, W)
                      /\ Grows(acc.names, r[j].names)
                      /\ PointsAt(r[j].sample, r[j].names, S(j))
           Q == {j \in Nat : j <= n => Good(j)}
<1>2. n \in Nat /\ acc.names \in Seq(W)
  BY DEF IsTable
<1>3. 0 \in Q
  <2>1. r[0] = start
    BY <1>1, <1>2
  <2>2. r[0].indices = acc.indices /\ r[0].names = acc.names /\ r[0].sample = <<>>
    BY <2>1
  <2>3. S(0) = <<>> /\ Len(<<>>) = 0 /\ <<>> \in Seq(Nat)
    BY SubSeqEmpty, EmptySeq
  <2>4. PointsAt(<<>>, acc.names, <<>>)
    BY <2>3 DEF PointsAt
  <2>5. Grows(acc.names, acc.names)
    BY <1>2 DEF Grows
  <2> HIDE DEF S
  <2> QED
    BY <2>2, <2>3, <2>4, <2>5
<1>4. ASSUME NEW j \in Nat, j \in Q PROVE j + 1 \in Q
  <2> SUFFICES ASSUME j + 1 <= n PROVE Good(j + 1)
    OBVIOUS
  <2> DEFINE a == r[j]
             b == r[j + 1]
             name == stack[j + 1]
  <2>1. b = FrameIdx(a, name)
    <3>1. j + 1 \in 0..n /\ j + 1 # 0 /\ (j + 1) - 1 = j
      BY <1>2
    <3> QED
      BY <1>1, <3>1
  <2>2. S(j) \in Seq(W) /\ name \in W /\ S(j + 1) = Append(S(j), name)
    BY <1>2, SubSeqStep
  <2>3. IsTable(a.indices, a.names, W) /\ Grows(acc.names, a.names)
        /\ PointsAt(a.sample, a.names, S(j))
    BY <1>2, <1>4
  <2> HIDE DEF S, a, b, name, Q
  <2>4. PICK idx \in Nat : /\ IsTable(b.indices, b.names, W) /\ Grows(a.names, b.names)
                           /\ idx < Len(b.names) /\ b.names[idx + 1] = name
                           /\ b.sample = Append(a.sample, idx)
    <3>1. IsTable(a.indices, a.names, W) /\ name \in W
      BY <2>2, <2>3
    <3>2. Pushed(a, FrameIdx(a, name), name, W)
      BY <3>1, FrameIdxPoints
    <3> QED
      BY <2>1, <3>2 DEF Pushed
  <2>5. a.names \in Seq(W) /\ b.names \in Seq(W)
    BY <2>3, <2>4 DEF IsTable
  <2>6. Grows(acc.names, b.names)
    BY <1>2, <2>3, <2>4, <2>5, GrowsTwice
  <2>7. PointsAt(a.sample, b.names, S(j))
    BY <2>2, <2>3, <2>4, <2>5, PointsAtGrown
  <2> DEFINE s == S(j)
             t == a.sample
             names == b.names
  <2>8. PointsAt(Append(t, idx), names, Append(s, name))
    <3>1. s \in Seq(W) /\ t \in Seq(Nat) /\ Len(t) = Len(s) /\ Len(s) \in Nat
          /\ \A k \in 1..Len(s) : t[k] < Len(names) /\ names[t[k] + 1] = s[k]
      BY <2>2, <2>7 DEF PointsAt
    <3>2. idx < Len(names) /\ names[idx + 1] = name
      BY <2>4
    <3> HIDE DEF s, t, names
    <3>3. /\ Append(t, idx) \in Seq(Nat) /\ Len(Append(t, idx)) = Len(s) + 1
          /\ Len(Append(s, name)) = Len(s) + 1
      BY <3>1, <2>2
    <3>4. ASSUME NEW k \in 1..(Len(s) + 1)
          PROVE  /\ Append(t, idx)[k] < Len(names)
                 /\ names[Append(t, idx)[k] + 1] = Append(s, name)[k]
      <4>1. CASE k = Len(s) + 1
        <5>1. Append(t, idx)[k] = idx /\ Append(s, name)[k] = name
          BY <3>1, <4>1
        <5> QED
          BY <3>2, <5>1
      <4>2. CASE k \in 1..Len(s)
        <5>1. Append(t, idx)[k] = t[k] /\ Append(s, name)[k] = s[k]
          BY <3>1, <4>2
        <5> QED
          BY <3>1, <4>2, <5>1
      <4> QED
        BY <3>1, <4>1, <4>2
    <3> QED
      BY <3>3, <3>4 DEF PointsAt
  <2> QED
    BY <2>2, <2>4, <2>6, <2>8 DEF b
<1> HIDE DEF Q
<1>5. Nat \subseteq Q
  BY <1>3, <1>4, NatSetInduction
<1>6. Good(n)
  <2>1. n \in Q
    BY <1>2, <1>5
  <2> QED
    BY <1>2, <2>1 DEF Q
<1>7. S(n) = stack
  BY SubSeqFull
<1> QED
  BY <1>1, <1>6, <1>7

(* The names a report is written with. *)
Written(report) ==
    {Name(s) : s \in AllSymbols} \union {ThreadNameOrId(key) : key \in DOMAIN report}

(* A sequence reversed is a sequence over the same set. *)
LEMMA ReverseType ==
    ASSUME NEW S, NEW s \in Seq(S)
    PROVE  /\ Reverse(s) \in Seq(S) /\ Len(Reverse(s)) = Len(s)
           /\ \A i \in 1..Len(s) : Reverse(s)[i] = s[(Len(s) - i) + 1]
<1>1. Len(s) \in Nat /\ \A i \in 1..Len(s) : s[i] \in S
  BY ElementOfSeq
<1>2. \A i \in 1..Len(s) : (Len(s) - i) + 1 \in 1..Len(s)
  BY <1>1
<1>3. Reverse(s) \in [1..Len(s) -> S]
  BY <1>1, <1>2 DEF Reverse
<1>4. Reverse(s) \in Seq(S) /\ Len(Reverse(s)) = Len(s)
  BY <1>1, <1>3
<1> QED
  BY <1>4 DEF Reverse

(* They make up its stacks. *)
LEMMA StackType ==
    ASSUME NEW report, NEW key \in DOMAIN report, key.frames \in Seq(Seq(AllSymbols))
    PROVE  Stack(key) \in Seq(Written(report))
<1> DEFINE symbols == Symbols(key)
           W == Written(report)
<1>1. symbols \in Seq(AllSymbols)
  BY FlattenType DEF Symbols
<1>2. Names(key) \in Seq(W)
  <2>1. DOMAIN symbols = 1..Len(symbols) /\ Len(symbols) \in Nat
        /\ \A i \in 1..Len(symbols) : symbols[i] \in AllSymbols
    BY <1>1, ElementOfSeq
  <2>2. Names(key) \in [1..Len(symbols) -> W]
    BY <2>1 DEF Names, Written
  <2> QED
    BY <2>1, <2>2
<1>3. Reverse(Names(key)) \in Seq(W)
  BY <1>2, ReverseType
<1>4. <<ThreadNameOrId(key)>> \in Seq(W)
  BY DEF Written
<1> HIDE DEF W
<1>5. <<ThreadNameOrId(key)>> \o Reverse(Names(key)) \in Seq(W)
  BY <1>3, <1>4, ConcatProperties
<1> QED
  BY <1>5 DEF Stack, W

(* A report's keys are stacks of symbols. *)
IsKeyed(report) ==
    IsReport(report) /\ \A key \in DOMAIN report : key.frames \in Seq(Seq(AllSymbols))

(* The loop of write_speedscope, unfolded. *)
LEMMA SpeedscopeTurns ==
    ASSUME NEW S, NEW order \in Seq(S), NEW report
    PROVE  \E r : /\ \A i \in 0..Len(order) :
                        r[i] = IF i = 0 THEN [indices |-> <<>>, names |-> <<>>, samples |-> <<>>, weights |-> <<>>, total |-> 0]
                               ELSE SpeedscopeSample(r[i - 1], order[i], report[order[i]])
                  /\ Speedscope(report, order) = r[Len(order)]
<1> DEFINE start == [indices |-> <<>>, names |-> <<>>, samples |-> <<>>, weights |-> <<>>, total |-> 0]
           Turns(r, n) ==
               r = [i \in 0..n |-> IF i = 0 THEN start ELSE SpeedscopeSample(r[i - 1], order[i], report[order[i]])]
           Q == {n \in Nat : \E r : Turns(r, n)}
           r == CHOOSE f : Turns(f, Len(order))
<1>1. Speedscope(report, order) = r[Len(order)]
  BY DEF Speedscope
<1> HIDE DEF start
<1>2. 0 \in Q
  <2> DEFINE f == [i \in 0..0 |-> start]
  <2>1. Turns(f, 0)
    OBVIOUS
  <2> QED
    BY <2>1
<1>3. ASSUME NEW n \in Nat, n \in Q PROVE n + 1 \in Q
  <2>1. PICK f : Turns(f, n)
    BY <1>3
  <2> DEFINE g == [i \in 0..(n + 1) |->
                      IF i = 0 THEN start ELSE SpeedscopeSample(f[i - 1], order[i], report[order[i]])]
  <2>2. \A i \in 0..n : f[i] = IF i = 0 THEN start ELSE SpeedscopeSample(f[i - 1], order[i], report[order[i]])
    BY <2>1
  <2>3. \A i \in 0..n : g[i] = f[i]
    BY <2>2
  <2>4. \A i \in 0..(n + 1) : i # 0 => i - 1 \in 0..n
    OBVIOUS
  <2>5. \A i \in 0..(n + 1) : i # 0 => g[i - 1] = f[i - 1]
    BY <2>3, <2>4
  <2>6. g = [i \in 0..(n + 1) |-> IF i = 0 THEN start ELSE SpeedscopeSample(g[i - 1], order[i], report[order[i]])]
    BY <2>5
  <2> HIDE DEF g
  <2>7. Turns(g, n + 1) /\ n + 1 \in Nat
    BY <2>6
  <2> HIDE DEF Turns
  <2> QED
    BY <2>7
<1> HIDE DEF Q
<1>4. Nat \subseteq Q
  BY <1>2, <1>3, NatSetInduction
<1>5. Turns(r, Len(order))
  <2>1. Len(order) \in Q
    BY <1>4
  <2> QED
    BY <2>1 DEF Q
<1> HIDE DEF r
<1>6. \A i \in 0..Len(order) :
         r[i] = IF i = 0 THEN start ELSE SpeedscopeSample(r[i - 1], order[i], report[order[i]])
  BY <1>5
<1> QED
  BY <1>1, <1>6 DEF start

(* The sums of the walk: each stack adds its count. *)
LEMMA WalkSums ==
    ASSUME NEW report, IsReport(report), NEW order \in SetToSeqs(DOMAIN report)
    PROVE  LET W(i) == SumFunctionOnSet([j \in DOMAIN order |-> report[order[j]]], 1..i)
           IN  /\ W(0) = 0 /\ W(Len(order)) = SumFunction(report)
               /\ \A i \in 0..(Len(order) - 1) : W(i + 1) = W(i) + report[order[i + 1]]
<1> DEFINE f == [j \in DOMAIN order |-> report[order[j]]]
           n == Len(order)
           W(i) == SumFunctionOnSet(f, 1..i)
<1>1. /\ n \in Nat /\ DOMAIN order = 1..n
      /\ \A i \in DOMAIN order : order[i] \in DOMAIN report
      /\ \A i, j \in DOMAIN order : order[i] = order[j] => i = j
      /\ {order[i] : i \in DOMAIN order} = DOMAIN report
  BY WalkPasses DEF IsReport
<1>2. \A i \in 1..n : f[i] = report[order[i]] /\ f[i] \in Int
  BY <1>1 DEF IsReport
<1> HIDE DEF f
<1>3. W(0) = 0
  <2>1. 1..0 = {}
    OBVIOUS
  <2> QED
    BY <2>1, SumEmpty
<1>4. W(n) = SumFunction(report)
  <2> DEFINE S == 1..n
  <2>1. IsFiniteSet(S)
    BY <1>1, FS_Interval
  <2>2. \A x \in S : f[x] \in Int /\ report[order[x]] = f[x]
    BY <1>2
  <2>3. \A x, y \in S : order[x] = order[y] => x = y
    BY <1>1
  <2>4. {order[x] : x \in S} = DOMAIN report
    BY <1>1
  <2> HIDE DEF S
  <2>5. SumFunctionOnSet(report, {order[x] : x \in S}) = SumFunctionOnSet(f, S)
    BY <2>1, <2>2, <2>3, SumReindex
  <2> QED
    BY <2>4, <2>5 DEF S, SumFunction
<1>5. ASSUME NEW i \in 0..(n - 1) PROVE W(i + 1) = W(i) + report[order[i + 1]]
  <2> DEFINE S == 1..(i + 1)
             e == i + 1
  <2>0. i \in Nat /\ e \in Nat /\ 1 \in Int
    BY <1>1
  <2>1. IsFiniteSet(S) /\ e \in S /\ e \in 1..n /\ S \ {e} = 1..i /\ S \subseteq 1..n
    <3>1. IsFiniteSet(1..e)
      BY <2>0, FS_Interval
    <3>2. e \in S /\ e \in 1..n /\ S \subseteq 1..n
      BY <1>1
    <3>3. S \ {e} = 1..i
      OBVIOUS
    <3> QED
      BY <3>1, <3>2, <3>3
  <2>2. \A x \in S : f[x] \in Int
    BY <1>2, <2>1
  <2>3. IsFiniteSet(1..i) /\ \A x \in 1..i : f[x] \in Int
    <3>1. 1..i \subseteq S
      OBVIOUS
    <3> QED
      BY <2>1, <2>2, <3>1, FS_Subset
  <2>4. SumFunctionOnSet(f, 1..i) \in Int
    BY <2>3, SumInt
  <2> HIDE DEF S, e
  <2>5. SumFunctionOnSet(f, S) = f[e] + SumFunctionOnSet(f, S \ {e})
    BY <2>1, <2>2, SumRemove
  <2>6. f[e] = report[order[e]] /\ f[e] \in Int
    BY <1>2, <2>1
  <2>7. SumFunctionOnSet(f, S) = SumFunctionOnSet(f, 1..i) + report[order[e]]
    <3> DEFINE x == SumFunctionOnSet(f, 1..i)
               y == f[e]
    <3>1. SumFunctionOnSet(f, S) = y + x /\ x \in Int /\ y \in Int
      BY <2>1, <2>4, <2>5, <2>6
    <3> HIDE DEF x, y
    <3>2. SumFunctionOnSet(f, S) = x + y
      BY <3>1
    <3> QED
      BY <2>6, <3>2 DEF x, y
  <2> QED
    BY <2>7 DEF S, e
<1> QED
  BY <1>3, <1>4, <1>5, Zenon DEF f, n

(* A speedscope file points at the stacks of the walk, in their order, and *)
(* its end value is the number of samples.                                 *)
LEMMA SpeedscopeSays ==
    ASSUME NEW report, IsKeyed(report), NEW order \in SetToSeqs(DOMAIN report)
    PROVE  LET p == Speedscope(report, order)
           IN  /\ p.samples \in Seq(Seq(Nat)) /\ Len(p.samples) = Len(order)
               /\ p.names \in Seq(Written(report))
               /\ \A i \in 1..Len(order) :
                     /\ PointsAt(p.samples[i], p.names, Stack(order[i]))
                     /\ p.weights[i] = report[order[i]]
               /\ p.total = SumFunction(report)
<1> DEFINE start == [indices |-> <<>>, names |-> <<>>, samples |-> <<>>, weights |-> <<>>,
                     total |-> 0]
           n == Len(order)
           V == Written(report)
           Sum(i) == SumFunctionOnSet([j \in DOMAIN order |-> report[order[j]]], 1..i)
<1>1. /\ n \in Nat /\ order \in Seq(DOMAIN report)
      /\ \A i \in 1..n : order[i] \in DOMAIN report
  <2>1. IsReport(report)
    BY DEF IsKeyed
  <2>2. DOMAIN order = 1..n /\ n \in Nat /\ order \in Seq(DOMAIN report)
        /\ \A i \in DOMAIN order : order[i] \in DOMAIN report
    BY <2>1, WalkPasses DEF IsReport
  <2> QED
    BY <2>2
<1>2. \A i \in 1..n : report[order[i]] \in Nat \ {0} /\ Stack(order[i]) \in Seq(V)
  BY <1>1, StackType DEF IsKeyed, IsReport
<1>3. /\ Sum(0) = 0 /\ Sum(n) = SumFunction(report)
      /\ \A i \in 0..(n - 1) : Sum(i + 1) = Sum(i) + report[order[i + 1]]
  <2>1. IsReport(report)
    BY DEF IsKeyed
  <2> QED
    BY <2>1, WalkSums, Zenon
<1> HIDE DEF Sum, V
<1>4. PICK r : /\ \A i \in 0..n :
                     r[i] = IF i = 0 THEN start
                            ELSE SpeedscopeSample(r[i - 1], order[i], report[order[i]])
               /\ Speedscope(report, order) = r[n]
  BY <1>1, SpeedscopeTurns
<1> DEFINE Reads(p, i) == \A j \in 1..i : /\ PointsAt(p.samples[j], p.names, Stack(order[j]))
                                          /\ p.weights[j] = report[order[j]]
           Good(i) == /\ IsTable(r[i].indices, r[i].names, V)
                      /\ r[i].samples \in Seq(Seq(Nat)) /\ Len(r[i].samples) = i
                      /\ r[i].weights \in Seq(Nat) /\ Len(r[i].weights) = i
                      /\ Reads(r[i], i)
                      /\ r[i].total = Sum(i)
           Q == {i \in Nat : i <= n => Good(i)}
<1>5. 0 \in Q
  <2>1. r[0] = start
    BY <1>1, <1>4
  <2>2. /\ r[0].indices = <<>> /\ r[0].names = <<>> /\ r[0].samples = <<>>
        /\ r[0].weights = <<>> /\ r[0].total = 0
    BY <2>1
  <2>3. <<>> \in Seq(V) /\ <<>> \in Seq(Nat) /\ <<>> \in Seq(Seq(Nat)) /\ Len(<<>>) = 0
    BY EmptySeq
  <2>4. IsTable(<<>>, <<>>, V)
    BY <2>3 DEF IsTable
  <2>5. Reads(r[0], 0)
    OBVIOUS
  <2> HIDE DEF Reads
  <2> QED
    BY <1>3, <2>2, <2>3, <2>4, <2>5
<1>6. ASSUME NEW i \in Nat, i \in Q PROVE i + 1 \in Q
  <2> SUFFICES ASSUME i + 1 <= n PROVE Good(i + 1)
    OBVIOUS
  <2> DEFINE a == r[i]
             b == r[i + 1]
             key == order[i + 1]
             c == report[key]
             f == FrameIndices(a, Stack(key))
  <2>1. b = SpeedscopeSample(a, key, c)
    <3>1. i + 1 \in 0..n /\ i + 1 # 0 /\ (i + 1) - 1 = i
      BY <1>1
    <3> QED
      BY <1>4, <3>1
  <2>2. c \in Nat /\ ~(c <= 0) /\ Stack(key) \in Seq(V) /\ i + 1 \in 1..n /\ i \in 0..(n - 1)
    <3>1. i + 1 \in 1..n /\ i \in 0..(n - 1)
      BY <1>1
    <3>2. c \in Nat \ {0} /\ Stack(key) \in Seq(V)
      BY <1>2, <3>1
    <3> QED
      BY <3>1, <3>2
  <2>3. /\ b.indices = f.indices /\ b.names = f.names
        /\ b.samples = Append(a.samples, f.sample)
        /\ b.weights = Append(a.weights, c) /\ b.total = a.total + c
    <3> HIDE DEF a, b, c, key
    <3>1. b = [indices |-> f.indices, names |-> f.names,
               samples |-> Append(a.samples, f.sample),
               weights |-> Append(a.weights, c), total |-> a.total + c]
      BY <2>1, <2>2 DEF SpeedscopeSample
    <3> HIDE DEF f
    <3> QED
      BY <3>1
  <2>4. Good(i)
    BY <1>1, <1>6
  <2>5. Sum(i + 1) = Sum(i) + c
    BY <1>3, <2>2
  <2> HIDE DEF a, b, c, f, key
  <2>6. /\ IsTable(f.indices, f.names, V) /\ Grows(a.names, f.names)
        /\ PointsAt(f.sample, f.names, Stack(key))
    BY <2>2, <2>4, SamplePointsAt DEF a, f
  <2>7. /\ a.names \in Seq(V) /\ f.names \in Seq(V) /\ f.sample \in Seq(Nat)
    BY <2>4, <2>6 DEF IsTable, PointsAt, a
  <2>8. /\ a.samples \in Seq(Seq(Nat)) /\ Len(a.samples) = i
        /\ a.weights \in Seq(Nat) /\ Len(a.weights) = i /\ a.total = Sum(i) /\ Reads(a, i)
    BY <2>4 DEF a
  <2>9. /\ b.samples \in Seq(Seq(Nat)) /\ Len(b.samples) = i + 1
        /\ b.weights \in Seq(Nat) /\ Len(b.weights) = i + 1
        /\ \A j \in 1..i : b.samples[j] = a.samples[j] /\ b.weights[j] = a.weights[j]
        /\ b.samples[i + 1] = f.sample /\ b.weights[i + 1] = c
    <3>1. /\ b.samples \in Seq(Seq(Nat)) /\ Len(b.samples) = i + 1
          /\ \A j \in 1..i : b.samples[j] = a.samples[j]
          /\ b.samples[i + 1] = f.sample
      BY <2>3, <2>7, <2>8, AppendProperties
    <3>2. /\ b.weights \in Seq(Nat) /\ Len(b.weights) = i + 1
          /\ \A j \in 1..i : b.weights[j] = a.weights[j]
          /\ b.weights[i + 1] = c
      BY <2>2, <2>3, <2>8, AppendProperties
    <3> QED
      BY <3>1, <3>2
  <2>10. ASSUME NEW j \in 1..(i + 1)
         PROVE  PointsAt(b.samples[j], b.names, Stack(order[j])) /\ b.weights[j] = report[order[j]]
    <3>1. CASE j = i + 1
      BY <2>3, <2>6, <2>9, <3>1 DEF key, c
    <3>2. CASE j \in 1..i
      <4> DEFINE s == Stack(order[j])
      <4>1. PointsAt(a.samples[j], a.names, s) /\ a.weights[j] = report[order[j]]
        BY <2>8, <3>2
      <4>2. s \in Seq(V)
        <5>1. j \in 1..n
          BY <1>1, <3>2
        <5> QED
          BY <1>2, <5>1
      <4> HIDE DEF s
      <4>3. PointsAt(a.samples[j], f.names, s)
        BY <2>6, <2>7, <4>1, <4>2, PointsAtGrown
      <4> QED
        BY <2>3, <2>9, <3>2, <4>1, <4>3 DEF s
    <3> QED
      BY <3>1, <3>2
  <2>11. Reads(b, i + 1)
    BY <2>10
  <2> HIDE DEF Reads
  <2>12. b.total = Sum(i + 1)
    BY <2>3, <2>5, <2>8
  <2> QED
    BY <2>3, <2>6, <2>9, <2>11, <2>12 DEF b
<1> HIDE DEF Q
<1>7. Nat \subseteq Q
  BY <1>5, <1>6, NatSetInduction
<1>8. Good(n)
  <2>1. n \in Q
    BY <1>1, <1>7
  <2> QED
    BY <1>1, <2>1 DEF Q
<1>9. r[n].names \in Seq(V)
  BY <1>8 DEF IsTable
<1> DEFINE p == Speedscope(report, order)
<1>10. p = r[n]
  BY <1>4
<1> HIDE DEF p
<1>11. /\ p.samples \in Seq(Seq(Nat)) /\ Len(p.samples) = n /\ p.names \in Seq(V)
       /\ \A i \in 1..n : PointsAt(p.samples[i], p.names, Stack(order[i]))
                          /\ p.weights[i] = report[order[i]]
       /\ p.total = SumFunction(report)
  BY <1>3, <1>8, <1>9, <1>10
<1> QED
  BY <1>11, Zenon DEF p, V

(* The reader of a speedscope file gets the samples of the report. *)
THEOREM SpeedscopeTally ==
    ASSUME NEW report, IsKeyed(report), NEW order \in SetToSeqs(DOMAIN report)
    PROVE  /\ Tally(SpeedscopeLines(Speedscope(report, order))) = ByStack(report)
           /\ Speedscope(report, order).total = SumFunction(report)
<1> DEFINE p == Speedscope(report, order)
           n == Len(order)
           lines == SpeedscopeLines(p)
           V == Written(report)
<1>1. /\ p.samples \in Seq(Seq(Nat)) /\ Len(p.samples) = n /\ p.names \in Seq(V)
      /\ \A i \in 1..n : PointsAt(p.samples[i], p.names, Stack(order[i]))
                         /\ p.weights[i] = report[order[i]]
      /\ p.total = SumFunction(report)
  BY SpeedscopeSays, Zenon
<1>2. /\ n \in Nat /\ DOMAIN order = 1..n /\ IsReport(report)
      /\ \A i \in 1..n : order[i] \in DOMAIN report
  <2>1. IsReport(report)
    BY DEF IsKeyed
  <2>2. DOMAIN order = 1..n /\ n \in Nat /\ \A i \in DOMAIN order : order[i] \in DOMAIN report
    BY <2>1, WalkPasses DEF IsReport
  <2> QED
    BY <2>1, <2>2
<1>3. \A i \in 1..n : Stack(order[i]) \in Seq(V)
  BY <1>2, StackType DEF IsKeyed
<1> HIDE DEF p, V
<1>4. DOMAIN p.samples = 1..n
  BY <1>1, <1>2
<1>5. DOMAIN lines = DOMAIN order
  BY <1>2, <1>4 DEF SpeedscopeLines
<1>6. ASSUME NEW i \in DOMAIN order
      PROVE  lines[i].stack = Stack(order[i]) /\ lines[i].weight = report[order[i]]
  <2> DEFINE s == p.samples[i]
             t == Stack(order[i])
  <2>1. lines[i] = [stack |-> [j \in DOMAIN s |-> At(p.names, s[j])],
                    weight |-> p.weights[i]]
    BY <1>2, <1>4 DEF SpeedscopeLines
  <2>2. PointsAt(s, p.names, t) /\ p.weights[i] = report[order[i]] /\ t \in Seq(V)
    BY <1>1, <1>2, <1>3
  <2> HIDE DEF s, t
  <2>3. s \in Seq(Nat) /\ Len(s) = Len(t) /\ DOMAIN s = 1..Len(t) /\ DOMAIN t = 1..Len(t)
        /\ Len(t) \in Nat
    BY <2>2 DEF PointsAt
  <2>4. ASSUME NEW j \in 1..Len(t) PROVE At(p.names, s[j]) = t[j]
    <3>1. s[j] \in Nat /\ s[j] < Len(p.names) /\ p.names[s[j] + 1] = t[j]
      BY <2>2, <2>3, ElementOfSeq DEF PointsAt
    <3>2. s[j] + 1 \in DOMAIN p.names
      BY <1>1, <3>1
    <3> QED
      BY <3>1, <3>2 DEF At
  <2>5. [j \in DOMAIN s |-> At(p.names, s[j])] = t
    <3>1. t = [j \in 1..Len(t) |-> t[j]]
      BY <2>2
    <3> QED
      BY <2>3, <2>4, <3>1
  <2> QED
    BY <2>1, <2>2, <2>5 DEF t
<1> HIDE DEF lines
<1>7. Tally(lines) = ByStack(report)
  BY <1>2, <1>5, <1>6, LinesTally
<1> QED
  BY <1>1, <1>7 DEF lines, p

-----------------------------------------------------------------------------
(* The string table of pprof *)

(* str_tbl with the strings of D. *)
TableOf(D) == FoldSet(LAMBDA str, tbl : Append(tbl, str), <<"">>, D)

(* One unfolding of it over the sets in T, by g. *)
Fills(g, T) ==
    g = [s \in T |-> IF s = {} THEN <<"">> ELSE Append(g[s \ {Pick(s)}], Pick(s))]

(* The table is what the fold's iterator computes. *)
LEMMA TableIsChoice ==
    ASSUME NEW D
    PROVE  TableOf(D) = (CHOOSE g : Fills(g, SUBSET D))[D]
  BY DEF TableOf, FoldSet, MapThenFoldSet, Fills, Pick

(* Two iterators agree. *)
LEMMA TableUnique ==
    ASSUME NEW D, IsFiniteSet(D), NEW g, NEW h, Fills(g, SUBSET D), Fills(h, SUBSET D)
    PROVE  \A s \in SUBSET D : g[s] = h[s]
<1> DEFINE Q == {s \in SUBSET D : g[s] = h[s]}
<1>1. ASSUME NEW T \in SUBSET D, \A U \in SUBSET T : U # T => U \in Q
      PROVE  T \in Q
  <2>1. CASE T = {}
    BY <2>1 DEF Fills
  <2>2. CASE T # {}
    <3>1. Pick(T) \in T
      BY <2>2, PickIn
    <3>2. T \ {Pick(T)} \in SUBSET T /\ T \ {Pick(T)} # T
      BY <3>1
    <3>3. g[T \ {Pick(T)}] = h[T \ {Pick(T)}]
      BY <1>1, <3>2
    <3>4. /\ g[T] = Append(g[T \ {Pick(T)}], Pick(T))
          /\ h[T] = Append(h[T \ {Pick(T)}], Pick(T))
      BY <2>2 DEF Fills
    <3> QED BY <3>3, <3>4
  <2> QED BY <2>1, <2>2
<1> HIDE DEF Q
<1>2. SUBSET D \subseteq Q
  BY <1>1, SubsetInduction
<1> QED BY <1>2 DEF Q

(* A string is pushed to the table of the others. *)
LEMMA TableUnfolds ==
    ASSUME NEW D, IsFiniteSet(D)
    PROVE  TableOf(D) = IF D = {} THEN <<"">> ELSE Append(TableOf(D \ {Pick(D)}), Pick(D))
<1> DEFINE Next1(s) == IF s = {} THEN <<"">> ELSE Append(TableOf(s \ {Pick(s)}), Pick(s))
           Q == {s \in SUBSET D : TableOf(s) = Next1(s)}
<1>1. ASSUME NEW T \in SUBSET D, \A U \in SUBSET T : U # T => U \in Q
      PROVE  T \in Q
  <2> DEFINE g == [s \in SUBSET T |-> Next1(s)]
  <2>1. \A s \in SUBSET T : s # T => g[s] = TableOf(s)
    BY <1>1
  <2>2. \A s \in SUBSET T : s # {} =>
           s \ {Pick(s)} \in SUBSET T /\ s \ {Pick(s)} # T
    BY PickIn
  <2>3. \A s \in SUBSET T : s # {} => g[s \ {Pick(s)}] = TableOf(s \ {Pick(s)})
    BY <2>1, <2>2
  <2>4. Fills(g, SUBSET T)
    BY <2>3 DEF Fills
  <2> HIDE DEF g
  <2> DEFINE h == CHOOSE k : Fills(k, SUBSET T)
  <2>5. Fills(h, SUBSET T)
    BY <2>4
  <2>6. TableOf(T) = h[T]
    BY TableIsChoice
  <2>7. IsFiniteSet(T)
    BY FS_Subset
  <2> HIDE DEF h
  <2>8. h[T] = g[T]
    BY <2>4, <2>5, <2>7, TableUnique
  <2> QED BY <2>6, <2>8 DEF g
<1> HIDE DEF Q
<1>2. SUBSET D \subseteq Q
  BY <1>1, SubsetInduction
<1> QED BY <1>2 DEF Q

(* Every string of D is in the table. *)
LEMMA TableHas ==
    ASSUME NEW D, IsFiniteSet(D)
    PROVE  /\ TableOf(D) \in Seq(D \union {""})
           /\ \A x \in D : \E i \in DOMAIN TableOf(D) : TableOf(D)[i] = x
<1> DEFINE V == D \union {""}
           Q == {s \in SUBSET D : /\ TableOf(s) \in Seq(V)
                                  /\ \A x \in s : \E i \in DOMAIN TableOf(s) : TableOf(s)[i] = x}
<1>1. ASSUME NEW T \in SUBSET D, \A U \in SUBSET T : U # T => U \in Q
      PROVE  T \in Q
  <2>0. IsFiniteSet(T)
    BY FS_Subset
  <2>1. CASE T = {}
    <3>1. TableOf(T) = <<"">>
      BY <2>0, <2>1, TableUnfolds
    <3>2. <<"">> \in Seq(V)
      OBVIOUS
    <3> QED
      BY <2>1, <3>1, <3>2
  <2>2. CASE T # {}
    <3> DEFINE x == Pick(T)
               t == TableOf(T \ {x})
               u == TableOf(T)
    <3>1. x \in T /\ T \ {x} \in SUBSET T /\ T \ {x} # T
      BY <2>2, PickIn
    <3>2. u = Append(t, x)
      BY <2>0, <2>2, TableUnfolds
    <3>3. t \in Seq(V) /\ \A y \in T \ {x} : \E i \in DOMAIN t : t[i] = y
      BY <1>1, <3>1
    <3>4. x \in V
      BY <3>1
    <3> HIDE DEF x, t, u, V
    <3>5. /\ u \in Seq(V) /\ DOMAIN t = 1..Len(t) /\ DOMAIN u = 1..(Len(t) + 1)
          /\ Len(t) \in Nat /\ u[Len(t) + 1] = x /\ \A i \in 1..Len(t) : u[i] = t[i]
      BY <3>2, <3>3, <3>4
    <3>6. ASSUME NEW y \in T PROVE \E i \in DOMAIN u : u[i] = y
      <4>1. CASE y = x
        <5>1. Len(t) + 1 \in DOMAIN u
          BY <3>5
        <5> QED
          BY <3>5, <4>1, <5>1
      <4>2. CASE y # x
        <5>1. PICK i \in DOMAIN t : t[i] = y
          BY <3>3, <4>2
        <5>2. i \in DOMAIN u /\ u[i] = y
          BY <3>5, <5>1
        <5> QED
          BY <5>2
      <4> QED
        BY <4>1, <4>2
    <3> QED
      BY <3>5, <3>6 DEF u
  <2> QED
    BY <2>1, <2>2
<1> HIDE DEF Q
<1>2. SUBSET D \subseteq Q
  BY <1>1, SubsetInduction
<1> QED
  BY <1>2 DEF Q

(* The largest of some places of a table is one of them. *)
LEMMA MaxPlace ==
    ASSUME NEW n \in Nat, NEW P \in SUBSET (1..n), P # {}
    PROVE  Max(P) \in P
<1> DEFINE T == {n - i : i \in P}
<1>1. T \in SUBSET Nat /\ T # {}
  <2>1. \A i \in P : n - i \in Nat
    OBVIOUS
  <2> QED
    BY <2>1
<1>2. PICK x \in T : \A y \in T : x <= y
  <2> HIDE DEF T
  <2> QED
    BY <1>1, LeastNat
<1>3. PICK i \in P : x = n - i
  BY <1>2
<1>4. \A j \in P : n - i <= n - j
  BY <1>2, <1>3
<1>5. \A j \in P : i >= j
  BY <1>4
<1> QED
  BY <1>5 DEF Max

(* The index of a string finds it in the table. *)
LEMMA StringsDecode ==
    ASSUME NEW V, NEW tbl \in Seq(V), NEW x, \E i \in DOMAIN tbl : tbl[i] = x
    PROVE  At(tbl, Strings(tbl)[x]) = x
<1> DEFINE P == {i \in DOMAIN tbl : tbl[i] = x}
           m == Max(P)
<1>1. Len(tbl) \in Nat /\ DOMAIN tbl = 1..Len(tbl) /\ P \in SUBSET (1..Len(tbl)) /\ P # {}
  OBVIOUS
<1>2. m \in P
  <2> HIDE DEF P
  <2> QED
    BY <1>1, MaxPlace
<1>3. Strings(tbl)[x] = m - 1
  BY DEF Strings, Range
<1> HIDE DEF m
<1>4. m \in DOMAIN tbl /\ tbl[m] = x /\ (m - 1) + 1 = m
  BY <1>1, <1>2
<1> QED
  BY <1>3, <1>4 DEF At

(* What is made of the members of a finite set is finite. *)
LEMMA ImageFinite ==
    ASSUME NEW S, IsFiniteSet(S), NEW h
    PROVE  IsFiniteSet({h[x] : x \in S})
<1> DEFINE g == [x \in S |-> h[x]]
           T == {h[x] : x \in S}
<1>1. g \in Surjection(S, T)
  BY DEF Surjection
<1> HIDE DEF g, T
<1>2. IsFiniteSet(T)
  BY <1>1, FS_Surjection
<1> QED
  BY <1>2 DEF T

(* The members of a sequence are finitely many. *)
LEMMA RangeFinite ==
    ASSUME NEW S, NEW s \in Seq(S)
    PROVE  IsFiniteSet(Range(s)) /\ Range(s) \subseteq S
<1>1. IsFiniteSet(DOMAIN s)
  BY FS_Interval
<1>2. IsFiniteSet({s[i] : i \in DOMAIN s})
  BY <1>1, ImageFinite
<1>3. {s[i] : i \in DOMAIN s} \subseteq S
  BY ElementOfSeq
<1> QED
  BY <1>2, <1>3 DEF Range

(* The symbols of some stacks. *)
SymbolsOf(keys) == UNION {Range(Symbols(key)) : key \in keys}

(* Every string of the keys, and every fixed one, is found by its index. *)
LEMMA StringTableDecodes ==
    ASSUME NEW keys, IsFiniteSet(keys), NEW S,
           \A key \in keys : key.frames \in Seq(Seq(S)),
           NEW fixed, IsFiniteSet(fixed)
    PROVE  LET tbl == StringTable(keys, fixed)
           IN  /\ \A key \in keys :
                     At(tbl, Strings(tbl)[ThreadNameOrId(key)]) = ThreadNameOrId(key)
               /\ \A s \in SymbolsOf(keys) : At(tbl, Strings(tbl)[Name(s)]) = Name(s)
               /\ \A x \in fixed : At(tbl, Strings(tbl)[x]) = x
<1> DEFINE symbols == SymbolsOf(keys)
           threads == {ThreadNameOrId(key) : key \in keys}
           names == UNION {{Name(s), RawName(s), Filename(s)} : s \in symbols}
           D == threads \union names \union fixed
           tbl == StringTable(keys, fixed)
<1>1. tbl = TableOf(D)
  BY DEF StringTable, TableOf, SymbolsOf
<1>2. IsFiniteSet(threads)
  <2> DEFINE h == [key \in keys |-> ThreadNameOrId(key)]
  <2>1. threads = {h[key] : key \in keys}
    OBVIOUS
  <2> HIDE DEF h
  <2> QED
    BY <2>1, ImageFinite
<1>3. IsFiniteSet(symbols)
  <2> DEFINE h == [key \in keys |-> Range(Symbols(key))]
             R == {h[key] : key \in keys}
  <2>1. symbols = UNION R
    BY DEF SymbolsOf
  <2>2. \A key \in keys : IsFiniteSet(Range(Symbols(key)))
    BY FlattenType, RangeFinite DEF Symbols
  <2>3. \A r \in R : IsFiniteSet(r)
    BY <2>2
  <2> HIDE DEF h
  <2>4. IsFiniteSet(R)
    BY ImageFinite
  <2> HIDE DEF R
  <2> QED
    BY <2>1, <2>3, <2>4, FS_UNION
<1> HIDE DEF symbols
<1>4. IsFiniteSet(names)
  <2> DEFINE h == [s \in symbols |-> {Name(s), RawName(s), Filename(s)}]
             R == {h[s] : s \in symbols}
  <2>1. names = UNION R
    OBVIOUS
  <2>2. \A x, y, z : IsFiniteSet({x, y, z})
    <3> TAKE x, y, z
    <3>1. IsFiniteSet({x}) /\ IsFiniteSet({y}) /\ IsFiniteSet({z})
      BY FS_Singleton
    <3>2. IsFiniteSet({x} \union {y})
      BY <3>1, FS_Union
    <3>3. IsFiniteSet(({x} \union {y}) \union {z})
      BY <3>1, <3>2, FS_Union
    <3>4. ({x} \union {y}) \union {z} = {x, y, z}
      OBVIOUS
    <3> QED
      BY <3>3, <3>4
  <2>3. \A r \in R : IsFiniteSet(r)
    <3> TAKE r \in R
    <3>1. PICK s \in symbols : r = {Name(s), RawName(s), Filename(s)}
      OBVIOUS
    <3> QED
      BY <2>2, <3>1
  <2> HIDE DEF h
  <2>4. IsFiniteSet(R)
    BY <1>3, ImageFinite
  <2> HIDE DEF R, names
  <2> QED
    BY <2>1, <2>3, <2>4, FS_UNION
<1>5. IsFiniteSet(D)
  <2> HIDE DEF threads, names
  <2>1. IsFiniteSet(threads \union names)
    BY <1>2, <1>4, FS_Union
  <2> QED
    BY <2>1, FS_Union
<1>6. /\ \A key \in keys : ThreadNameOrId(key) \in D
      /\ \A s \in symbols : Name(s) \in D
      /\ fixed \subseteq D
  OBVIOUS
<1> HIDE DEF D, tbl
<1>7. tbl \in Seq(D \union {""}) /\ \A x \in D : \E i \in DOMAIN tbl : tbl[i] = x
  BY <1>1, <1>5, TableHas
<1>8. \A x \in D : At(tbl, Strings(tbl)[x]) = x
  BY <1>7, StringsDecode
<1>9. /\ \A key \in keys : At(tbl, Strings(tbl)[ThreadNameOrId(key)]) = ThreadNameOrId(key)
      /\ \A s \in symbols : At(tbl, Strings(tbl)[Name(s)]) = Name(s)
      /\ \A x \in fixed : At(tbl, Strings(tbl)[x]) = x
  BY <1>6, <1>8
<1> QED
  BY <1>9, Zenon DEF tbl, symbols

-----------------------------------------------------------------------------
(* The tables of pprof *)

(* The Function and Location messages made for the symbols in S. *)
FunctionMessages(strings, S) ==
    {[id |-> id, name |-> strings[Name(s)], system_name |-> strings[RawName(s)],
      filename |-> strings[Filename(s)]] : id \in Nat, s \in S}

LocationMessages(S) == {[id |-> id, function_id |-> id, line |-> Lineno(s)] : id \in Nat, s \in S}

(* Functions and locations are found at their ids, one for one, and known  *)
(* functions have the names they are known by.                             *)
IsPprof(functions, fn_tbl, loc_tbl, strings, S) ==
    /\ fn_tbl \in Seq(FunctionMessages(strings, S)) /\ loc_tbl \in Seq(LocationMessages(S))
    /\ Len(loc_tbl) = Len(fn_tbl)
    /\ \A i \in 1..Len(fn_tbl) :
          fn_tbl[i].id = i /\ loc_tbl[i].id = i /\ loc_tbl[i].function_id = i
    /\ \A n \in DOMAIN functions :
          functions[n] \in 1..Len(fn_tbl) /\ fn_tbl[functions[n]].name = strings[n]

(* The location ids of a sample lead to the names of its symbols. *)
LeadsTo(locs, fn_tbl, strings, symbols) ==
    /\ locs \in Seq(Nat) /\ Len(locs) = Len(symbols)
    /\ \A j \in 1..Len(symbols) :
          locs[j] \in 1..Len(fn_tbl) /\ fn_tbl[locs[j]].name = strings[Name(symbols[j])]

(* They still do when the table has grown. *)
LEMMA LeadsToGrown ==
    ASSUME NEW V, NEW old \in Seq(V), NEW new \in Seq(V), Grows(old, new),
           NEW S, NEW symbols \in Seq(S), NEW strings,
           NEW locs, LeadsTo(locs, old, strings, symbols)
    PROVE  LeadsTo(locs, new, strings, symbols)
<1>1. Len(old) \in Nat /\ Len(new) \in Nat /\ Len(old) <= Len(new) /\ Len(symbols) \in Nat
  BY DEF Grows
<1>2. ASSUME NEW j \in 1..Len(symbols)
      PROVE  locs[j] \in 1..Len(new) /\ new[locs[j]].name = strings[Name(symbols[j])]
  <2> DEFINE i == locs[j]
  <2>1. i \in 1..Len(old) /\ old[i].name = strings[Name(symbols[j])]
    BY DEF LeadsTo
  <2> HIDE DEF i
  <2>2. i \in 1..Len(new) /\ new[i] = old[i]
    BY <1>1, <2>1 DEF Grows
  <2> QED
    BY <2>1, <2>2 DEF i
<1> QED
  BY <1>2 DEF LeadsTo

(* new is acc with the location of a symbol pushed to the sample, and its  *)
(* function and location to the tables if they are not there.              *)
Located(acc, new, s, strings, S) ==
    \E id \in Nat : /\ IsPprof(new.functions, new.fn_tbl, new.loc_tbl, strings, S)
                    /\ Grows(acc.fn_tbl, new.fn_tbl)
                    /\ id \in 1..Len(new.fn_tbl)
                    /\ new.fn_tbl[id].name = strings[Name(s)]
                    /\ new.locs = Append(acc.locs, id)

(* One symbol of a stack is located. *)
LEMMA SymbolLocated ==
    ASSUME NEW strings, NEW S, NEW acc,
           IsPprof(acc.functions, acc.fn_tbl, acc.loc_tbl, strings, S),
           NEW s \in S
    PROVE  Located(acc, PprofSymbol(strings, acc, s), s, strings, S)
<1> DEFINE known == Name(s) \in DOMAIN acc.functions
           id == IF known THEN acc.functions[Name(s)] ELSE Len(acc.fn_tbl) + 1
           function == [id |-> id, name |-> strings[Name(s)],
                        system_name |-> strings[RawName(s)],
                        filename |-> strings[Filename(s)]]
           loc == [id |-> id, function_id |-> id, line |-> Lineno(s)]
           new == PprofSymbol(strings, acc, s)
           n == Len(acc.fn_tbl)
           F == FunctionMessages(strings, S)
           L == LocationMessages(S)
<1>1. /\ acc.fn_tbl \in Seq(F) /\ acc.loc_tbl \in Seq(L) /\ n \in Nat /\ Len(acc.loc_tbl) = n
      /\ \A i \in 1..n :
            acc.fn_tbl[i].id = i /\ acc.loc_tbl[i].id = i /\ acc.loc_tbl[i].function_id = i
      /\ \A m \in DOMAIN acc.functions :
            acc.functions[m] \in 1..n /\ acc.fn_tbl[acc.functions[m]].name = strings[m]
  BY DEF IsPprof
<1>2. CASE known
  <2>1. /\ new.functions = acc.functions /\ new.fn_tbl = acc.fn_tbl
        /\ new.loc_tbl = acc.loc_tbl /\ new.locs = Append(acc.locs, id)
    BY <1>2 DEF PprofSymbol
  <2>2. id \in 1..n /\ acc.fn_tbl[id].name = strings[Name(s)]
    BY <1>1, <1>2
  <2>3. Grows(acc.fn_tbl, acc.fn_tbl)
    BY <1>1 DEF Grows
  <2> HIDE DEF new, id
  <2>4. id \in Nat /\ IsPprof(new.functions, new.fn_tbl, new.loc_tbl, strings, S)
    BY <2>1, <2>2
  <2> QED
    BY <2>1, <2>2, <2>3, <2>4 DEF Located, new
<1>3. CASE ~known
  <2>1. /\ new.functions = Insert(acc.functions, Name(s), id)
        /\ new.fn_tbl = Append(acc.fn_tbl, function)
        /\ new.loc_tbl = Append(acc.loc_tbl, loc) /\ new.locs = Append(acc.locs, id)
    BY <1>3 DEF PprofSymbol
  <2>2. id = n + 1 /\ id \in Nat
    BY <1>1, <1>3
  <2>3. /\ function \in F /\ function.id = id /\ function.name = strings[Name(s)]
        /\ loc \in L /\ loc.id = id /\ loc.function_id = id
    <3> HIDE DEF id
    <3> QED
      BY <2>2 DEF FunctionMessages, LocationMessages
  <2> HIDE DEF new, id, function, loc, F, L
  <2>4. /\ new.fn_tbl \in Seq(F) /\ Grows(acc.fn_tbl, new.fn_tbl) /\ Len(new.fn_tbl) = n + 1
        /\ new.fn_tbl[n + 1] = function
    BY <1>1, <2>1, <2>3, PushGrows
  <2>5. /\ new.loc_tbl \in Seq(L) /\ Grows(acc.loc_tbl, new.loc_tbl) /\ Len(new.loc_tbl) = n + 1
        /\ new.loc_tbl[n + 1] = loc
    BY <1>1, <2>1, <2>3, PushGrows
  <2>6. ASSUME NEW i \in 1..(n + 1)
        PROVE  new.fn_tbl[i].id = i /\ new.loc_tbl[i].id = i /\ new.loc_tbl[i].function_id = i
    <3>1. CASE i = n + 1
      BY <2>2, <2>3, <2>4, <2>5, <3>1
    <3>2. CASE i \in 1..n
      <4>1. new.fn_tbl[i] = acc.fn_tbl[i] /\ new.loc_tbl[i] = acc.loc_tbl[i]
        BY <1>1, <2>4, <2>5, <3>2 DEF Grows
      <4> QED
        BY <1>1, <3>2, <4>1
    <3> QED
      BY <1>1, <3>1, <3>2
  <2>7. ASSUME NEW m \in DOMAIN new.functions
        PROVE  new.functions[m] \in 1..(n + 1)
               /\ new.fn_tbl[new.functions[m]].name = strings[m]
    <3>1. CASE m = Name(s)
      <4>1. new.functions[m] = n + 1
        BY <2>1, <2>2, <3>1 DEF Insert
      <4> QED
        BY <1>1, <2>3, <2>4, <3>1, <4>1
    <3>2. CASE m # Name(s)
      <4> DEFINE i == acc.functions[m]
      <4>1. m \in DOMAIN acc.functions /\ new.functions[m] = i
        BY <2>1, <2>7, <3>2 DEF Insert
      <4>2. i \in 1..n /\ acc.fn_tbl[i].name = strings[m]
        BY <1>1, <4>1
      <4> HIDE DEF i
      <4>3. new.fn_tbl[i] = acc.fn_tbl[i] /\ i \in 1..(n + 1)
        BY <1>1, <2>4, <4>2 DEF Grows
      <4> QED
        BY <4>1, <4>2, <4>3
    <3> QED
      BY <3>1, <3>2
  <2>8. IsPprof(new.functions, new.fn_tbl, new.loc_tbl, strings, S)
    BY <2>4, <2>5, <2>6, <2>7 DEF IsPprof, F, L
  <2>9. id \in 1..Len(new.fn_tbl) /\ new.fn_tbl[id].name = strings[Name(s)]
    BY <1>1, <2>2, <2>3, <2>4
  <2> QED
    BY <2>1, <2>2, <2>4, <2>8, <2>9 DEF Located, new
<1> QED
  BY <1>2, <1>3

(* The loop over the symbols of a stack, unfolded. *)
LEMMA LocTurns ==
    ASSUME NEW S, NEW symbols \in Seq(S), NEW strings, NEW acc
    PROVE  \E r : /\ \A i \in 0..Len(symbols) :
                        r[i] = IF i = 0 THEN [functions |-> acc.functions, fn_tbl |-> acc.fn_tbl, loc_tbl |-> acc.loc_tbl, locs |-> <<>>]
                               ELSE PprofSymbol(strings, r[i - 1], symbols[i])
                  /\ PprofLocs(strings, acc, symbols) = r[Len(symbols)]
<1> DEFINE start == [functions |-> acc.functions, fn_tbl |-> acc.fn_tbl, loc_tbl |-> acc.loc_tbl, locs |-> <<>>]
           Turns(r, n) ==
               r = [i \in 0..n |-> IF i = 0 THEN start ELSE PprofSymbol(strings, r[i - 1], symbols[i])]
           Q == {n \in Nat : \E r : Turns(r, n)}
           r == CHOOSE f : Turns(f, Len(symbols))
<1>1. PprofLocs(strings, acc, symbols) = r[Len(symbols)]
  BY DEF PprofLocs
<1> HIDE DEF start
<1>2. 0 \in Q
  <2> DEFINE f == [i \in 0..0 |-> start]
  <2>1. Turns(f, 0)
    OBVIOUS
  <2> QED
    BY <2>1
<1>3. ASSUME NEW n \in Nat, n \in Q PROVE n + 1 \in Q
  <2>1. PICK f : Turns(f, n)
    BY <1>3
  <2> DEFINE g == [i \in 0..(n + 1) |->
                      IF i = 0 THEN start ELSE PprofSymbol(strings, f[i - 1], symbols[i])]
  <2>2. \A i \in 0..n : f[i] = IF i = 0 THEN start ELSE PprofSymbol(strings, f[i - 1], symbols[i])
    BY <2>1
  <2>3. \A i \in 0..n : g[i] = f[i]
    BY <2>2
  <2>4. \A i \in 0..(n + 1) : i # 0 => i - 1 \in 0..n
    OBVIOUS
  <2>5. \A i \in 0..(n + 1) : i # 0 => g[i - 1] = f[i - 1]
    BY <2>3, <2>4
  <2>6. g = [i \in 0..(n + 1) |-> IF i = 0 THEN start ELSE PprofSymbol(strings, g[i - 1], symbols[i])]
    BY <2>5
  <2> HIDE DEF g
  <2>7. Turns(g, n + 1) /\ n + 1 \in Nat
    BY <2>6
  <2> HIDE DEF Turns
  <2> QED
    BY <2>7
<1> HIDE DEF Q
<1>4. Nat \subseteq Q
  BY <1>2, <1>3, NatSetInduction
<1>5. Turns(r, Len(symbols))
  <2>1. Len(symbols) \in Q
    BY <1>4
  <2> QED
    BY <2>1 DEF Q
<1> HIDE DEF r
<1>6. \A i \in 0..Len(symbols) :
         r[i] = IF i = 0 THEN start ELSE PprofSymbol(strings, r[i - 1], symbols[i])
  BY <1>5
<1> QED
  BY <1>1, <1>6 DEF start

(* The location ids of a stack lead to its names. *)
LEMMA LocsLead ==
    ASSUME NEW strings, NEW S, NEW acc,
           IsPprof(acc.functions, acc.fn_tbl, acc.loc_tbl, strings, S),
           NEW symbols \in Seq(S)
    PROVE  LET a == PprofLocs(strings, acc, symbols)
           IN  /\ IsPprof(a.functions, a.fn_tbl, a.loc_tbl, strings, S)
               /\ Grows(acc.fn_tbl, a.fn_tbl)
               /\ LeadsTo(a.locs, a.fn_tbl, strings, symbols)
<1> DEFINE start == [functions |-> acc.functions, fn_tbl |-> acc.fn_tbl,
                     loc_tbl |-> acc.loc_tbl, locs |-> <<>>]
           n == Len(symbols)
           T(j) == SubSeq(symbols, 1, j)
           F == FunctionMessages(strings, S)
<1>1. PICK r : /\ \A j \in 0..n : r[j] = IF j = 0 THEN start
                                         ELSE PprofSymbol(strings, r[j - 1], symbols[j])
               /\ PprofLocs(strings, acc, symbols) = r[n]
  BY LocTurns
<1> DEFINE Good(j) == /\ IsPprof(r[j].functions, r[j].fn_tbl, r[j].loc_tbl, strings, S)
                      /\ Grows(acc.fn_tbl, r[j].fn_tbl)
                      /\ LeadsTo(r[j].locs, r[j].fn_tbl, strings, T(j))
           Q == {j \in Nat : j <= n => Good(j)}
<1>2. n \in Nat /\ acc.fn_tbl \in Seq(F)
  BY DEF IsPprof
<1>3. 0 \in Q
  <2>1. r[0] = start
    BY <1>1, <1>2
  <2>2. /\ r[0].functions = acc.functions /\ r[0].fn_tbl = acc.fn_tbl
        /\ r[0].loc_tbl = acc.loc_tbl /\ r[0].locs = <<>>
    BY <2>1
  <2>3. T(0) = <<>> /\ Len(<<>>) = 0 /\ <<>> \in Seq(Nat)
    BY SubSeqEmpty, EmptySeq
  <2>4. LeadsTo(<<>>, acc.fn_tbl, strings, <<>>)
    BY <2>3 DEF LeadsTo
  <2>5. Grows(acc.fn_tbl, acc.fn_tbl)
    BY <1>2 DEF Grows
  <2> HIDE DEF T
  <2> QED
    BY <2>2, <2>3, <2>4, <2>5
<1>4. ASSUME NEW j \in Nat, j \in Q PROVE j + 1 \in Q
  <2> SUFFICES ASSUME j + 1 <= n PROVE Good(j + 1)
    OBVIOUS
  <2> DEFINE a == r[j]
             b == r[j + 1]
             s == symbols[j + 1]
  <2>1. b = PprofSymbol(strings, a, s)
    <3>1. j + 1 \in 0..n /\ j + 1 # 0 /\ (j + 1) - 1 = j
      BY <1>2
    <3> QED
      BY <1>1, <3>1
  <2>2. T(j) \in Seq(S) /\ s \in S /\ T(j + 1) = Append(T(j), s)
    BY <1>2, SubSeqStep
  <2>3. /\ IsPprof(a.functions, a.fn_tbl, a.loc_tbl, strings, S)
        /\ Grows(acc.fn_tbl, a.fn_tbl) /\ LeadsTo(a.locs, a.fn_tbl, strings, T(j))
    BY <1>2, <1>4
  <2> HIDE DEF T, a, b, s, Q, F
  <2>4. PICK id \in Nat :
           /\ IsPprof(b.functions, b.fn_tbl, b.loc_tbl, strings, S)
           /\ Grows(a.fn_tbl, b.fn_tbl) /\ id \in 1..Len(b.fn_tbl)
           /\ b.fn_tbl[id].name = strings[Name(s)] /\ b.locs = Append(a.locs, id)
    <3>1. Located(a, PprofSymbol(strings, a, s), s, strings, S)
      BY <2>2, <2>3, SymbolLocated
    <3> QED
      BY <2>1, <3>1 DEF Located
  <2>5. a.fn_tbl \in Seq(F) /\ b.fn_tbl \in Seq(F)
    BY <2>3, <2>4 DEF IsPprof, F
  <2>6. Grows(acc.fn_tbl, b.fn_tbl)
    BY <1>2, <2>3, <2>4, <2>5, GrowsTwice
  <2>7. LeadsTo(a.locs, b.fn_tbl, strings, T(j))
    BY <2>2, <2>3, <2>4, <2>5, LeadsToGrown
  <2> DEFINE u == T(j)
             t == a.locs
             fns == b.fn_tbl
  <2>8. LeadsTo(Append(t, id), fns, strings, Append(u, s))
    <3>1. u \in Seq(S) /\ t \in Seq(Nat) /\ Len(t) = Len(u) /\ Len(u) \in Nat
          /\ \A k \in 1..Len(u) : t[k] \in 1..Len(fns) /\ fns[t[k]].name = strings[Name(u[k])]
      <4>1. LeadsTo(t, fns, strings, u) /\ u \in Seq(S)
        BY <2>2, <2>7
      <4> HIDE DEF u, t, fns
      <4> QED
        BY <4>1 DEF LeadsTo
    <3>2. id \in 1..Len(fns) /\ fns[id].name = strings[Name(s)]
      BY <2>4
    <3> HIDE DEF u, t, fns
    <3>3. /\ Append(t, id) \in Seq(Nat) /\ Len(Append(t, id)) = Len(u) + 1
          /\ Len(Append(u, s)) = Len(u) + 1
      BY <3>1, <2>2
    <3>4. ASSUME NEW k \in 1..(Len(u) + 1)
          PROVE  /\ Append(t, id)[k] \in 1..Len(fns)
                 /\ fns[Append(t, id)[k]].name = strings[Name(Append(u, s)[k])]
      <4>1. CASE k = Len(u) + 1
        <5>1. Append(t, id)[k] = id /\ Append(u, s)[k] = s
          BY <3>1, <4>1
        <5> QED
          BY <3>2, <5>1
      <4>2. CASE k \in 1..Len(u)
        <5>1. Append(t, id)[k] = t[k] /\ Append(u, s)[k] = u[k]
          BY <3>1, <4>2
        <5> QED
          BY <3>1, <4>2, <5>1
      <4> QED
        BY <3>1, <4>1, <4>2
    <3> QED
      BY <3>3, <3>4 DEF LeadsTo
  <2> QED
    BY <2>2, <2>4, <2>6, <2>8 DEF b
<1> HIDE DEF Q
<1>5. Nat \subseteq Q
  BY <1>3, <1>4, NatSetInduction
<1>6. Good(n)
  <2>1. n \in Q
    BY <1>2, <1>5
  <2> QED
    BY <1>2, <2>1 DEF Q
<1>7. T(n) = symbols
  BY SubSeqFull
<1> QED
  BY <1>1, <1>6, <1>7

(* The loop over the stacks, unfolded. *)
LEMMA TableTurns ==
    ASSUME NEW S, NEW stacks \in Seq(S), NEW strings
    PROVE  \E r : /\ \A i \in 0..Len(stacks) :
                        r[i] = IF i = 0 THEN [functions |-> <<>>, fn_tbl |-> <<>>, loc_tbl |-> <<>>, location_ids |-> <<>>]
                               ELSE PprofSample(strings, r[i - 1], stacks[i])
                  /\ PprofTables(strings, stacks) = r[Len(stacks)]
<1> DEFINE start == [functions |-> <<>>, fn_tbl |-> <<>>, loc_tbl |-> <<>>, location_ids |-> <<>>]
           Turns(r, n) ==
               r = [i \in 0..n |-> IF i = 0 THEN start ELSE PprofSample(strings, r[i - 1], stacks[i])]
           Q == {n \in Nat : \E r : Turns(r, n)}
           r == CHOOSE f : Turns(f, Len(stacks))
<1>1. PprofTables(strings, stacks) = r[Len(stacks)]
  BY DEF PprofTables
<1> HIDE DEF start
<1>2. 0 \in Q
  <2> DEFINE f == [i \in 0..0 |-> start]
  <2>1. Turns(f, 0)
    OBVIOUS
  <2> QED
    BY <2>1
<1>3. ASSUME NEW n \in Nat, n \in Q PROVE n + 1 \in Q
  <2>1. PICK f : Turns(f, n)
    BY <1>3
  <2> DEFINE g == [i \in 0..(n + 1) |->
                      IF i = 0 THEN start ELSE PprofSample(strings, f[i - 1], stacks[i])]
  <2>2. \A i \in 0..n : f[i] = IF i = 0 THEN start ELSE PprofSample(strings, f[i - 1], stacks[i])
    BY <2>1
  <2>3. \A i \in 0..n : g[i] = f[i]
    BY <2>2
  <2>4. \A i \in 0..(n + 1) : i # 0 => i - 1 \in 0..n
    OBVIOUS
  <2>5. \A i \in 0..(n + 1) : i # 0 => g[i - 1] = f[i - 1]
    BY <2>3, <2>4
  <2>6. g = [i \in 0..(n + 1) |-> IF i = 0 THEN start ELSE PprofSample(strings, g[i - 1], stacks[i])]
    BY <2>5
  <2> HIDE DEF g
  <2>7. Turns(g, n + 1) /\ n + 1 \in Nat
    BY <2>6
  <2> HIDE DEF Turns
  <2> QED
    BY <2>7
<1> HIDE DEF Q
<1>4. Nat \subseteq Q
  BY <1>2, <1>3, NatSetInduction
<1>5. Turns(r, Len(stacks))
  <2>1. Len(stacks) \in Q
    BY <1>4
  <2> QED
    BY <2>1 DEF Q
<1> HIDE DEF r
<1>6. \A i \in 0..Len(stacks) :
         r[i] = IF i = 0 THEN start ELSE PprofSample(strings, r[i - 1], stacks[i])
  BY <1>5
<1> QED
  BY <1>1, <1>6 DEF start

(* Every sample of a profile leads to the names of its stack. *)
LEMMA TablesLead ==
    ASSUME NEW strings, NEW S, NEW stacks \in Seq(Seq(S))
    PROVE  LET p == PprofTables(strings, stacks)
           IN  /\ IsPprof(p.functions, p.fn_tbl, p.loc_tbl, strings, S)
               /\ \A i \in 1..Len(stacks) :
                     LeadsTo(p.location_ids[i], p.fn_tbl, strings, stacks[i])
<1> DEFINE start == [functions |-> <<>>, fn_tbl |-> <<>>, loc_tbl |-> <<>>,
                     location_ids |-> <<>>]
           n == Len(stacks)
           F == FunctionMessages(strings, S)
<1>1. n \in Nat /\ \A i \in 1..n : stacks[i] \in Seq(S)
  BY ElementOfSeq
<1>2. PICK r : /\ \A i \in 0..n :
                     r[i] = IF i = 0 THEN start ELSE PprofSample(strings, r[i - 1], stacks[i])
               /\ PprofTables(strings, stacks) = r[n]
  BY TableTurns
<1> DEFINE Reads(p, i) ==
               \A j \in 1..i : LeadsTo(p.location_ids[j], p.fn_tbl, strings, stacks[j])
           Good(i) == /\ IsPprof(r[i].functions, r[i].fn_tbl, r[i].loc_tbl, strings, S)
                      /\ r[i].location_ids \in Seq(Seq(Nat)) /\ Len(r[i].location_ids) = i
                      /\ Reads(r[i], i)
           Q == {i \in Nat : i <= n => Good(i)}
<1>3. 0 \in Q
  <2>1. r[0] = start
    BY <1>1, <1>2
  <2>2. /\ r[0].functions = <<>> /\ r[0].fn_tbl = <<>> /\ r[0].loc_tbl = <<>>
        /\ r[0].location_ids = <<>>
    BY <2>1
  <2>3. /\ <<>> \in Seq(F) /\ <<>> \in Seq(LocationMessages(S)) /\ <<>> \in Seq(Seq(Nat))
        /\ Len(<<>>) = 0
    BY EmptySeq
  <2>4. IsPprof(<<>>, <<>>, <<>>, strings, S)
    BY <2>3 DEF IsPprof
  <2>5. Reads(r[0], 0)
    OBVIOUS
  <2> HIDE DEF Reads
  <2> QED
    BY <2>2, <2>3, <2>4, <2>5
<1>4. ASSUME NEW i \in Nat, i \in Q PROVE i + 1 \in Q
  <2> SUFFICES ASSUME i + 1 <= n PROVE Good(i + 1)
    OBVIOUS
  <2> DEFINE a == r[i]
             b == r[i + 1]
             x == stacks[i + 1]
             f == PprofLocs(strings, a, x)
  <2>1. b = PprofSample(strings, a, x)
    <3>1. i + 1 \in 0..n /\ i + 1 # 0 /\ (i + 1) - 1 = i
      BY <1>1
    <3> QED
      BY <1>2, <3>1
  <2>2. x \in Seq(S)
    BY <1>1
  <2>3. /\ b.functions = f.functions /\ b.fn_tbl = f.fn_tbl /\ b.loc_tbl = f.loc_tbl
        /\ b.location_ids = Append(a.location_ids, f.locs)
    BY <2>1 DEF PprofSample
  <2>4. Good(i)
    BY <1>1, <1>4
  <2> HIDE DEF a, b, x, f, F
  <2>5. /\ IsPprof(a.functions, a.fn_tbl, a.loc_tbl, strings, S)
        /\ a.location_ids \in Seq(Seq(Nat)) /\ Len(a.location_ids) = i /\ Reads(a, i)
    BY <2>4 DEF a
  <2>6. /\ IsPprof(f.functions, f.fn_tbl, f.loc_tbl, strings, S)
        /\ Grows(a.fn_tbl, f.fn_tbl) /\ LeadsTo(f.locs, f.fn_tbl, strings, x)
    BY <2>2, <2>5, LocsLead, Zenon DEF f
  <2>7. a.fn_tbl \in Seq(F) /\ f.fn_tbl \in Seq(F) /\ f.locs \in Seq(Nat)
    BY <2>5, <2>6 DEF IsPprof, LeadsTo, F
  <2>8. /\ b.location_ids \in Seq(Seq(Nat)) /\ Len(b.location_ids) = i + 1
        /\ \A j \in 1..i : b.location_ids[j] = a.location_ids[j]
        /\ b.location_ids[i + 1] = f.locs
    BY <2>3, <2>5, <2>7
  <2>9. ASSUME NEW j \in 1..(i + 1)
        PROVE  LeadsTo(b.location_ids[j], b.fn_tbl, strings, stacks[j])
    <3>1. CASE j = i + 1
      BY <2>3, <2>6, <2>8, <3>1 DEF x
    <3>2. CASE j \in 1..i
      <4> DEFINE s == stacks[j]
                 ids == a.location_ids[j]
      <4>1. LeadsTo(ids, a.fn_tbl, strings, s)
        BY <2>5, <3>2
      <4>2. s \in Seq(S)
        <5>1. j \in 1..n
          BY <1>1, <3>2
        <5> QED
          BY <1>1, <5>1
      <4> HIDE DEF s, ids
      <4>3. LeadsTo(ids, f.fn_tbl, strings, s)
        BY <2>6, <2>7, <4>1, <4>2, LeadsToGrown
      <4> QED
        BY <2>3, <2>8, <3>2, <4>3 DEF s, ids
    <3> QED
      BY <3>1, <3>2
  <2>10. Reads(b, i + 1)
    BY <2>9
  <2> HIDE DEF Reads
  <2> QED
    BY <2>3, <2>6, <2>8, <2>10 DEF b
<1> HIDE DEF Q
<1>5. Nat \subseteq Q
  BY <1>3, <1>4, NatSetInduction
<1>6. Good(n)
  <2>1. n \in Q
    BY <1>1, <1>5
  <2> QED
    BY <1>1, <2>1 DEF Q
<1> DEFINE p == PprofTables(strings, stacks)
<1>7. p = r[n]
  BY <1>2
<1> HIDE DEF p
<1>8. /\ IsPprof(p.functions, p.fn_tbl, p.loc_tbl, strings, S)
      /\ \A i \in 1..n : LeadsTo(p.location_ids[i], p.fn_tbl, strings, stacks[i])
  BY <1>6, <1>7
<1> QED
  BY <1>8, Zenon DEF p

(* Every name of the symbols in S is found in the table by its index. *)
Decodes(tbl, strings, S) == \A s \in S : At(tbl, strings[Name(s)]) = Name(s)

(* A reader that follows the ids of a sample gets the names of its stack,  *)
(* from the root.                                                          *)
LEMMA StackDecoded ==
    ASSUME NEW p, NEW functions, NEW strings, NEW S,
           IsPprof(functions, p.function, p.location, strings, S),
           Decodes(p.string_table, strings, S),
           NEW symbols \in Seq(S), NEW ids, LeadsTo(ids, p.function, strings, symbols)
    PROVE  PprofStack(p, ids) = Reverse([j \in DOMAIN symbols |-> Name(symbols[j])])
<1> DEFINE FunctionNames(id) ==
               {At(p.string_table, f.name) :
                   f \in {f \in Range(p.function) :
                            \E loc \in Range(p.location) :
                                loc.id = id /\ loc.function_id = f.id}}
           FunctionName(id) ==
               IF Cardinality(FunctionNames(id)) = 1
               THEN CHOOSE name \in FunctionNames(id) : TRUE
               ELSE "ambiguous or missing"
           n == Len(p.function)
<1>1. PprofStack(p, ids) = Reverse([j \in DOMAIN ids |-> FunctionName(ids[j])])
  BY Zenon DEF PprofStack
<1>2. /\ n \in Nat /\ DOMAIN p.function = 1..n /\ DOMAIN p.location = 1..n
      /\ \A i \in 1..n : p.function[i].id = i /\ p.location[i].id = i
                         /\ p.location[i].function_id = i
  BY DEF IsPprof
<1>3. ASSUME NEW id \in 1..n PROVE FunctionNames(id) = {At(p.string_table, p.function[id].name)}
  <2> DEFINE G == {f \in Range(p.function) :
                     \E loc \in Range(p.location) : loc.id = id /\ loc.function_id = f.id}
  <2>1. p.function[id] \in G
    BY <1>2 DEF Range
  <2>2. ASSUME NEW f \in G PROVE f = p.function[id]
    <3>1. PICK i \in 1..n : f = p.function[i]
      BY <1>2 DEF Range
    <3>2. PICK k \in 1..n : p.location[k].id = id /\ p.location[k].function_id = f.id
      BY <1>2 DEF Range
    <3>3. k = id /\ i = id
      BY <1>2, <3>1, <3>2
    <3> QED
      BY <3>1, <3>3
  <2>3. G = {p.function[id]}
    BY <2>1, <2>2
  <2> HIDE DEF G
  <2>4. {At(p.string_table, f.name) : f \in G} = {At(p.string_table, p.function[id].name)}
    BY <2>3
  <2> QED
    BY <2>4 DEF G
<1>4. \A id \in 1..n : FunctionName(id) = At(p.string_table, p.function[id].name)
  <2> TAKE id \in 1..n
  <2> DEFINE x == At(p.string_table, p.function[id].name)
  <2>1. FunctionNames(id) = {x}
    BY <1>3
  <2> HIDE DEF FunctionNames, x
  <2>2. Cardinality({x}) = 1 /\ (CHOOSE name \in {x} : TRUE) = x
    BY FS_Singleton
  <2> QED
    BY <2>1, <2>2 DEF x
<1>5. /\ Len(symbols) \in Nat /\ DOMAIN symbols = 1..Len(symbols)
      /\ DOMAIN ids = 1..Len(symbols)
      /\ \A j \in 1..Len(symbols) : symbols[j] \in S
  BY ElementOfSeq DEF LeadsTo
<1> HIDE DEF FunctionName
<1>6. ASSUME NEW j \in 1..Len(symbols) PROVE FunctionName(ids[j]) = Name(symbols[j])
  <2> DEFINE id == ids[j]
  <2>1. id \in 1..n /\ p.function[id].name = strings[Name(symbols[j])]
    BY DEF LeadsTo
  <2> HIDE DEF id
  <2> QED
    BY <1>4, <1>5, <2>1 DEF id, Decodes
<1>7. [j \in DOMAIN ids |-> FunctionName(ids[j])] = [j \in DOMAIN symbols |-> Name(symbols[j])]
  BY <1>5, <1>6
<1> QED
  BY <1>1, <1>7

(* The tables of a profile are those that pprof makes for these stacks. *)
IsProfileOf(p, keys, fixed, order) ==
    LET done == PprofTables(Strings(p.string_table), [i \in DOMAIN order |-> Symbols(order[i])])
    IN  /\ p.string_table = StringTable(keys, fixed)
        /\ p.function = done.fn_tbl /\ p.location = done.loc_tbl
        /\ \A i \in DOMAIN order : p.sample[i].location_id = done.location_ids[i]

(* A reader finds the strings by their indices, and the stacks. *)
ReadsBack(p, keys, fixed, order) ==
    LET str == Strings(p.string_table)
    IN  /\ \A key \in keys :
              At(p.string_table, str[ThreadNameOrId(key)]) = ThreadNameOrId(key)
        /\ \A x \in fixed : At(p.string_table, str[x]) = x
        /\ \A i \in DOMAIN order :
              PprofStack(p, p.sample[i].location_id) = Reverse(Names(order[i]))

(* The reader of such a profile finds every string and every stack. *)
LEMMA ProfileDecodes ==
    ASSUME NEW keys, IsFiniteSet(keys),
           \A key \in keys : key.frames \in Seq(Seq(AllSymbols)),
           NEW fixed, IsFiniteSet(fixed), NEW order \in Seq(keys),
           NEW p, IsProfileOf(p, keys, fixed, order)
    PROVE  ReadsBack(p, keys, fixed, order)
<1> DEFINE tbl == p.string_table
           str == Strings(tbl)
           stacks == [i \in DOMAIN order |-> Symbols(order[i])]
           done == PprofTables(str, stacks)
           n == Len(order)
           S == SymbolsOf(keys)
<1>1. /\ n \in Nat /\ DOMAIN order = 1..n
      /\ \A i \in 1..n : order[i] \in keys
  OBVIOUS
<1>2. /\ tbl = StringTable(keys, fixed) /\ p.function = done.fn_tbl
      /\ p.location = done.loc_tbl
      /\ \A i \in DOMAIN order : p.sample[i].location_id = done.location_ids[i]
  BY Zenon DEF IsProfileOf
<1>3. /\ \A key \in keys : At(tbl, str[ThreadNameOrId(key)]) = ThreadNameOrId(key)
      /\ \A s \in S : At(tbl, str[Name(s)]) = Name(s)
      /\ \A x \in fixed : At(tbl, str[x]) = x
  <2> DEFINE T == StringTable(keys, fixed)
             Says(table) ==
               /\ \A key \in keys :
                     At(table, Strings(table)[ThreadNameOrId(key)]) = ThreadNameOrId(key)
               /\ \A s \in SymbolsOf(keys) : At(table, Strings(table)[Name(s)]) = Name(s)
               /\ \A x \in fixed : At(table, Strings(table)[x]) = x
  <2>1. Says(T)
    BY StringTableDecodes, Zenon
  <2> HIDE DEF Says
  <2>2. Says(tbl)
    BY <1>2, <2>1
  <2> QED
    BY <2>2, Zenon DEF Says
<1>4. stacks \in Seq(Seq(S)) /\ Len(stacks) = n
      /\ \A i \in 1..n : stacks[i] = Symbols(order[i]) /\ stacks[i] \in Seq(S)
  <2>1. ASSUME NEW i \in 1..n PROVE Symbols(order[i]) \in Seq(S)
    <3> DEFINE s == Symbols(order[i])
    <3>1. s \in Seq(AllSymbols)
      BY <1>1, FlattenType DEF Symbols
    <3>2. Range(s) \subseteq S
      BY <1>1 DEF SymbolsOf
    <3> HIDE DEF s, S
    <3>3. Len(s) \in Nat /\ DOMAIN s = 1..Len(s) /\ s = [j \in 1..Len(s) |-> s[j]]
          /\ \A j \in 1..Len(s) : s[j] \in S
      BY <3>1, <3>2 DEF Range
    <3>4. s \in [1..Len(s) -> S]
      BY <3>3
    <3>5. s \in Seq(S)
      BY <3>3, <3>4
    <3> QED
      BY <3>5 DEF s
  <2> HIDE DEF S
  <2>2. stacks \in [1..n -> Seq(S)] /\ DOMAIN stacks = 1..n
    BY <1>1, <2>1
  <2>3. stacks \in Seq(Seq(S)) /\ Len(stacks) = n
    <3> HIDE DEF stacks
    <3> QED
      BY <1>1, <2>2
  <2> QED
    BY <1>1, <2>1, <2>3
<1>5. /\ IsPprof(done.functions, done.fn_tbl, done.loc_tbl, str, S)
      /\ \A i \in 1..n : LeadsTo(done.location_ids[i], done.fn_tbl, str, stacks[i])
  <2> HIDE DEF stacks, str, S
  <2> QED
    BY <1>4, TablesLead, Zenon
<1> HIDE DEF str, done, S, stacks
<1>6. ASSUME NEW i \in DOMAIN order
      PROVE  PprofStack(p, p.sample[i].location_id) = Reverse(Names(order[i]))
  <2> DEFINE ids == p.sample[i].location_id
             symbols == Symbols(order[i])
  <2>1. symbols \in Seq(S) /\ LeadsTo(ids, p.function, str, symbols)
    BY <1>1, <1>2, <1>4, <1>5
  <2>2. IsPprof(done.functions, p.function, p.location, str, S)
    BY <1>2, <1>5
  <2>3. Decodes(p.string_table, str, S)
    BY <1>3 DEF Decodes
  <2> HIDE DEF ids, symbols
  <2>4. PprofStack(p, ids) = Reverse([j \in DOMAIN symbols |-> Name(symbols[j])])
    BY <2>1, <2>2, <2>3, StackDecoded, ZenonT(60)
  <2>5. Names(order[i]) = [j \in DOMAIN symbols |-> Name(symbols[j])]
    BY DEF Names, symbols
  <2> QED
    BY <2>4, <2>5 DEF ids
<1> QED
  BY <1>3, <1>6, Zenon DEF str, ReadsBack

(* The reader of a pprof profile gets the samples of the report. *)
THEOREM PprofTally ==
    ASSUME NEW report, IsKeyed(report), NEW order \in SetToSeqs(DOMAIN report), NEW frequency
    PROVE  Tally(PprofLines(Pprof(report, order, frequency))) = ByStack(report)
<1> DEFINE p == Pprof(report, order, frequency)
           keys == DOMAIN report
           str == Strings(p.string_table)
           lines == PprofLines(p)
<1>1. /\ DOMAIN order = 1..Len(order) /\ order \in Seq(keys) /\ IsReport(report)
      /\ IsFiniteSet(keys)
      /\ \A i \in DOMAIN order : order[i] \in keys
      /\ \A key \in keys : key.frames \in Seq(Seq(AllSymbols))
  <2>1. IsReport(report) /\ IsFiniteSet(keys)
    BY DEF IsKeyed, IsReport
  <2>2. /\ DOMAIN order = 1..Len(order) /\ order \in Seq(keys)
        /\ \A i \in DOMAIN order : order[i] \in keys
    BY <2>1, WalkPasses
  <2> QED
    BY <2>1, <2>2 DEF IsKeyed
<1>2. /\ IsProfileOf(p, keys, CpuStrings, order)
      /\ DOMAIN p.sample = DOMAIN order
      /\ \A i \in DOMAIN order : /\ p.sample[i].value[1] = report[order[i]]
                                 /\ p.sample[i].label.str = str[ThreadNameOrId(order[i])]
  BY DEF Pprof, IsProfileOf
<1>3. IsFiniteSet(CpuStrings)
  <2>1. CpuStrings = {"samples"} \union {"count"} \union {"cpu"} \union {"nanoseconds"}
            \union {"thread"} \union {"missed samples due to lock contention"}
    BY DEF CpuStrings
  <2> QED
    BY <2>1, FS_Singleton, FS_Union
<1> HIDE DEF p
<1>4. /\ \A key \in keys : At(p.string_table, str[ThreadNameOrId(key)]) = ThreadNameOrId(key)
      /\ \A i \in DOMAIN order :
            PprofStack(p, p.sample[i].location_id) = Reverse(Names(order[i]))
  <2> HIDE DEF keys
  <2>1. ReadsBack(p, keys, CpuStrings, order)
    BY <1>1, <1>2, <1>3, ProfileDecodes
  <2> QED
    BY <2>1, Zenon DEF ReadsBack
<1>5. DOMAIN lines = DOMAIN order
  BY <1>2 DEF PprofLines
<1>6. ASSUME NEW i \in DOMAIN order
      PROVE  lines[i].stack = Stack(order[i]) /\ lines[i].weight = report[order[i]]
  <2>1. lines[i] = [stack |-> <<At(p.string_table, p.sample[i].label.str)>>
                               \o PprofStack(p, p.sample[i].location_id),
                    weight |-> p.sample[i].value[1]]
    BY <1>2 DEF PprofLines
  <2>2. At(p.string_table, p.sample[i].label.str) = ThreadNameOrId(order[i])
    BY <1>1, <1>2, <1>4
  <2> QED
    BY <1>2, <1>4, <2>1, <2>2 DEF Stack
<1> HIDE DEF lines
<1>7. Tally(lines) = ByStack(report)
  BY <1>1, <1>5, <1>6, LinesTally
<1> QED
  BY <1>7 DEF lines, p

=============================================================================
