---------------------------- MODULE SumTheorems ----------------------------
(***************************************************************************)
(* Laws of SumFunctionOnSet, the sum of a function's values over a finite  *)
(* set, for every function and set.  The induction is over the subsets of  *)
(* the set, ordered by inclusion, by the minimal counterexample that       *)
(* WFMin provides.                                                         *)
(***************************************************************************)
EXTENDS Integers, Functions, FiniteSetTheorems, WellFoundedInduction, TLAPS

(* The element a fold takes next. *)
Pick(s) == CHOOSE x \in s : TRUE

(* One unfolding of the sum of f over the sets in D, by g. *)
Unfold(f, g, D) ==
    [s \in D |-> IF s = {} THEN 0 ELSE f[Pick(s)] + g[s \ {Pick(s)}]]

(* g is the fold's iterator on D. *)
Iterates(f, g, D) == g = Unfold(f, g, D)

(* A fold picks an element of every set that has one. *)
LEMMA PickIn ==
    ASSUME NEW s, s # {}
    PROVE  Pick(s) \in s
  BY DEF Pick

(* A set of subsets of a finite set that contains every set all of whose   *)
(* proper subsets it contains has them all.                                *)
LEMMA SubsetInduction ==
    ASSUME NEW S, IsFiniteSet(S), NEW Q,
           \A T \in SUBSET S :
              (\A U \in SUBSET T : U # T => U \in Q) => T \in Q
    PROVE  SUBSET S \subseteq Q
<1> DEFINE Bad == (SUBSET S) \ Q
<1>1. SUFFICES ASSUME Bad # {} PROVE FALSE
  OBVIOUS
<1>2. IsWellFoundedOn(StrictSubsetOrdering(S), SUBSET S)
  BY FS_StrictSubsetOrderingWellFounded, FS_FiniteSubsetsOfFinite
<1>3. Bad \subseteq SUBSET S
  OBVIOUS
<1>4. PICK T \in Bad : \A U \in Bad : ~(<<U, T>> \in StrictSubsetOrdering(S))
  <2> HIDE DEF Bad
  <2> QED BY <1>1, <1>2, <1>3, WFMin
<1>5. \A U \in SUBSET T : U # T => U \in Q
  BY <1>4 DEF StrictSubsetOrdering
<1> QED BY <1>4, <1>5

(* Sum is what the iterator computes. *)
LEMMA SumIsChoice ==
    ASSUME NEW f, NEW S
    PROVE  SumFunctionOnSet(f, S) = (CHOOSE g : Iterates(f, g, SUBSET S))[S]
  BY DEF SumFunctionOnSet, FoldFunctionOnSet, MapThenFoldSet, Iterates, Unfold, Pick

(* Two iterators on the subsets of a finite set agree. *)
LEMMA IteratorUnique ==
    ASSUME NEW f, NEW S, IsFiniteSet(S), NEW g, NEW h,
           Iterates(f, g, SUBSET S), Iterates(f, h, SUBSET S)
    PROVE  \A s \in SUBSET S : g[s] = h[s]
<1> DEFINE Q == {s \in SUBSET S : g[s] = h[s]}
<1>1. ASSUME NEW T \in SUBSET S, \A U \in SUBSET T : U # T => U \in Q
      PROVE  T \in Q
  <2>1. CASE T = {}
    BY <2>1 DEF Iterates, Unfold
  <2>2. CASE T # {}
    <3>1. Pick(T) \in T
      BY <2>2, PickIn
    <3>2. T \ {Pick(T)} \in SUBSET T /\ T \ {Pick(T)} # T
      BY <3>1
    <3>3. g[T \ {Pick(T)}] = h[T \ {Pick(T)}]
      BY <1>1, <3>2
    <3>4. /\ g[T] = f[Pick(T)] + g[T \ {Pick(T)}]
          /\ h[T] = f[Pick(T)] + h[T \ {Pick(T)}]
      BY <2>2 DEF Iterates, Unfold
    <3> QED BY <3>3, <3>4
  <2> QED BY <2>1, <2>2
<1> HIDE DEF Q
<1>2. SUBSET S \subseteq Q
  BY <1>1, SubsetInduction
<1> QED BY <1>2 DEF Q

(* The sum over a finite set adds the value at the picked element to the   *)
(* sum over the others.                                                    *)
LEMMA SumUnfolds ==
    ASSUME NEW f, NEW S, IsFiniteSet(S)
    PROVE  SumFunctionOnSet(f, S) =
              IF S = {} THEN 0
              ELSE f[Pick(S)] + SumFunctionOnSet(f, S \ {Pick(S)})
<1> DEFINE Next1(s) == IF s = {} THEN 0
                       ELSE f[Pick(s)] + SumFunctionOnSet(f, s \ {Pick(s)})
           Q == {s \in SUBSET S : SumFunctionOnSet(f, s) = Next1(s)}
<1>1. ASSUME NEW T \in SUBSET S, \A U \in SUBSET T : U # T => U \in Q
      PROVE  T \in Q
  <2> DEFINE g == [s \in SUBSET T |-> Next1(s)]
  <2>1. \A s \in SUBSET T : s # T => g[s] = SumFunctionOnSet(f, s)
    BY <1>1
  <2>2. \A s \in SUBSET T : s # {} =>
           s \ {Pick(s)} \in SUBSET T /\ s \ {Pick(s)} # T
    BY PickIn
  <2>3. \A s \in SUBSET T : s # {} =>
           g[s \ {Pick(s)}] = SumFunctionOnSet(f, s \ {Pick(s)})
    BY <2>1, <2>2
  <2>4. Iterates(f, g, SUBSET T)
    BY <2>3 DEF Iterates, Unfold
  <2> HIDE DEF g
  <2> DEFINE h == CHOOSE k : Iterates(f, k, SUBSET T)
  <2>5. Iterates(f, h, SUBSET T)
    BY <2>4
  <2>6. SumFunctionOnSet(f, T) = h[T]
    BY SumIsChoice
  <2>7. IsFiniteSet(T)
    BY FS_Subset
  <2> HIDE DEF h
  <2>8. h[T] = g[T]
    BY <2>4, <2>5, <2>7, IteratorUnique
  <2> QED BY <2>6, <2>8 DEF g
<1> HIDE DEF Q
<1>2. SUBSET S \subseteq Q
  BY <1>1, SubsetInduction
<1> QED BY <1>2 DEF Q

(* The sum over the empty set is zero. *)
THEOREM SumEmpty ==
    ASSUME NEW f
    PROVE  SumFunctionOnSet(f, {}) = 0
  BY SumUnfolds, FS_EmptySet

(* A sum of integers is an integer. *)
THEOREM SumInt ==
    ASSUME NEW f, NEW S, IsFiniteSet(S), \A x \in S : f[x] \in Int
    PROVE  SumFunctionOnSet(f, S) \in Int
<1> DEFINE Q == {s \in SUBSET S : SumFunctionOnSet(f, s) \in Int}
<1>1. ASSUME NEW T \in SUBSET S, \A U \in SUBSET T : U # T => U \in Q
      PROVE  T \in Q
  <2>1. IsFiniteSet(T)
    BY FS_Subset
  <2>2. CASE T = {}
    BY <2>2, SumEmpty
  <2>3. CASE T # {}
    <3>1. Pick(T) \in T
      BY <2>3, PickIn
    <3>2. T \ {Pick(T)} \in Q
      BY <1>1, <3>1
    <3>3. SumFunctionOnSet(f, T) =
             f[Pick(T)] + SumFunctionOnSet(f, T \ {Pick(T)})
      BY <2>1, <2>3, SumUnfolds
    <3> QED BY <3>1, <3>2, <3>3
  <2> QED BY <2>2, <2>3
<1> HIDE DEF Q
<1>2. SUBSET S \subseteq Q
  BY <1>1, SubsetInduction
<1> QED BY <1>2 DEF Q

(* A sum of natural numbers is a natural number. *)
THEOREM SumNat ==
    ASSUME NEW f, NEW S, IsFiniteSet(S), \A x \in S : f[x] \in Nat
    PROVE  SumFunctionOnSet(f, S) \in Nat
<1> DEFINE Q == {s \in SUBSET S : SumFunctionOnSet(f, s) \in Nat}
<1>1. ASSUME NEW T \in SUBSET S, \A U \in SUBSET T : U # T => U \in Q
      PROVE  T \in Q
  <2>1. IsFiniteSet(T)
    BY FS_Subset
  <2>2. CASE T = {}
    BY <2>2, SumEmpty
  <2>3. CASE T # {}
    <3>1. Pick(T) \in T
      BY <2>3, PickIn
    <3>2. T \ {Pick(T)} \in Q
      BY <1>1, <3>1
    <3>3. SumFunctionOnSet(f, T) =
             f[Pick(T)] + SumFunctionOnSet(f, T \ {Pick(T)})
      BY <2>1, <2>3, SumUnfolds
    <3> QED BY <3>1, <3>2, <3>3
  <2> QED BY <2>2, <2>3
<1> HIDE DEF Q
<1>2. SUBSET S \subseteq Q
  BY <1>1, SubsetInduction
<1> QED BY <1>2 DEF Q

(* A sum depends on the values over the set only. *)
THEOREM SumEqual ==
    ASSUME NEW f, NEW g, NEW S, IsFiniteSet(S), \A x \in S : f[x] = g[x]
    PROVE  SumFunctionOnSet(f, S) = SumFunctionOnSet(g, S)
<1> DEFINE Q == {s \in SUBSET S :
                    SumFunctionOnSet(f, s) = SumFunctionOnSet(g, s)}
<1>1. ASSUME NEW T \in SUBSET S, \A U \in SUBSET T : U # T => U \in Q
      PROVE  T \in Q
  <2>1. IsFiniteSet(T)
    BY FS_Subset
  <2>2. CASE T = {}
    BY <2>2, SumEmpty
  <2>3. CASE T # {}
    <3>1. Pick(T) \in T
      BY <2>3, PickIn
    <3>2. T \ {Pick(T)} \in Q
      BY <1>1, <3>1
    <3>3. /\ SumFunctionOnSet(f, T) =
                f[Pick(T)] + SumFunctionOnSet(f, T \ {Pick(T)})
          /\ SumFunctionOnSet(g, T) =
                g[Pick(T)] + SumFunctionOnSet(g, T \ {Pick(T)})
      BY <2>1, <2>3, SumUnfolds
    <3> QED BY <3>1, <3>2, <3>3
  <2> QED BY <2>2, <2>3
<1> HIDE DEF Q
<1>2. SUBSET S \subseteq Q
  BY <1>1, SubsetInduction
<1> QED BY <1>2 DEF Q

(* Any element may be taken out first: the order in which the fold picks   *)
(* does not matter.                                                        *)
THEOREM SumRemove ==
    ASSUME NEW f, NEW S, IsFiniteSet(S), \A x \in S : f[x] \in Int,
           NEW e \in S
    PROVE  SumFunctionOnSet(f, S) = f[e] + SumFunctionOnSet(f, S \ {e})
<1> DEFINE Q == {s \in SUBSET S : \A x \in s :
                    SumFunctionOnSet(f, s) = f[x] + SumFunctionOnSet(f, s \ {x})}
<1>1. ASSUME NEW T \in SUBSET S, \A U \in SUBSET T : U # T => U \in Q,
             NEW x \in T
      PROVE  SumFunctionOnSet(f, T) = f[x] + SumFunctionOnSet(f, T \ {x})
  <2> DEFINE p == Pick(T)
  <2>1. p \in T
    BY PickIn
  <2>2. SumFunctionOnSet(f, T) = f[p] + SumFunctionOnSet(f, T \ {p})
    BY FS_Subset, SumUnfolds
  <2> HIDE DEF p
  <2>3. CASE p = x
    BY <2>2, <2>3
  <2>4. CASE p # x
    <3>1. T \ {p} \in Q /\ T \ {x} \in Q
      BY <1>1, <2>1
    <3>2. x \in T \ {p} /\ p \in T \ {x}
      BY <2>1, <2>4
    <3>3. SumFunctionOnSet(f, T \ {p}) =
             f[x] + SumFunctionOnSet(f, (T \ {p}) \ {x})
      BY <3>1, <3>2
    <3>4. SumFunctionOnSet(f, T \ {x}) =
             f[p] + SumFunctionOnSet(f, (T \ {x}) \ {p})
      BY <3>1, <3>2
    <3> DEFINE rest == SumFunctionOnSet(f, (T \ {x}) \ {p})
    <3>5. SumFunctionOnSet(f, (T \ {p}) \ {x}) = rest
      <4>1. (T \ {p}) \ {x} = (T \ {x}) \ {p}
        OBVIOUS
      <4> QED BY <4>1
    <3>6. rest \in Int
      <4>1. (T \ {x}) \ {p} \in SUBSET S
        OBVIOUS
      <4>2. IsFiniteSet((T \ {x}) \ {p})
        BY <4>1, FS_Subset
      <4> QED BY <4>1, <4>2, SumInt
    <3>7. f[x] \in Int /\ f[p] \in Int
      BY <2>1
    <3>8. /\ SumFunctionOnSet(f, T \ {p}) = f[x] + rest
          /\ SumFunctionOnSet(f, T \ {x}) = f[p] + rest
      BY <3>3, <3>4, <3>5
    <3> HIDE DEF rest
    <3>9. f[p] + (f[x] + rest) = f[x] + (f[p] + rest)
      BY <3>6, <3>7
    <3> QED BY <2>2, <3>8, <3>9
  <2> QED BY <2>3, <2>4
<1>2. \A T \in SUBSET S :
         (\A U \in SUBSET T : U # T => U \in Q) => T \in Q
  BY <1>1
<1> HIDE DEF Q
<1>3. SUBSET S \subseteq Q
  BY <1>2, SubsetInduction
<1> QED BY <1>3 DEF Q

(* The value of f at e, zero where f is not defined. *)
ValueAt(f, e) == IF e \in DOMAIN f THEN f[e] ELSE 0

(* The sum of a function is its value at one place and the sum of the rest. *)
LEMMA SumAt ==
    ASSUME NEW f, IsFiniteSet(DOMAIN f), \A x \in DOMAIN f : f[x] \in Int, NEW e
    PROVE  SumFunction(f) = ValueAt(f, e) + SumFunctionOnSet(f, DOMAIN f \ {e})
<1> DEFINE rest == SumFunctionOnSet(f, DOMAIN f \ {e})
<1>1. rest \in Int
  <2>1. IsFiniteSet(DOMAIN f \ {e})
    BY FS_RemoveElement
  <2> QED BY <2>1, SumInt
<1>2. CASE e \in DOMAIN f
  BY <1>2, SumRemove DEF SumFunction, ValueAt
<1>3. CASE e \notin DOMAIN f
  <2>1. DOMAIN f \ {e} = DOMAIN f
    BY <1>3
  <2>2. SumFunction(f) = rest
    BY <2>1 DEF SumFunction
  <2> HIDE DEF rest
  <2>3. ValueAt(f, e) + rest = rest
    BY <1>1, <1>3 DEF ValueAt
  <2> QED BY <2>2, <2>3 DEF rest
<1> QED BY <1>2, <1>3

(* Functions that differ at one place only have sums that differ by what   *)
(* they are worth there.                                                   *)
THEOREM SumOnePoint ==
    ASSUME NEW f, IsFiniteSet(DOMAIN f), \A x \in DOMAIN f : f[x] \in Int,
           NEW g, IsFiniteSet(DOMAIN g), \A x \in DOMAIN g : g[x] \in Int,
           NEW e, DOMAIN f \ {e} = DOMAIN g \ {e},
           \A x \in DOMAIN f \ {e} : f[x] = g[x]
    PROVE  SumFunction(g) = SumFunction(f) - ValueAt(f, e) + ValueAt(g, e)
<1> DEFINE rest == SumFunctionOnSet(f, DOMAIN f \ {e})
<1>1. IsFiniteSet(DOMAIN f \ {e})
  BY FS_RemoveElement
<1>2. rest \in Int
  BY <1>1, SumInt
<1>3. SumFunctionOnSet(g, DOMAIN g \ {e}) = rest
  <2>1. SumFunctionOnSet(f, DOMAIN f \ {e}) = SumFunctionOnSet(g, DOMAIN f \ {e})
    BY <1>1, SumEqual
  <2> QED BY <2>1
<1>4. SumFunction(f) = ValueAt(f, e) + rest
  BY SumAt
<1>5. SumFunction(g) = ValueAt(g, e) + rest
  BY <1>3, SumAt
<1>6. ValueAt(f, e) \in Int /\ ValueAt(g, e) \in Int
  BY DEF ValueAt
<1> HIDE DEF rest
<1> QED BY <1>2, <1>4, <1>5, <1>6

(* A sum of natural numbers over part of a set is no larger. *)
THEOREM SumSubset ==
    ASSUME NEW f, NEW S, IsFiniteSet(S), \A x \in S : f[x] \in Nat,
           NEW T \in SUBSET S
    PROVE  SumFunctionOnSet(f, T) <= SumFunctionOnSet(f, S)
<1> DEFINE Q == {s \in SUBSET S : \A t \in SUBSET s :
                    SumFunctionOnSet(f, t) <= SumFunctionOnSet(f, s)}
<1>1. ASSUME NEW s \in SUBSET S, \A U \in SUBSET s : U # s => U \in Q,
             NEW t \in SUBSET s
      PROVE  SumFunctionOnSet(f, t) <= SumFunctionOnSet(f, s)
  <2>1. IsFiniteSet(s) /\ IsFiniteSet(t)
    BY FS_Subset
  <2>2. SumFunctionOnSet(f, s) \in Nat /\ SumFunctionOnSet(f, t) \in Nat
    BY <2>1, SumNat
  <2>3. CASE t = s
    BY <2>2, <2>3
  <2>4. CASE t # s
    <3>1. PICK x \in s : x \notin t
      BY <2>4
    <3>2. SumFunctionOnSet(f, s) = f[x] + SumFunctionOnSet(f, s \ {x})
      BY <2>1, SumRemove
    <3>3. s \ {x} \in Q /\ t \in SUBSET (s \ {x})
      BY <1>1, <3>1
    <3>4. SumFunctionOnSet(f, t) <= SumFunctionOnSet(f, s \ {x})
      BY <3>3
    <3>5. SumFunctionOnSet(f, s \ {x}) \in Nat
      <4>1. IsFiniteSet(s \ {x})
        BY <2>1, FS_RemoveElement
      <4> QED BY <4>1, SumNat
    <3>6. f[x] \in Nat
      BY <3>1
    <3> QED BY <2>2, <3>2, <3>4, <3>5, <3>6
  <2> QED BY <2>3, <2>4
<1>2. \A s \in SUBSET S :
         (\A U \in SUBSET s : U # s => U \in Q) => s \in Q
  BY <1>1
<1> HIDE DEF Q
<1>3. SUBSET S \subseteq Q
  BY <1>2, SubsetInduction
<1> QED BY <1>3 DEF Q

(* A sum may be taken in other names: h gives every place of S one of its  *)
(* own, where g has the value that f has.                                  *)
THEOREM SumReindex ==
    ASSUME NEW f, NEW S, IsFiniteSet(S), NEW g, NEW h,
           \A x \in S : f[x] \in Int /\ g[h[x]] = f[x],
           \A x, y \in S : h[x] = h[y] => x = y
    PROVE  /\ IsFiniteSet({h[x] : x \in S})
           /\ SumFunctionOnSet(g, {h[x] : x \in S}) = SumFunctionOnSet(f, S)
<1> DEFINE Image(s) == {h[x] : x \in s}
           Q == {s \in SUBSET S :
                    /\ IsFiniteSet(Image(s))
                    /\ SumFunctionOnSet(g, Image(s)) = SumFunctionOnSet(f, s)}
<1>1. ASSUME NEW T \in SUBSET S, \A U \in SUBSET T : U # T => U \in Q
      PROVE  T \in Q
  <2>1. IsFiniteSet(T)
    BY FS_Subset
  <2>2. CASE T = {}
    <3>1. Image(T) = {}
      BY <2>2
    <3> QED
      BY <2>2, <3>1, SumEmpty, FS_EmptySet
  <2>3. CASE T # {}
    <3> DEFINE p == Pick(T)
    <3>1. p \in T
      BY <2>3, PickIn
    <3> HIDE DEF p
    <3>2. T \ {p} \in Q
      BY <1>1, <3>1
    <3>3. Image(T) \ {h[p]} = Image(T \ {p}) /\ h[p] \in Image(T)
      BY <3>1
    <3>4. Image(T) = Image(T \ {p}) \cup {h[p]}
      BY <3>3
    <3>5. IsFiniteSet(Image(T))
      BY <3>2, <3>4, FS_AddElement
    <3>6. SumFunctionOnSet(f, T) = f[p] + SumFunctionOnSet(f, T \ {p})
      BY <2>1, <3>1, SumRemove
    <3>7. \A y \in Image(T) : g[y] \in Int
      OBVIOUS
    <3> HIDE DEF Image
    <3>8. SumFunctionOnSet(g, Image(T))
             = g[h[p]] + SumFunctionOnSet(g, Image(T) \ {h[p]})
      BY <3>3, <3>5, <3>7, SumRemove
    <3> QED
      BY <3>1, <3>2, <3>3, <3>5, <3>6, <3>8
  <2> QED
    BY <2>2, <2>3
<1> HIDE DEF Q
<1>2. SUBSET S \subseteq Q
  BY <1>1, SubsetInduction
<1>3. S \in Q
  BY <1>2
<1> QED
  BY <1>3 DEF Q

(* A sum may be taken group by group: h names the group of each place.     *)
THEOREM SumGroups ==
    ASSUME NEW f, NEW S, IsFiniteSet(S), \A x \in S : f[x] \in Int, NEW h
    PROVE  LET group == [v \in {h[x] : x \in S} |->
                            SumFunctionOnSet(f, {x \in S : h[x] = v})]
           IN  /\ IsFiniteSet(DOMAIN group)
               /\ \A v \in DOMAIN group : group[v] \in Int
               /\ SumFunction(group) = SumFunctionOnSet(f, S)
<1> DEFINE Fiber(s, v) == {x \in s : h[x] = v}
           G(s) == [v \in {h[x] : x \in s} |-> SumFunctionOnSet(f, Fiber(s, v))]
           Q == {s \in SUBSET S :
                    /\ IsFiniteSet(DOMAIN G(s))
                    /\ SumFunction(G(s)) = SumFunctionOnSet(f, s)}
<1>1. ASSUME NEW T \in SUBSET S, NEW v
      PROVE  IsFiniteSet(Fiber(T, v)) /\ SumFunctionOnSet(f, Fiber(T, v)) \in Int
  <2>1. Fiber(T, v) \in SUBSET S
    OBVIOUS
  <2>2. IsFiniteSet(Fiber(T, v))
    BY <2>1, FS_Subset
  <2> QED
    BY <2>1, <2>2, SumInt
<1>2. ASSUME NEW T \in SUBSET S PROVE \A v \in DOMAIN G(T) : G(T)[v] \in Int
  BY <1>1
<1>3. ASSUME NEW T \in SUBSET S, \A U \in SUBSET T : U # T => U \in Q
      PROVE  T \in Q
  <2>1. IsFiniteSet(T)
    BY FS_Subset
  <2>2. CASE T = {}
    <3>1. DOMAIN G(T) = {}
      BY <2>2
    <3> HIDE DEF G
    <3>2. SumFunction(G(T)) = 0 /\ SumFunctionOnSet(f, T) = 0
      BY <2>2, <3>1, SumEmpty DEF SumFunction
    <3> QED
      BY <3>1, <3>2, FS_EmptySet
  <2>3. CASE T # {}
    <3> DEFINE p == Pick(T)
               U == T \ {p}
    <3>1. p \in T
      BY <2>3, PickIn
    <3> HIDE DEF p
    <3>2. U \in Q /\ U \in SUBSET S
      BY <1>3, <3>1
    <3>3. DOMAIN G(T) = DOMAIN G(U) \cup {h[p]}
      BY <3>1
    <3>4. \A v \in DOMAIN G(T) \ {h[p]} : G(T)[v] = G(U)[v]
      <4> SUFFICES ASSUME NEW v \in DOMAIN G(T) \ {h[p]} PROVE G(T)[v] = G(U)[v]
        OBVIOUS
      <4>1. Fiber(T, v) = Fiber(U, v) /\ v \in DOMAIN G(U)
        BY <3>3
      <4>2. v \in DOMAIN G(T)
        OBVIOUS
      <4> HIDE DEF Fiber
      <4> QED
        BY <4>1, <4>2
    <3>5. ValueAt(G(T), h[p]) = f[p] + ValueAt(G(U), h[p])
      <4>1. p \in Fiber(T, h[p]) /\ Fiber(T, h[p]) \ {p} = Fiber(U, h[p])
        BY <3>1
      <4>2. \A x \in Fiber(T, h[p]) : f[x] \in Int
        OBVIOUS
      <4>3. SumFunctionOnSet(f, Fiber(T, h[p]))
               = f[p] + SumFunctionOnSet(f, Fiber(T, h[p]) \ {p})
        <5>1. IsFiniteSet(Fiber(T, h[p]))
          BY <1>1
        <5> HIDE DEF Fiber
        <5> QED
          BY <4>1, <4>2, <5>1, SumRemove
      <4>4. h[p] \in DOMAIN G(T)
        BY <3>1
      <4>5. CASE h[p] \in DOMAIN G(U)
        BY <4>1, <4>3, <4>4, <4>5 DEF ValueAt
      <4>6. CASE h[p] \notin DOMAIN G(U)
        <5>1. Fiber(U, h[p]) = {}
          BY <4>6
        <5>2. SumFunctionOnSet(f, Fiber(U, h[p])) = 0
          BY <5>1, SumEmpty
        <5>3. ValueAt(G(U), h[p]) = 0
          BY <4>6 DEF ValueAt
        <5>4. ValueAt(G(T), h[p]) = SumFunctionOnSet(f, Fiber(T, h[p]))
          BY <4>4 DEF ValueAt
        <5> QED
          BY <4>1, <4>3, <5>2, <5>3, <5>4
      <4> QED
        BY <4>5, <4>6
    <3>6. ValueAt(G(T), h[p]) \in Int /\ ValueAt(G(U), h[p]) \in Int
      <4>1. T \in SUBSET S
        OBVIOUS
      <4>2. (\A v \in DOMAIN G(T) : G(T)[v] \in Int)
               /\ (\A v \in DOMAIN G(U) : G(U)[v] \in Int)
        BY <1>2, <3>2
      <4> HIDE DEF G
      <4> QED
        BY <4>2 DEF ValueAt
    <3>7. SumFunctionOnSet(f, T) = f[p] + SumFunctionOnSet(f, U)
      BY <2>1, <3>1, SumRemove
    <3>8. IsFiniteSet(DOMAIN G(U)) /\ SumFunction(G(U)) = SumFunctionOnSet(f, U)
      BY <3>2
    <3>9. SumFunctionOnSet(f, U) \in Int /\ f[p] \in Int
      <4>1. IsFiniteSet(U)
        BY <3>2, FS_Subset
      <4> QED
        BY <3>1, <3>2, <4>1, SumInt
    <3>10. /\ \A v \in DOMAIN G(T) : G(T)[v] \in Int
           /\ \A v \in DOMAIN G(U) : G(U)[v] \in Int
      BY <1>2, <3>2
    <3> HIDE DEF G, U
    <3>11. IsFiniteSet(DOMAIN G(T))
      BY <3>3, <3>8, FS_AddElement
    <3>12. SumFunction(G(T)) = SumFunction(G(U)) - ValueAt(G(U), h[p]) + ValueAt(G(T), h[p])
      <4>1. DOMAIN G(U) \ {h[p]} = DOMAIN G(T) \ {h[p]}
        BY <3>3
      <4>2. \A v \in DOMAIN G(U) \ {h[p]} : G(U)[v] = G(T)[v]
        BY <3>4, <4>1
      <4> DEFINE gu == G(U)
                 gt == G(T)
      <4>3. /\ IsFiniteSet(DOMAIN gu) /\ IsFiniteSet(DOMAIN gt)
            /\ \A v \in DOMAIN gu : gu[v] \in Int
            /\ \A v \in DOMAIN gt : gt[v] \in Int
            /\ DOMAIN gu \ {h[p]} = DOMAIN gt \ {h[p]}
            /\ \A v \in DOMAIN gu \ {h[p]} : gu[v] = gt[v]
        BY <3>8, <3>10, <3>11, <4>1, <4>2
      <4> HIDE DEF gu, gt
      <4>4. SumFunction(gt) = SumFunction(gu) - ValueAt(gu, h[p]) + ValueAt(gt, h[p])
        BY <4>3, SumOnePoint
      <4> QED
        BY <4>4 DEF gu, gt
    <3>13. SumFunction(G(T)) = SumFunctionOnSet(f, T)
      BY <3>5, <3>6, <3>7, <3>8, <3>9, <3>12
    <3> QED
      BY <3>11, <3>13
  <2> QED
    BY <2>2, <2>3
<1> HIDE DEF Q
<1>4. SUBSET S \subseteq Q
  BY <1>3, SubsetInduction
<1>5. S \in Q
  BY <1>4
<1>6. IsFiniteSet(DOMAIN G(S)) /\ SumFunction(G(S)) = SumFunctionOnSet(f, S)
  BY <1>5 DEF Q
<1>7. \A v \in DOMAIN G(S) : G(S)[v] \in Int
  BY <1>2
<1> QED
  BY <1>6, <1>7

(* A sum of values that are no larger is no larger. *)
THEOREM SumMonotone ==
    ASSUME NEW f, NEW g, NEW S, IsFiniteSet(S),
           \A x \in S : f[x] \in Int /\ g[x] \in Int /\ f[x] <= g[x]
    PROVE  SumFunctionOnSet(f, S) <= SumFunctionOnSet(g, S)
<1> DEFINE Q == {s \in SUBSET S : SumFunctionOnSet(f, s) <= SumFunctionOnSet(g, s)}
<1>1. ASSUME NEW T \in SUBSET S, \A U \in SUBSET T : U # T => U \in Q
      PROVE  T \in Q
  <2>0. IsFiniteSet(T) /\ \A x \in T : f[x] \in Int /\ g[x] \in Int /\ f[x] <= g[x]
    BY FS_Subset
  <2>1. CASE T = {}
    <3>1. SumFunctionOnSet(f, T) = 0 /\ SumFunctionOnSet(g, T) = 0
      BY <2>1, SumEmpty
    <3> QED
      BY <3>1
  <2>2. CASE T # {}
    <3> DEFINE e == Pick(T)
               U == T \ {e}
               a == SumFunctionOnSet(f, U)
               b == SumFunctionOnSet(g, U)
    <3>1. e \in T /\ U \in SUBSET T /\ U # T
      BY <2>2, PickIn
    <3>2. a <= b
      BY <1>1, <3>1
    <3>3. IsFiniteSet(U) /\ \A x \in U : f[x] \in Int /\ g[x] \in Int
      BY <2>0, <3>1, FS_Subset
    <3>4. SumFunctionOnSet(f, T) = f[e] + a
      BY <2>0, <2>2, SumUnfolds
    <3>5. SumFunctionOnSet(g, T) = g[e] + b
      BY <2>0, <2>2, SumUnfolds
    <3> HIDE DEF e, U
    <3>6. a \in Int
      BY <3>3, SumInt
    <3>7. b \in Int
      BY <3>3, SumInt
    <3>8. f[e] \in Int /\ g[e] \in Int /\ f[e] <= g[e]
      BY <2>0, <3>1
    <3> HIDE DEF a, b
    <3>9. f[e] + a <= g[e] + b
      BY <3>2, <3>6, <3>7, <3>8
    <3> QED
      BY <3>4, <3>5, <3>9
  <2> QED
    BY <2>1, <2>2
<1> HIDE DEF Q
<1>2. SUBSET S \subseteq Q
  BY <1>1, SubsetInduction
<1> QED
  BY <1>2 DEF Q

(* Zeros add nothing. *)
THEOREM SumNonZero ==
    ASSUME NEW f, NEW S, IsFiniteSet(S), \A x \in S : f[x] \in Int
    PROVE  SumFunctionOnSet(f, {x \in S : f[x] # 0}) = SumFunctionOnSet(f, S)
<1> DEFINE N(s) == {x \in s : f[x] # 0}
           Q == {s \in SUBSET S : SumFunctionOnSet(f, N(s)) = SumFunctionOnSet(f, s)}
<1>1. ASSUME NEW T \in SUBSET S, \A U \in SUBSET T : U # T => U \in Q
      PROVE  T \in Q
  <2>0. IsFiniteSet(T) /\ IsFiniteSet(N(T)) /\ \A x \in T : f[x] \in Int
    BY FS_Subset
  <2>1. CASE T = {}
    <3>1. N(T) = T
      BY <2>1
    <3> QED
      BY <3>1
  <2>2. CASE T # {}
    <3> DEFINE e == Pick(T)
               U == T \ {e}
               a == SumFunctionOnSet(f, U)
    <3>1. e \in T /\ U \in SUBSET T /\ U # T /\ f[e] \in Int
      BY <2>0, <2>2, PickIn
    <3>2. SumFunctionOnSet(f, N(U)) = a
      BY <1>1, <3>1
    <3>3. SumFunctionOnSet(f, T) = f[e] + a
      BY <2>0, <2>2, SumUnfolds
    <3>4. a \in Int
      <4>1. IsFiniteSet(U) /\ \A x \in U : f[x] \in Int
        BY <2>0, <3>1, FS_Subset
      <4> HIDE DEF U
      <4> QED
        BY <4>1, SumInt
    <3>5. CASE f[e] = 0
      <4>1. N(T) = N(U)
        BY <3>5
      <4>2. f[e] + a = a
        BY <3>4, <3>5
      <4> QED
        BY <3>2, <3>3, <4>1, <4>2
    <3>6. CASE f[e] # 0
      <4>1. e \in N(T) /\ N(T) \ {e} = N(U) /\ \A x \in N(T) : f[x] \in Int
        BY <2>0, <3>1, <3>6
      <4> HIDE DEF N, e, U
      <4>2. SumFunctionOnSet(f, N(T)) = f[e] + SumFunctionOnSet(f, N(T) \ {e})
        BY <2>0, <4>1, SumRemove
      <4> QED
        BY <3>2, <3>3, <4>1, <4>2
    <3> QED
      BY <3>5, <3>6
  <2> QED
    BY <2>1, <2>2
<1> HIDE DEF Q
<1>2. SUBSET S \subseteq Q
  BY <1>1, SubsetInduction
<1> QED
  BY <1>2 DEF Q
=============================================================================
