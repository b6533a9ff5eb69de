----------------------- MODULE DamaScheduling_proofs -----------------------
(***************************************************************************)
(* Theorems about DamaScheduling for any number of terminals, any capacity *)
(* and units, any contracts and any requests.                              *)
(*                                                                         *)
(* The argument: an allocation goes through the terminals with four loops; *)
(* along each of them every slot is given or left (Accounts), and what is  *)
(* allocated in kbit/s and kbit covers the slots.  The fair share, rounded *)
(* down, leaves room for the one slot more of the second step: to have     *)
(* more credit than that a terminal must have asked for a rate, so that    *)
(* under congestion its share is less than its request.  That it asked is  *)
(* part of the invariant: the contexts keep it from one superframe to the  *)
(* next.                                                                   *)
(*                                                                         *)
(* The loops are folds and the sums too.  What a fold gives is found by    *)
(* induction on subsets, stated with a set of subsets instead of an        *)
(* operator; a loop becomes a function h with h[k] the record after its    *)
(* k-th terminal.                                                          *)
(***************************************************************************)
EXTENDS DamaScheduling, FiniteSetTheorems, WellFoundedInduction, TLAPS

-----------------------------------------------------------------------------
(* Induction without an operator: a set of subsets, a set of numbers. *)

\* Every set of naturals that is not empty has a least element.
LEMMA LeastNatural ==
  ASSUME NEW T, T \subseteq Nat, T # {}
  PROVE  \E x \in T : \A y \in T : x <= y
<1> DEFINE R == OpToRel(<, Nat)
<1>1. \A x, y \in Nat : <<x, y>> \in R <=> x < y
  BY DEF OpToRel
<1>2. IsWellFoundedOn(R, Nat)
  BY NatLessThanWellFounded
<1> HIDE DEF R
<1>3. PICK x \in T : \A y \in T : ~ (<<y, x>> \in R)
  BY <1>2, WFMin
<1>4. \A y \in T : x \in Nat /\ y \in Nat /\ ~ (y < x)
  BY <1>1, <1>3
<1> QED
  BY <1>4

\* Every bounded one has a greatest element.
LEMMA GreatestNatural ==
  ASSUME NEW T, T \subseteq Nat, T # {}, NEW n \in Nat, \A x \in T : x <= n
  PROVE  \E x \in T : \A y \in T : y <= x
<1> DEFINE U == {n - x : x \in T}
<1>1. U \subseteq Nat /\ U # {}
  <2>1. \A x \in T : x \in Nat /\ n - x \in Nat
    <3> TAKE x \in T
    <3>1. x \in Nat /\ x <= n
      OBVIOUS
    <3> QED
      BY <3>1
  <2> QED
    BY <2>1
<1>2. PICK u \in U : \A v \in U : u <= v
  BY <1>1, LeastNatural
<1>3. PICK x \in T : u = n - x
  OBVIOUS
<1>4. \A y \in T : y <= x
  <2> TAKE y \in T
  <2>1. x \in Nat /\ y \in Nat
    OBVIOUS
  <2>2. n - x <= n - y
    BY <1>2, <1>3
  <2> QED
    BY <2>1, <2>2
<1> QED
  BY <1>4

\* What holds of the empty set and goes from a subset to one with an element
\* more holds of a finite set.
LEMMA SubsetInduction ==
  ASSUME NEW D, IsFiniteSet(D), NEW G, {} \in G,
         \A S \in SUBSET D : \A x \in D \ S : S \in G => S \cup {x} \in G
  PROVE  D \in G
<1> DEFINE Bad == {Cardinality(S) : S \in {U \in SUBSET D : U \notin G}}
<1> SUFFICES ASSUME D \notin G
             PROVE  FALSE
  OBVIOUS
<1>1. Bad \subseteq Nat
  BY FS_Subset, FS_CardinalityType
<1>2. Bad # {}
  OBVIOUS
<1>3. PICK least \in Bad : \A y \in Bad : least <= y
  <2> HIDE DEF Bad
  <2> QED
    BY <1>1, <1>2, LeastNatural
<1>4. PICK S \in SUBSET D : S \notin G /\ least = Cardinality(S)
  BY <1>3
<1>5. PICK x \in S : TRUE
  BY <1>4
<1>6. IsFiniteSet(S) /\ Cardinality(S) \in Nat
  BY FS_Subset, FS_CardinalityType
<1>7. Cardinality(S \ {x}) = Cardinality(S) - 1
  BY <1>6, FS_RemoveElement
<1>8. S \ {x} \in SUBSET D /\ x \in D \ (S \ {x}) /\ (S \ {x}) \cup {x} = S
  OBVIOUS
<1>9. S \ {x} \notin G
  BY <1>4, <1>8
<1>10. Cardinality(S \ {x}) \in Bad
  BY <1>8, <1>9
<1> HIDE DEF Bad
<1>11. least <= Cardinality(S \ {x})
  BY <1>3, <1>10
<1> QED
  BY <1>4, <1>6, <1>7, <1>11

\* What holds of 0 and goes from a number to the next holds of all.
LEMMA NumberInduction ==
  ASSUME NEW G, 0 \in G, \A n \in Nat : n \in G => n + 1 \in G
  PROVE  Nat \subseteq G
<1> DEFINE Bad == Nat \ G
<1> SUFFICES ASSUME Bad # {}
             PROVE  FALSE
  OBVIOUS
<1>1. PICK least \in Bad : \A y \in Bad : least <= y
  <2> Bad \subseteq Nat
    OBVIOUS
  <2> HIDE DEF Bad
  <2> QED
    BY LeastNatural
<1>2. least # 0 /\ least \in Nat
  BY <1>1
<1>3. least - 1 \in Nat /\ (least - 1) + 1 = least
  BY <1>2
<1>4. least - 1 \notin G
  BY <1>1, <1>3
<1>5. least - 1 \in Bad
  BY <1>3, <1>4
<1> QED
  BY <1>1, <1>2, <1>5

-----------------------------------------------------------------------------
(* The folds of the model are folds over a finite set that take their elements *)
(* as a choice says. *)

\* A fold over a finite set: where it starts, what a step does, which element goes next.
FoldData(D, V, base, step, ch) ==
  /\ IsFiniteSet(D) /\ base \in V /\ step \in [D \X V -> V]
  /\ \A s \in SUBSET D : s # {} => ch[s] \in s

\* it says what the fold of each subset is.
FoldRule(it, D, base, step, ch) ==
  \A s \in SUBSET D : it[s] = IF s = {} THEN base ELSE step[<<ch[s], it[s \ {ch[s]}]>>]

\* There is such a fold.
LEMMA FoldExists ==
  ASSUME NEW D, NEW V, NEW base, NEW step, NEW ch, FoldData(D, V, base, step, ch)
  PROVE  \E it \in [SUBSET D -> V] : FoldRule(it, D, base, step, ch)
<1> USE DEF FoldData
<1> DEFINE Small(n) == {s \in SUBSET D : Cardinality(s) <= n}
           Value(h, s) == IF s = {} THEN base ELSE step[<<ch[s], h[s \ {ch[s]}]>>]
           G == {n \in Nat : \E h \in [Small(n) -> V] :
                               \A s \in Small(n) : h[s] = Value(h, s)}
<1>1. \A s \in SUBSET D : IsFiniteSet(s) /\ Cardinality(s) \in Nat
  BY FS_Subset, FS_CardinalityType
<1>2. \A s \in SUBSET D : s # {} => /\ ch[s] \in D
                                    /\ s \ {ch[s]} \in SUBSET D
                                    /\ Cardinality(s \ {ch[s]}) = Cardinality(s) - 1
  <2> TAKE s \in SUBSET D
  <2> HAVE s # {}
  <2>1. ch[s] \in s /\ IsFiniteSet(s)
    BY <1>1
  <2> QED
    BY <2>1, FS_RemoveElement
<1>3. 0 \in G
  <2>1. \A s \in Small(0) : s = {}
    <3> TAKE s \in Small(0)
    <3> IsFiniteSet(s) /\ Cardinality(s) = 0
      BY <1>1
    <3> QED
      BY FS_EmptySet
  <2>2. [s \in Small(0) |-> base] \in [Small(0) -> V]
    OBVIOUS
  <2>3. \A s \in Small(0) : [t \in Small(0) |-> base][s] = Value([t \in Small(0) |-> base], s)
    BY <2>1
  <2> QED
    BY <2>2, <2>3
<1>4. \A n \in Nat : n \in G => n + 1 \in G
  <2> TAKE n \in Nat
  <2> HAVE n \in G
  <2> PICK h \in [Small(n) -> V] : \A s \in Small(n) : h[s] = Value(h, s)
    OBVIOUS
  <2> DEFINE g == [s \in Small(n + 1) |-> IF s \in Small(n) THEN h[s] ELSE Value(h, s)]
  <2>1. \A s \in Small(n + 1) : s # {} => ch[s] \in D /\ s \ {ch[s]} \in Small(n)
    <3> TAKE s \in Small(n + 1)
    <3> HAVE s # {}
    <3>1. s \in SUBSET D /\ Cardinality(s) <= n + 1 /\ Cardinality(s) \in Nat
      BY <1>1
    <3> QED
      BY <1>2, <3>1
  <2>2. \A s \in Small(n + 1) : Value(h, s) \in V
    <3> TAKE s \in Small(n + 1)
    <3>1. CASE s = {}
      BY <3>1
    <3>2. CASE s # {}
      <4>1. ch[s] \in D /\ h[s \ {ch[s]}] \in V
        BY <2>1, <3>2
      <4> QED
        BY <3>2, <4>1
    <3> QED
      BY <3>1, <3>2
  <2>3. g \in [Small(n + 1) -> V]
    <3> HIDE DEF Value
    <3> QED
      BY <2>2
  <2>4. Small(n) \subseteq Small(n + 1)
    BY <1>1
  <2>5. \A s \in Small(n) : g[s] = h[s]
    BY <2>4
  <2>6. \A s \in Small(n + 1) : Value(g, s) = Value(h, s)
    <3> HIDE DEF g, Small
    <3> QED
      BY <2>1, <2>5
  <2>7. \A s \in Small(n + 1) : g[s] = Value(g, s)
    <3> TAKE s \in Small(n + 1)
    <3>1. g[s] = Value(h, s)
      <4> HIDE DEF Value, Small
      <4> QED
        OBVIOUS
    <3> HIDE DEF g, Value
    <3> QED
      BY <2>6, <3>1
  <2> HIDE DEF g, Value, Small
  <2> QED
    BY <2>3, <2>7
<1>5. Cardinality(D) \in G
  <2>1. Cardinality(D) \in Nat
    BY FS_CardinalityType
  <2> HIDE DEF G
  <2> QED
    BY <1>3, <1>4, <2>1, NumberInduction
<1>6. Small(Cardinality(D)) = SUBSET D
  BY FS_Subset
<1>7. PICK h \in [SUBSET D -> V] : \A s \in SUBSET D : h[s] = Value(h, s)
  <2> HIDE DEF Small, Value
  <2> QED
    BY <1>5, <1>6
<1> QED
  BY <1>7 DEF FoldRule
-----------------------------------------------------------------------------
(* Sums.  A sum takes its elements in an order that is not known; the sum of a *)
(* set is what any element adds to the sum of the others.                      *)

\* it says what the sum of f over each subset is, the elements as CHOOSE takes them.
SumRule(it, f, S) ==
  \A s \in SUBSET S :
    it[s] = IF s = {} THEN 0
            ELSE f[CHOOSE x \in s : TRUE] + it[s \ {CHOOSE x \in s : TRUE}]

\* SumFunctionOnSet, a fold of the community modules, follows that rule.
LEMMA SumFold ==
  ASSUME NEW S, IsFiniteSet(S), NEW f, \A x \in S : f[x] \in Nat
  PROVE  \E it \in [SUBSET S -> Nat] : SumFunctionOnSet(f, S) = it[S] /\ SumRule(it, f, S)
<1> DEFINE pick == [s \in SUBSET S |-> IF s = {} THEN {} ELSE CHOOSE x \in s : TRUE]
           step == [p \in S \X Nat |-> f[p[1]] + p[2]]
           F(h, s) == IF s = {} THEN 0
                      ELSE f[CHOOSE x \in s : TRUE] + h[s \ {CHOOSE x \in s : TRUE}]
<1>1. step \in [S \X Nat -> Nat]
  <2> \A p \in S \X Nat : f[p[1]] \in Nat /\ p[2] \in Nat
    OBVIOUS
  <2> \A p \in S \X Nat : f[p[1]] + p[2] \in Nat
    OBVIOUS
  <2> QED
    OBVIOUS
<1>2. \A s \in SUBSET S : s # {} => pick[s] \in s /\ pick[s] = CHOOSE x \in s : TRUE
  OBVIOUS
<1>3. FoldData(S, Nat, 0, step, pick)
  <2> HIDE DEF pick, step
  <2> QED
    BY <1>1, <1>2 DEF FoldData
<1>4. PICK it \in [SUBSET S -> Nat] : FoldRule(it, S, 0, step, pick)
  <2> HIDE DEF pick, step
  <2> QED
    BY <1>3, FoldExists
<1>5. \A s \in SUBSET S :
        it[s] = IF s = {} THEN 0 ELSE step[<<pick[s], it[s \ {pick[s]}]>>]
  <2> HIDE DEF pick, step
  <2> QED
    BY <1>4 DEF FoldRule
<1>6. \A s \in SUBSET S : it[s] = F(it, s)
  <2> TAKE s \in SUBSET S
  <2>1. CASE s = {}
    BY <1>5, <2>1
  <2>2. CASE s # {}
    <3>1. pick[s] \in S /\ s \ {pick[s]} \in SUBSET S
      BY <1>2, <2>2
    <3>2. it[s \ {pick[s]}] \in Nat
      BY <3>1
    <3>3. it[s] = step[<<pick[s], it[s \ {pick[s]}]>>]
      <4> HIDE DEF pick, step
      <4> QED
        BY <1>5, <2>2
    <3>4. step[<<pick[s], it[s \ {pick[s]}]>>] = f[pick[s]] + it[s \ {pick[s]}]
      <4> HIDE DEF pick
      <4> QED
        BY <3>1, <3>2
    <3>5. pick[s] = CHOOSE x \in s : TRUE
      BY <1>2, <2>2
    <3> HIDE DEF pick, step
    <3> QED
      BY <2>2, <3>3, <3>4, <3>5
  <2> QED
    BY <2>1, <2>2
<1>7. it = [s \in SUBSET S |-> F(it, s)]
  <2> HIDE DEF F
  <2> QED
    BY <1>6
<1>8. PICK chosen : /\ chosen = [s \in SUBSET S |-> F(chosen, s)]
                    /\ SumFunctionOnSet(f, S) = chosen[S]
  <2> DEFINE result == CHOOSE h : h = [s \in SUBSET S |-> F(h, s)]
  <2>1. result = [s \in SUBSET S |-> F(result, s)]
    <3> HIDE DEF F
    <3> QED
      BY <1>7
  <2>2. SumFunctionOnSet(f, S) = result[S]
    BY DEF SumFunctionOnSet, FoldFunctionOnSet, MapThenFoldSet
  <2> HIDE DEF result
  <2> QED
    BY <2>1, <2>2
<1>9. \A s \in SUBSET S : chosen[s] = F(chosen, s)
  <2> HIDE DEF F
  <2> QED
    BY <1>8
<1>14. chosen[{}] = 0
  BY <1>9
<1>10. \A s \in SUBSET S :
         s # {} => chosen[s] = f[CHOOSE x \in s : TRUE] + chosen[s \ {CHOOSE x \in s : TRUE}]
  BY <1>9
<1>11. \A s \in SUBSET S : s # {} => /\ (CHOOSE x \in s : TRUE) \in s
                                     /\ f[CHOOSE x \in s : TRUE] \in Nat
  OBVIOUS
<1>12. chosen \in [SUBSET S -> Nat]
  <2> DEFINE G == {n \in Nat : \A s \in SUBSET S : Cardinality(s) <= n => chosen[s] \in Nat}
  <2>1. \A s \in SUBSET S : IsFiniteSet(s) /\ Cardinality(s) \in Nat
    BY FS_Subset, FS_CardinalityType
  <2>2. 0 \in G
    <3> SUFFICES ASSUME NEW s \in SUBSET S, Cardinality(s) <= 0
                 PROVE  chosen[s] \in Nat
      OBVIOUS
    <3> s = {}
      BY <2>1, FS_EmptySet
    <3> QED
      BY <1>14
  <2>3. \A n \in Nat : n \in G => n + 1 \in G
    <3> SUFFICES ASSUME NEW n \in Nat, n \in G, NEW s \in SUBSET S, Cardinality(s) <= n + 1
                 PROVE  chosen[s] \in Nat
      OBVIOUS
    <3>1. CASE s = {}
      BY <1>14, <3>1
    <3>2. CASE s # {}
      <4> DEFINE c == CHOOSE x \in s : TRUE
      <4>1. c \in s /\ f[c] \in Nat /\ s \ {c} \in SUBSET S
        BY <1>11, <3>2
      <4>2. Cardinality(s \ {c}) <= n
        <5> HIDE DEF c
        <5> QED
          BY <2>1, <4>1, FS_RemoveElement
      <4>3. chosen[s \ {c}] \in Nat
        BY <4>1, <4>2
      <4>4. chosen[s] = f[c] + chosen[s \ {c}]
        BY <1>10, <3>2
      <4> HIDE DEF c
      <4> QED
        BY <4>1, <4>3, <4>4
    <3> QED
      BY <3>1, <3>2
  <2>4. Nat \subseteq G
    <3> HIDE DEF G
    <3> QED
      BY <2>2, <2>3, NumberInduction
  <2>5. \A s \in SUBSET S : chosen[s] \in Nat
    BY <2>1, <2>4
  <2> HIDE DEF F
  <2> QED
    BY <1>8, <2>5
<1>13. SumRule(chosen, f, S)
  BY <1>9 DEF SumRule
<1> QED
  BY <1>8, <1>12, <1>13

\* The same, whichever element goes first.
SumTable(it, f, S) ==
  /\ it[{}] = 0
  /\ \A s \in SUBSET S : \A x \in s : it[s] = f[x] + it[s \ {x}]

\* Any element can be taken first.
LEMMA SumHasTable ==
  ASSUME NEW S, IsFiniteSet(S), NEW f, \A x \in S : f[x] \in Nat
  PROVE  \E it \in [SUBSET S -> Nat] : SumFunctionOnSet(f, S) = it[S] /\ SumTable(it, f, S)
<1> PICK it \in [SUBSET S -> Nat] : SumFunctionOnSet(f, S) = it[S] /\ SumRule(it, f, S)
  BY SumFold
<1>1. it[{}] = 0
  BY DEF SumRule
<1>2. \A s \in SUBSET S : s # {} =>
        \E c \in s : it[s] = f[c] + it[s \ {c}]
  BY DEF SumRule
<1>3. \A s \in SUBSET S : IsFiniteSet(s) /\ Cardinality(s) \in Nat
  BY FS_Subset, FS_CardinalityType
<1> DEFINE Takes(s) == \A x \in s : it[s] = f[x] + it[s \ {x}]
           G == {n \in Nat : \A s \in SUBSET S : Cardinality(s) <= n => Takes(s)}
<1>4. 0 \in G
  <2> SUFFICES ASSUME NEW s \in SUBSET S, Cardinality(s) <= 0
               PROVE  Takes(s)
    OBVIOUS
  <2> s = {}
    BY <1>3, FS_EmptySet
  <2> QED
    OBVIOUS
<1>5. \A n \in Nat : n \in G => n + 1 \in G
  <2> SUFFICES ASSUME NEW n \in Nat, n \in G, NEW s \in SUBSET S, Cardinality(s) <= n + 1
               PROVE  Takes(s)
    <3> HIDE DEF Takes
    <3> QED
      OBVIOUS
  <2> TAKE x \in s
  <2>1. PICK c \in s : it[s] = f[c] + it[s \ {c}]
    BY <1>2
  <2>2. CASE c = x
    BY <2>1, <2>2
  <2>3. CASE c # x
    <3>1. s \ {c} \in SUBSET S /\ s \ {x} \in SUBSET S /\ s \ {c, x} \in SUBSET S
      OBVIOUS
    <3>2. Cardinality(s \ {c}) <= n /\ Cardinality(s \ {x}) <= n
      BY <1>3, FS_RemoveElement
    <3>3. Takes(s \ {c}) /\ Takes(s \ {x})
      <4> HIDE DEF Takes
      <4> QED
        BY <3>1, <3>2
    <3>4. /\ (s \ {c}) \ {x} = s \ {c, x} /\ (s \ {x}) \ {c} = s \ {c, x}
          /\ x \in s \ {c} /\ c \in s \ {x}
      BY <2>3
    <3>5. it[s \ {c}] = f[x] + it[s \ {c, x}] /\ it[s \ {x}] = f[c] + it[s \ {c, x}]
      BY <3>3, <3>4
    <3>6. f[x] \in Nat /\ f[c] \in Nat /\ it[s \ {c, x}] \in Nat
      BY <3>1
    <3> QED
      BY <2>1, <3>5, <3>6
  <2> QED
    BY <2>2, <2>3
<1>6. Nat \subseteq G
  <2> HIDE DEF G
  <2> QED
    BY <1>4, <1>5, NumberInduction
<1>7. \A s \in SUBSET S : Takes(s)
  <2> HIDE DEF Takes
  <2> QED
    BY <1>3, <1>6
<1> QED
  BY <1>1, <1>7 DEF SumTable

\* A sum of naturals is one, and any element can be taken out of it.
LEMMA SumOfSet ==
  ASSUME NEW S, IsFiniteSet(S), NEW f, \A x \in S : f[x] \in Nat
  PROVE  /\ SumFunctionOnSet(f, S) \in Nat
         /\ \A x \in S : SumFunctionOnSet(f, S) = f[x] + SumFunctionOnSet(f, S \ {x})
<1>1. PICK it \in [SUBSET S -> Nat] : SumFunctionOnSet(f, S) = it[S] /\ SumTable(it, f, S)
  BY SumHasTable
<1>2. /\ it[{}] = 0
      /\ \A s \in SUBSET S : \A x \in s : it[s] = f[x] + it[s \ {x}]
  BY <1>1 DEF SumTable
<1>3. ASSUME NEW x \in S
      PROVE  SumFunctionOnSet(f, S) = f[x] + SumFunctionOnSet(f, S \ {x})
  <2> DEFINE D == S \ {x}
  <2>1. IsFiniteSet(D) /\ D \in SUBSET S /\ \A y \in D : f[y] \in Nat
    BY FS_RemoveElement
  <2>2. PICK other \in [SUBSET D -> Nat] :
          SumFunctionOnSet(f, D) = other[D] /\ SumTable(other, f, D)
    <3> HIDE DEF D
    <3> QED
      BY <2>1, SumHasTable
  <2>3. /\ other[{}] = 0
        /\ \A s \in SUBSET D : \A y \in s : other[s] = f[y] + other[s \ {y}]
    BY <2>2 DEF SumTable
  <2> DEFINE G == {s \in SUBSET D : it[s] = other[s]}
  <2>4. {} \in G
    BY <1>2, <2>3
  <2>5. \A s \in SUBSET D : \A y \in D \ s : s \in G => s \cup {y} \in G
    <3> SUFFICES ASSUME NEW s \in SUBSET D, NEW y \in D \ s, it[s] = other[s]
                 PROVE  it[s \cup {y}] = other[s \cup {y}]
      OBVIOUS
    <3>1. s \cup {y} \in SUBSET D /\ s \cup {y} \in SUBSET S /\ (s \cup {y}) \ {y} = s
      OBVIOUS
    <3> QED
      BY <1>2, <2>3, <3>1
  <2>6. D \in G
    <3> HIDE DEF D, G
    <3> QED
      BY <2>1, <2>4, <2>5, SubsetInduction
  <2>7. it[S] = f[x] + it[D]
    BY <1>2
  <2> QED
    BY <1>1, <2>2, <2>6, <2>7
<1> QED
  BY <1>1, <1>3

\* The sum of nothing is 0.
LEMMA SumOfEmpty ==
  ASSUME NEW f
  PROVE  SumFunctionOnSet(f, {}) = 0
<1>1. PICK it \in [SUBSET {} -> Nat] : SumFunctionOnSet(f, {}) = it[{}] /\ SumRule(it, f, {})
  <2>1. IsFiniteSet({}) /\ \A x \in {} : f[x] \in Nat
    BY FS_EmptySet
  <2> QED
    BY <2>1, SumFold
<1> QED
  BY <1>1 DEF SumRule

\* Sums are compared element by element.
LEMMA SumScaled ==
  ASSUME NEW S, IsFiniteSet(S), NEW f, NEW g, NEW c \in Nat, NEW d \in Nat,
         \A x \in S : f[x] \in Nat /\ g[x] \in Nat /\ c * f[x] <= d * g[x]
  PROVE  c * SumFunctionOnSet(f, S) <= d * SumFunctionOnSet(g, S)
<1> DEFINE G == {s \in SUBSET S : c * SumFunctionOnSet(f, s) <= d * SumFunctionOnSet(g, s)}
<1>1. {} \in G
  <2> SumFunctionOnSet(f, {}) = 0 /\ SumFunctionOnSet(g, {}) = 0
    BY SumOfEmpty
  <2> QED
    OBVIOUS
<1>2. \A s \in SUBSET S : \A x \in S \ s : s \in G => s \cup {x} \in G
  <2> SUFFICES ASSUME NEW s \in SUBSET S, NEW x \in S \ s,
                      c * SumFunctionOnSet(f, s) <= d * SumFunctionOnSet(g, s)
               PROVE  c * SumFunctionOnSet(f, s \cup {x}) <= d * SumFunctionOnSet(g, s \cup {x})
    OBVIOUS
  <2> DEFINE F == SumFunctionOnSet(f, s)
             H == SumFunctionOnSet(g, s)
             more == s \cup {x}
  <2>1. IsFiniteSet(s) /\ IsFiniteSet(more) /\ more \ {x} = s /\ x \in more
    BY FS_Subset
  <2>2. \A y \in more : f[y] \in Nat /\ g[y] \in Nat
    OBVIOUS
  <2>3. F \in Nat /\ H \in Nat
    BY <2>1, SumOfSet
  <2>4. SumFunctionOnSet(f, more) = f[x] + F /\ SumFunctionOnSet(g, more) = g[x] + H
    <3> HIDE DEF more
    <3> QED
      BY <2>1, <2>2, SumOfSet
  <2>5. c * F <= d * H /\ f[x] \in Nat /\ g[x] \in Nat /\ c * f[x] <= d * g[x]
    OBVIOUS
  <2>6. c * (f[x] + F) = c * f[x] + c * F /\ d * (g[x] + H) = d * g[x] + d * H
    <3> HIDE DEF F, H
    <3> QED
      BY <2>3, <2>5
  <2>7. c * F \in Int /\ d * H \in Int /\ c * f[x] \in Int /\ d * g[x] \in Int
    BY <2>3, <2>5
  <2> HIDE DEF F, H
  <2> QED
    BY <2>4, <2>5, <2>6, <2>7
<1>3. S \in G
  <2> HIDE DEF G
  <2> QED
    BY <1>1, <1>2, SubsetInduction
<1> QED
  BY <1>3

\* Functions that agree on a set have the same sum.
LEMMA SumSame ==
  ASSUME NEW S, IsFiniteSet(S), NEW f, NEW g, \A x \in S : f[x] \in Nat /\ g[x] = f[x]
  PROVE  SumFunctionOnSet(f, S) = SumFunctionOnSet(g, S)
<1>1. SumFunctionOnSet(f, S) \in Nat /\ SumFunctionOnSet(g, S) \in Nat
  BY SumOfSet
<1>2. 1 \in Nat /\ \A x \in S : f[x] \in Nat /\ g[x] \in Nat /\ 1 * f[x] <= 1 * g[x] /\ 1 * g[x] <= 1 * f[x]
  OBVIOUS
<1>3. 1 * SumFunctionOnSet(f, S) <= 1 * SumFunctionOnSet(g, S)
  BY <1>2, SumScaled
<1>4. 1 * SumFunctionOnSet(g, S) <= 1 * SumFunctionOnSet(f, S)
  BY <1>2, SumScaled
<1> QED
  BY <1>1, <1>3, <1>4

\* The sum of a sum of functions.
LEMMA SumAdded ==
  ASSUME NEW S, IsFiniteSet(S), NEW f, NEW g, NEW h,
         \A x \in S : f[x] \in Nat /\ g[x] \in Nat /\ h[x] = f[x] + g[x]
  PROVE  SumFunctionOnSet(h, S) = SumFunctionOnSet(f, S) + SumFunctionOnSet(g, S)
<1> DEFINE G == {s \in SUBSET S :
                   SumFunctionOnSet(h, s) = SumFunctionOnSet(f, s) + SumFunctionOnSet(g, s)}
<1>1. {} \in G
  <2> /\ SumFunctionOnSet(f, {}) = 0 /\ SumFunctionOnSet(g, {}) = 0
      /\ SumFunctionOnSet(h, {}) = 0
    BY SumOfEmpty
  <2> QED
    OBVIOUS
<1>2. \A s \in SUBSET S : \A x \in S \ s : s \in G => s \cup {x} \in G
  <2> SUFFICES ASSUME NEW s \in SUBSET S, NEW x \in S \ s,
                      SumFunctionOnSet(h, s) = SumFunctionOnSet(f, s) + SumFunctionOnSet(g, s)
               PROVE  SumFunctionOnSet(h, s \cup {x})
                        = SumFunctionOnSet(f, s \cup {x}) + SumFunctionOnSet(g, s \cup {x})
    OBVIOUS
  <2> DEFINE more == s \cup {x}
  <2>1. IsFiniteSet(s) /\ IsFiniteSet(more) /\ more \ {x} = s /\ x \in more
    BY FS_Subset
  <2>2. \A y \in more : f[y] \in Nat /\ g[y] \in Nat /\ h[y] \in Nat
    OBVIOUS
  <2>3. SumFunctionOnSet(f, s) \in Nat /\ SumFunctionOnSet(g, s) \in Nat
    BY <2>1, SumOfSet
  <2>4. /\ SumFunctionOnSet(f, more) = f[x] + SumFunctionOnSet(f, s)
        /\ SumFunctionOnSet(g, more) = g[x] + SumFunctionOnSet(g, s)
        /\ SumFunctionOnSet(h, more) = h[x] + SumFunctionOnSet(h, s)
    <3> HIDE DEF more
    <3> QED
      BY <2>1, <2>2, SumOfSet
  <2> QED
    BY <2>2, <2>3, <2>4
<1>3. S \in G
  <2> HIDE DEF G
  <2> QED
    BY <1>1, <1>2, SubsetInduction
<1> QED
  BY <1>3

\* A sum of which one element changes.
LEMMA SumChanged ==
  ASSUME NEW S, IsFiniteSet(S), NEW f, NEW g, NEW t \in S,
         \A x \in S : f[x] \in Nat /\ g[x] \in Nat,
         \A x \in S : x # t => g[x] = f[x]
  PROVE  SumFunctionOnSet(g, S) + f[t] = SumFunctionOnSet(f, S) + g[t]
<1> DEFINE others == S \ {t}
<1>1. IsFiniteSet(others)
  BY FS_RemoveElement
<1>2. /\ SumFunctionOnSet(f, S) = f[t] + SumFunctionOnSet(f, others)
      /\ SumFunctionOnSet(g, S) = g[t] + SumFunctionOnSet(g, others)
  BY SumOfSet
<1>3. \A x \in others : f[x] \in Nat /\ g[x] = f[x]
  OBVIOUS
<1>4. SumFunctionOnSet(f, others) = SumFunctionOnSet(g, others)
  <2> HIDE DEF others
  <2> QED
    BY <1>1, <1>3, SumSame
<1>5. SumFunctionOnSet(f, others) \in Nat
  <2> HIDE DEF others
  <2> QED
    BY <1>1, <1>3, SumOfSet
<1> QED
  BY <1>2, <1>4, <1>5

\* A sum of zeros is 0.
LEMMA SumOfZeros ==
  ASSUME NEW S, IsFiniteSet(S), NEW f, \A x \in S : f[x] = 0
  PROVE  SumFunctionOnSet(f, S) = 0
<1>1. SumFunctionOnSet(f, S) \in Nat
  BY SumOfSet
<1>2. 1 \in Nat /\ 0 \in Nat /\ \A x \in S : f[x] \in Nat /\ f[x] \in Nat /\ 1 * f[x] <= 0 * f[x]
  OBVIOUS
<1>3. 1 * SumFunctionOnSet(f, S) <= 0 * SumFunctionOnSet(f, S)
  BY <1>2, SumScaled
<1> QED
  BY <1>1, <1>3

\* A part has no larger sum than the whole.
LEMMA SumOfPart ==
  ASSUME NEW S, IsFiniteSet(S), NEW f, \A x \in S : f[x] \in Nat, NEW U \in SUBSET S
  PROVE  SumFunctionOnSet(f, U) <= SumFunctionOnSet(f, S)
<1> DEFINE D == S \ U
           G == {s \in SUBSET D : SumFunctionOnSet(f, U) <= SumFunctionOnSet(f, U \cup s)}
<1>1. IsFiniteSet(U) /\ IsFiniteSet(D)
  BY FS_Subset
<1>2. {} \in G
  <2> SumFunctionOnSet(f, U) \in Nat /\ U \cup {} = U
    BY <1>1, SumOfSet
  <2> QED
    OBVIOUS
<1>3. \A s \in SUBSET D : \A x \in D \ s : s \in G => s \cup {x} \in G
  <2> SUFFICES ASSUME NEW s \in SUBSET D, NEW x \in D \ s,
                      SumFunctionOnSet(f, U) <= SumFunctionOnSet(f, U \cup s)
               PROVE  SumFunctionOnSet(f, U) <= SumFunctionOnSet(f, U \cup (s \cup {x}))
    OBVIOUS
  <2> DEFINE more == U \cup (s \cup {x})
             less == U \cup s
  <2>1. IsFiniteSet(less) /\ IsFiniteSet(more) /\ more \ {x} = less /\ x \in more
    <3> less \in SUBSET S /\ more \in SUBSET S
      OBVIOUS
    <3> HIDE DEF less, more
    <3>1. IsFiniteSet(less) /\ IsFiniteSet(more)
      BY FS_Subset
    <3> USE DEF less, more
    <3> QED
      BY <3>1
  <2>2. (\A y \in more : f[y] \in Nat) /\ (\A y \in less : f[y] \in Nat)
    OBVIOUS
  <2> HIDE DEF less, more
  <2>3. SumFunctionOnSet(f, more) = f[x] + SumFunctionOnSet(f, less) /\ f[x] \in Nat
    BY <2>1, <2>2, SumOfSet
  <2>4. SumFunctionOnSet(f, less) \in Nat
    BY <2>1, <2>2, SumOfSet
  <2>5. SumFunctionOnSet(f, U) \in Nat
    BY <1>1, SumOfSet
  <2>6. SumFunctionOnSet(f, U) <= SumFunctionOnSet(f, less)
    BY DEF less
  <2>7. SumFunctionOnSet(f, U) <= SumFunctionOnSet(f, more)
    BY <2>3, <2>4, <2>5, <2>6
  <2> QED
    BY <2>7 DEF more
<1>4. D \in G
  <2> HIDE DEF D, G
  <2> QED
    BY <1>1, <1>2, <1>3, SubsetInduction
<1>5. U \cup D = S
  OBVIOUS
<1> QED
  BY <1>4, <1>5

-----------------------------------------------------------------------------
(* The conversions and their roundings. *)

\* What rounding down does.
LEMMA FloorFacts ==
  ASSUME NEW a \in Nat, NEW b \in Nat \ {0}
  PROVE  a \div b \in Nat /\ (a \div b) * b <= a /\ a < (a \div b) * b + b
<1>1. a \div b \in Nat /\ a % b \in Nat /\ a % b < b /\ a = b * (a \div b) + (a % b)
  OBVIOUS
<1> DEFINE q == a \div b
<1>2. b * q = q * b
  <2> q \in Nat
    BY <1>1
  <2> HIDE DEF q
  <2> QED
    OBVIOUS
<1>3. q \in Nat /\ q * b \in Nat
  BY <1>1
<1> HIDE DEF q
<1>4. q * b <= a /\ a < q * b + b
  BY <1>1, <1>2, <1>3 DEF q
<1> QED
  BY <1>3, <1>4 DEF q

\* What rounding up does.
LEMMA CeilFacts ==
  ASSUME NEW a \in Nat, NEW b \in Nat \ {0}
  PROVE  /\ CeilDiv(a, b) \in Nat
         /\ a <= CeilDiv(a, b) * b
         /\ CeilDiv(a, b) * b < a + b
         /\ CeilDiv(a, b) = 0 <=> a = 0
<1>1. a + b - 1 \in Nat
  OBVIOUS
<1> DEFINE q == (a + b - 1) \div b
<1>2. q \in Nat /\ q * b <= a + b - 1 /\ a + b - 1 < q * b + b
  BY <1>1, FloorFacts
<1>3. CeilDiv(a, b) = q
  BY DEF CeilDiv
<1> HIDE DEF q
<1>4. q * b \in Nat
  BY <1>2
<1>5. a <= q * b /\ q * b < a + b
  BY <1>2, <1>4
<1>6. ASSUME q = 0
      PROVE  a = 0
  <2> q * b = 0
    BY <1>6
  <2> QED
    BY <1>5
<1>7. ASSUME a = 0, q # 0
      PROVE  FALSE
  <2>1. q >= 1
    BY <1>2, <1>7
  <2>2. q * b >= b
    BY <1>2, <2>1
  <2> QED
    BY <1>4, <1>5, <1>7, <2>2
<1> QED
  BY <1>2, <1>3, <1>5, <1>6, <1>7

\* The units are numbers, and none that divides is 0.
LEMMA Units ==
  /\ PacketBits \in Nat \ {0} /\ FrameDuration \in Nat \ {0} /\ Capacity \in Nat
  /\ CodingNum \in Nat \ {0} /\ CodingDen \in Nat \ {0} /\ CodingNum <= CodingDen
  /\ CreditScale \in Nat \ {0} /\ CreditCap \in Nat
BY UnitsAssumption

\* What the coding adds to n is taken off again.
LEMMA FecFacts ==
  ASSUME NEW n \in Nat
  PROVE  /\ AddFec(n) \in Nat /\ n <= AddFec(n)
         /\ RemoveFec(n) \in Nat /\ n * CodingNum <= RemoveFec(n) * CodingDen
         /\ n <= RemoveFec(AddFec(n))
<1> USE Units
<1> DEFINE a == AddFec(n)
<1>1. n * CodingDen \in Nat /\ n * CodingNum \in Nat
  OBVIOUS
<1>2. a \in Nat /\ a * CodingNum <= n * CodingDen /\ n * CodingDen < a * CodingNum + CodingNum
  BY <1>1, FloorFacts DEF AddFec
<1>3. RemoveFec(n) \in Nat /\ n * CodingNum <= RemoveFec(n) * CodingDen
  BY <1>1, CeilFacts DEF RemoveFec
<1> HIDE DEF a
<1>4. n <= a
  <2> SUFFICES ASSUME a < n
               PROVE  FALSE
    BY <1>2
  <2>1. a + 1 <= n
    BY <1>2
  <2>2. (a + 1) * CodingNum <= n * CodingNum
    BY <1>2, <2>1
  <2>3. n * CodingNum <= n * CodingDen
    OBVIOUS
  <2>4. (a + 1) * CodingNum = a * CodingNum + CodingNum
    BY <1>2
  <2>5. a * CodingNum \in Nat
    BY <1>2
  <2> QED
    BY <1>1, <1>2, <2>2, <2>3, <2>4, <2>5
<1>5. n <= RemoveFec(a)
  <2> DEFINE r == RemoveFec(a)
  <2>1. a * CodingNum \in Nat
    BY <1>2
  <2>2. r \in Nat /\ a * CodingNum <= r * CodingDen
    BY <2>1, CeilFacts DEF RemoveFec
  <2> HIDE DEF r
  <2>7. ASSUME r < n
        PROVE  FALSE
    <3>1. r + 1 <= n
      BY <2>2, <2>7
    <3>2. (r + 1) * CodingDen <= n * CodingDen
      BY <2>2, <3>1
    <3>3. (r + 1) * CodingDen = r * CodingDen + CodingDen
      BY <2>2
    <3>4. r * CodingDen \in Nat
      BY <2>2
    <3> QED
      BY <1>1, <1>2, <2>1, <2>2, <3>2, <3>3, <3>4
  <2> QED
    BY <2>2, <2>7 DEF r
<1> QED
  BY <1>2, <1>3, <1>4, <1>5 DEF a

\* The slots a rate needs and the rate some slots give: never rounded against the slots.
LEMMA RateFacts ==
  ASSUME NEW n \in Nat
  PROVE  /\ RateSlots(n) \in Nat /\ (RateSlots(n) = 0 <=> n = 0)
         /\ SlotsRate(n) \in Nat
         /\ n * PacketBits * CodingNum <= SlotsRate(n) * FrameDuration * CodingDen
         /\ PktpfToKbps(n) \in Nat /\ (PktpfToKbps(n) = 0 <=> n = 0)
         /\ PsToPf(n) \in Nat /\ n * FrameDuration <= PsToPf(n) * 1000
<1> USE Units
<1>1. RateSlots(n) \in Nat /\ (RateSlots(n) = 0 <=> n = 0)
  <2> DEFINE a == AddFec(n)
  <2>1. a \in Nat /\ n <= a
    BY FecFacts
  <2>2. n = 0 => a = 0
    <3> SUFFICES ASSUME n = 0
                 PROVE  a = 0
      OBVIOUS
    <3>1. n * CodingDen = 0
      OBVIOUS
    <3>2. a * CodingNum <= n * CodingDen
      <4> n * CodingDen \in Nat
        OBVIOUS
      <4> QED
        BY FloorFacts DEF AddFec
    <3> HIDE DEF a
    <3> QED
      BY <2>1, <3>1, <3>2
  <2> HIDE DEF a
  <2>3. a * FrameDuration \in Nat /\ (a * FrameDuration = 0 <=> a = 0)
    BY <2>1
  <2>4. CeilDiv(a * FrameDuration, PacketBits) \in Nat
        /\ (CeilDiv(a * FrameDuration, PacketBits) = 0 <=> a * FrameDuration = 0)
    BY <2>3, CeilFacts
  <2> QED
    BY <2>1, <2>2, <2>3, <2>4 DEF RateSlots, KbpsToPktpf, a
<1>2. PktpfToKbps(n) \in Nat /\ (PktpfToKbps(n) = 0 <=> n = 0)
      /\ n * PacketBits <= PktpfToKbps(n) * FrameDuration
  <2>1. n * PacketBits \in Nat /\ (n * PacketBits = 0 <=> n = 0)
    OBVIOUS
  <2> QED
    BY <2>1, CeilFacts DEF PktpfToKbps
<1>3. SlotsRate(n) \in Nat /\ n * PacketBits * CodingNum <= SlotsRate(n) * FrameDuration * CodingDen
  <2> DEFINE p == PktpfToKbps(n)
             r == RemoveFec(p)
  <2>1. r \in Nat /\ p * CodingNum <= r * CodingDen
    BY <1>2, FecFacts
  <2>2. p \in Nat /\ n * PacketBits <= p * FrameDuration
    BY <1>2
  <2> HIDE DEF r, p
  <2>3. (n * PacketBits) * CodingNum <= (p * FrameDuration) * CodingNum
    <3> n * PacketBits \in Nat /\ p * FrameDuration \in Nat
      BY <2>2
    <3> QED
      BY <2>2
  <2>4. (p * FrameDuration) * CodingNum = (p * CodingNum) * FrameDuration
    BY <2>2
  <2>5. (p * CodingNum) * FrameDuration <= (r * CodingDen) * FrameDuration
    <3> p * CodingNum \in Nat /\ r * CodingDen \in Nat
      BY <2>1, <2>2
    <3> QED
      BY <2>1
  <2>6. (r * CodingDen) * FrameDuration = r * FrameDuration * CodingDen
    BY <2>1
  <2>7. /\ (n * PacketBits) * CodingNum \in Nat /\ (p * CodingNum) * FrameDuration \in Nat
        /\ (r * CodingDen) * FrameDuration \in Nat
    BY <2>1, <2>2
  <2>8. n * PacketBits * CodingNum <= r * FrameDuration * CodingDen
    BY <2>3, <2>4, <2>5, <2>6, <2>7
  <2> QED
    BY <2>1, <2>8 DEF SlotsRate, r, p
<1>4. PsToPf(n) \in Nat /\ n * FrameDuration <= PsToPf(n) * 1000
  <2>1. n * FrameDuration \in Nat
    OBVIOUS
  <2> QED
    BY <2>1, CeilFacts DEF PsToPf
<1> QED
  BY <1>1, <1>2, <1>3, <1>4

\* The same for volumes: the slots of a volume carry all of it.
LEMMA VolumeFacts ==
  ASSUME NEW n \in Nat
  PROVE  /\ VolumeSlots(n) \in Nat /\ n <= SlotsVolume(VolumeSlots(n))
         /\ SlotsVolume(n) \in Nat
         /\ n * PacketBits * CodingNum <= SlotsVolume(n) * 1000 * CodingDen
<1> USE Units
<1>1. ASSUME NEW p \in Nat
      PROVE  PktToKbits(p) \in Nat /\ p * PacketBits <= PktToKbits(p) * 1000
  <2>1. p * PacketBits \in Nat
    OBVIOUS
  <2> QED
    BY <2>1, CeilFacts DEF PktToKbits
<1>2. SlotsVolume(n) \in Nat /\ n * PacketBits * CodingNum <= SlotsVolume(n) * 1000 * CodingDen
  <2> DEFINE p == PktToKbits(n)
             r == RemoveFec(p)
  <2>1. r \in Nat /\ p * CodingNum <= r * CodingDen
    BY <1>1, FecFacts
  <2>2. p \in Nat /\ n * PacketBits <= p * 1000
    BY <1>1
  <2> HIDE DEF r, p
  <2>3. (n * PacketBits) * CodingNum <= (p * 1000) * CodingNum
    <3> n * PacketBits \in Nat /\ p * 1000 \in Nat
      BY <2>2
    <3> QED
      BY <2>2
  <2>4. (p * 1000) * CodingNum = (p * CodingNum) * 1000
    BY <2>2
  <2>5. (p * CodingNum) * 1000 <= (r * CodingDen) * 1000
    <3> p * CodingNum \in Nat /\ r * CodingDen \in Nat
      BY <2>1, <2>2
    <3> QED
      BY <2>1
  <2>6. (r * CodingDen) * 1000 = r * 1000 * CodingDen
    BY <2>1
  <2>7. /\ (n * PacketBits) * CodingNum \in Nat /\ (p * CodingNum) * 1000 \in Nat
        /\ (r * CodingDen) * 1000 \in Nat
    BY <2>1, <2>2
  <2>8. n * PacketBits * CodingNum <= r * 1000 * CodingDen
    BY <2>3, <2>4, <2>5, <2>6, <2>7
  <2> QED
    BY <2>1, <2>8 DEF SlotsVolume, r, p
<1>3. VolumeSlots(n) \in Nat /\ n <= SlotsVolume(VolumeSlots(n))
  <2> DEFINE a == AddFec(n)
             v == KbitsToPkt(a)
             p == PktToKbits(v)
  <2>1. a \in Nat /\ n <= RemoveFec(a)
    BY FecFacts
  <2>2. v \in Nat /\ a * 1000 <= v * PacketBits
    <3> HIDE DEF a
    <3> DEFINE m == a * 1000
    <3>1. m \in Nat
      BY <2>1
    <3>2. v = CeilDiv(m, PacketBits)
      BY DEF KbitsToPkt
    <3> HIDE DEF m, v
    <3>3. v \in Nat /\ m <= v * PacketBits
      BY <3>1, <3>2, CeilFacts
    <3> QED
      BY <3>3 DEF m
  <2>3. p \in Nat /\ v * PacketBits <= p * 1000
    BY <1>1, <2>2
  <2>4. a <= p
    <3> HIDE DEF a, v, p
    <3> v * PacketBits \in Nat
      BY <2>2
    <3> QED
      BY <2>1, <2>2, <2>3
  <2>5. RemoveFec(a) <= RemoveFec(p)
    <3> HIDE DEF a, v, p
    <3> DEFINE ra == RemoveFec(a)
               rp == RemoveFec(p)
    <3>1. a * CodingNum \in Nat /\ p * CodingNum \in Nat /\ a * CodingNum <= p * CodingNum
      BY <2>1, <2>3, <2>4
    <3>2. ra \in Nat /\ ra * CodingDen < a * CodingNum + CodingDen
      BY <3>1, CeilFacts DEF RemoveFec
    <3>3. rp \in Nat /\ p * CodingNum <= rp * CodingDen
      BY <3>1, CeilFacts DEF RemoveFec
    <3> HIDE DEF ra, rp
    <3>4. ASSUME rp < ra
          PROVE  FALSE
      <4>1. rp + 1 <= ra
        BY <3>2, <3>3, <3>4
      <4>2. (rp + 1) * CodingDen <= ra * CodingDen
        BY <3>2, <3>3, <4>1
      <4>3. (rp + 1) * CodingDen = rp * CodingDen + CodingDen
        BY <3>3
      <4>4. rp * CodingDen \in Nat /\ ra * CodingDen \in Nat
        BY <3>2, <3>3
      <4> QED
        BY <3>1, <3>2, <3>3, <4>2, <4>3, <4>4
    <3> QED
      BY <3>2, <3>3, <3>4 DEF ra, rp
  <2>6. RemoveFec(a) \in Nat /\ RemoveFec(p) \in Nat
    <3> HIDE DEF a, v, p
    <3> QED
      BY <2>1, <2>3, FecFacts
  <2>7. VolumeSlots(n) = v /\ SlotsVolume(v) = RemoveFec(p)
    BY DEF VolumeSlots, SlotsVolume
  <2> HIDE DEF a, v, p
  <2> QED
    BY <2>1, <2>2, <2>5, <2>6, <2>7
<1> QED
  BY <1>2, <1>3

\* Credits and what a slot is worth are numbers.
LEMMA CreditFacts ==
  /\ SlotsRate(1) \in Nat /\ PktpfToKbps(1) \in Nat \ {0}
  /\ CreditUnit \in Nat
  /\ SlotsRate(1) * CreditUnit \in Nat /\ PktpfToKbps(1) * CreditUnit \in Nat
  /\ \A c \in Nat : Capped(c) \in Nat
  /\ \A n \in Nat, d \in Nat \ {0} : SlotCredit(n, d) \in Nat
<1> USE Units
<1>1. SlotsRate(1) \in Nat /\ PktpfToKbps(1) \in Nat \ {0}
  BY RateFacts
<1>2. CreditUnit \in Nat
  <2>1. CreditScale * FrameDuration \in Nat
    OBVIOUS
  <2> QED
    BY <2>1 DEF CreditUnit
<1>3. SlotsRate(1) * CreditUnit \in Nat /\ PktpfToKbps(1) * CreditUnit \in Nat
  BY <1>1, <1>2
<1>4. \A c \in Nat : Capped(c) \in Nat
  BY <1>2 DEF Capped, Smaller
<1>5. ASSUME NEW n \in Nat, NEW d \in Nat \ {0}
      PROVE  SlotCredit(n, d) \in Nat
  <2>1. CreditScale \div d \in Nat
    BY FloorFacts
  <2>2. n * (CreditScale \div d) \in Nat
    BY <2>1
  <2>3. n * (CreditScale \div d) * PacketBits \in Nat
    BY <2>2
  <2> QED
    BY <2>3 DEF SlotCredit
<1> QED
  BY <1>1, <1>2, <1>3, <1>4, <1>5

\* The integer part of a share: no more than the need, less than a need that is
\* not null when there is congestion, and in proportion.
LEMMA FairShareFacts ==
  ASSUME NEW need \in Nat, NEW total \in Nat \ {0}, NEW capacity \in Nat, need <= total
  PROVE  /\ FairShare(need, total, capacity) \in Nat
         /\ FairShare(need, total, capacity) <= need
         /\ Congested(total, capacity) =>
              /\ need > 0 => FairShare(need, total, capacity) + 1 <= need
              /\ total * FairShare(need, total, capacity) <= capacity * need
         /\ ~Congested(total, capacity) => FairShare(need, total, capacity) = need
<1>1. CASE ~Congested(total, capacity)
  BY <1>1 DEF Congested, FairShare
<1>2. CASE Congested(total, capacity)
  <2> DEFINE q == (need * capacity) \div total
  <2>1. need * capacity \in Nat
    OBVIOUS
  <2>2. q \in Nat /\ q * total <= need * capacity
    BY <2>1, FloorFacts
  <2>3. FairShare(need, total, capacity) = q /\ capacity < total
    BY <1>2 DEF FairShare, Congested
  <2> HIDE DEF q
  <2>4. total * q <= capacity * need
    <3> total * q = q * total /\ capacity * need = need * capacity
      BY <2>2
    <3> QED
      BY <2>2
  <2>5. need = 0 => q = 0
    <3> SUFFICES ASSUME need = 0, q # 0
                 PROVE  FALSE
      OBVIOUS
    <3>1. need * capacity = 0
      OBVIOUS
    <3>2. q * total > 0
      BY <2>2
    <3> QED
      BY <2>2, <3>1, <3>2
  <2>6. need > 0 => q + 1 <= need
    <3> SUFFICES ASSUME need > 0, q >= need
                 PROVE  FALSE
      BY <2>2
    <3>1. need * total <= q * total
      BY <2>2
    <3>2. need * capacity < need * total
      BY <2>3
    <3>3. need * total \in Nat /\ q * total \in Nat
      BY <2>2
    <3> QED
      BY <2>1, <2>2, <3>1, <3>2, <3>3
  <2> QED
    BY <1>2, <2>2, <2>3, <2>4, <2>5, <2>6
<1> QED
  BY <1>1, <1>2

-----------------------------------------------------------------------------
(* The accounts of an allocation. *)

\* Contexts, what a terminal has by kind, and the record of an allocation.
Contexts ==
  [cra : Nat, maxRbdc : Nat, maxVbdc : Nat, timer : Nat, rbdc : Nat, credit : Nat, vbdc : Nat]
Kinds == [cra : Nat, rbdc : Nat, vbdc : Nat, fca : Nat]
Allocations ==
  [ctx : [Terminals -> Contexts], slots : [Terminals -> Kinds], alloc : [Terminals -> Kinds],
   wanted : [Terminals -> Nat], left : Nat, ok : BOOLEAN, hung : BOOLEAN]

\* All that a terminal has, and all that all terminals have.
Total(s) == s.cra + s.rbdc + s.vbdc + s.fca
Given(slots) == SumFunctionOnSet([t \in Terminals |-> Total(slots[t])], Terminals)

\* p slots in a superframe carry no more than k kbit/s, or k kbit.
CoveredRate(p, k) == p * PacketBits * CodingNum <= k * FrameDuration * CodingDen
CoveredVolume(p, k) == p * PacketBits * CodingNum <= k * 1000 * CodingDen

\* What is allocated covers the slots, kind by kind.
Covered(s, a) ==
  /\ CoveredRate(s.cra, a.cra) /\ CoveredRate(s.rbdc, a.rbdc) /\ CoveredRate(s.fca, a.fca)
  /\ CoveredVolume(s.vbdc, a.vbdc)

\* Every slot is given or left, to terminals that can use it, and what is allocated
\* in kbit/s and kbit is worth it.
Accounts(w) ==
  /\ w \in Allocations
  /\ Given(w.slots) + w.left = Capacity
  /\ \A t \in Terminals : /\ Covered(w.slots[t], w.alloc[t])
                          /\ t \notin usable => w.slots[t] = Nothing

\* From w to v terminal t gets n slots.
Gives(w, v, t, n) ==
  /\ t \in Terminals /\ t \in usable /\ n \in Nat
  /\ v.left + n = w.left
  /\ Total(v.slots[t]) = Total(w.slots[t]) + n
  /\ \A u \in Terminals : u # t => v.slots[u] = w.slots[u] /\ v.alloc[u] = w.alloc[u]
  /\ Covered(v.slots[t], v.alloc[t])

\* There are finitely many terminals.
LEMMA FiniteTerminals == IsFiniteSet(Terminals)
BY RequestsAssumption

\* What a terminal has is a number of slots.
LEMMA TotalNat ==
  ASSUME NEW s \in Kinds
  PROVE  Total(s) \in Nat
BY DEF Kinds, Total

\* The accounts are right after slots were given.
LEMMA GiveStep ==
  ASSUME NEW w, NEW v \in Allocations, NEW t, NEW n, Accounts(w), Gives(w, v, t, n)
  PROVE  Accounts(v)
<1> DEFINE f == [u \in Terminals |-> Total(w.slots[u])]
           g == [u \in Terminals |-> Total(v.slots[u])]
<1>1. /\ w.slots \in [Terminals -> Kinds] /\ v.slots \in [Terminals -> Kinds]
      /\ w.left \in Nat /\ v.left \in Nat
  BY DEF Accounts, Allocations
<1>2. \A u \in Terminals : f[u] \in Nat /\ g[u] \in Nat
  BY <1>1, TotalNat
<1>3. \A u \in Terminals : u # t => g[u] = f[u]
  BY DEF Gives
<1>4. t \in Terminals /\ n \in Nat /\ v.left + n = w.left
  BY DEF Gives
<1>5. g[t] = f[t] + n
  BY DEF Gives
<1>6. SumFunctionOnSet(g, Terminals) + f[t] = SumFunctionOnSet(f, Terminals) + g[t]
  <2> HIDE DEF f, g
  <2> QED
    BY <1>2, <1>3, <1>4, FiniteTerminals, SumChanged
<1>7. SumFunctionOnSet(g, Terminals) \in Nat /\ SumFunctionOnSet(f, Terminals) \in Nat
  <2> HIDE DEF f, g
  <2> QED
    BY <1>2, FiniteTerminals, SumOfSet
<1>8. Given(w.slots) = SumFunctionOnSet(f, Terminals) /\ Given(v.slots) = SumFunctionOnSet(g, Terminals)
  BY DEF Given
<1>9. Given(w.slots) + w.left = Capacity
  BY DEF Accounts
<1>10. Given(v.slots) + v.left = Capacity
  <2> f[t] \in Nat
    BY <1>2, <1>4
  <2> HIDE DEF f, g
  <2> QED
    BY <1>1, <1>4, <1>5, <1>6, <1>7, <1>8, <1>9, Units
<1>11. ASSUME NEW u \in Terminals
       PROVE  Covered(v.slots[u], v.alloc[u]) /\ (u \notin usable => v.slots[u] = Nothing)
  <2>1. Covered(w.slots[u], w.alloc[u]) /\ (u \notin usable => w.slots[u] = Nothing)
    BY DEF Accounts
  <2>2. CASE u = t
    BY <2>2 DEF Gives
  <2>3. CASE u # t
    BY <2>1, <2>3 DEF Gives
  <2> QED
    BY <2>2, <2>3
<1> QED
  BY <1>10, <1>11 DEF Accounts

\* Terminal t gets its CRA or nothing.
LEMMA CraStep ==
  ASSUME NEW w \in Allocations, NEW t \in Terminals
  PROVE  LET v == CraOf(w, t)
         IN  /\ v \in Allocations
             /\ Accounts(w) /\ w.slots[t].cra = 0 => Accounts(v)
             /\ v.ctx = w.ctx /\ v.wanted = w.wanted /\ v.hung = w.hung /\ v.ok = w.ok
             /\ \A u \in Terminals :
                  /\ u # t => v.slots[u] = w.slots[u]
                  /\ v.slots[u].rbdc = w.slots[u].rbdc
                  /\ v.slots[u].vbdc = w.slots[u].vbdc
                  /\ v.slots[u].fca = w.slots[u].fca
<1> DEFINE need == RateSlots(w.ctx[t].cra)
           given == [w EXCEPT !.alloc[t].cra = SlotsRate(need), !.slots[t].cra = need, !.left = @ - need]
<1>1. w \in Allocations
  OBVIOUS
<1>2. CASE t \notin usable \/ need > w.left
  <2>1. CraOf(w, t) = w
    BY <1>2 DEF CraOf
  <2> QED
    BY <2>1
<1>3. CASE ~(t \notin usable \/ need > w.left)
  <2>1. CraOf(w, t) = given
    BY <1>3 DEF CraOf
  <2>2. need \in Nat /\ SlotsRate(need) \in Nat /\ CoveredRate(need, SlotsRate(need))
    <3>1. need \in Nat
      <4> w.ctx[t].cra \in Nat
        BY <1>1 DEF Allocations, Contexts
      <4> QED
        BY RateFacts
    <3> HIDE DEF need
    <3> QED
      BY <3>1, RateFacts DEF CoveredRate
  <2>3. w.left \in Nat /\ need <= w.left /\ t \in usable
    BY <1>1, <1>3, <2>2 DEF Allocations
  <2> HIDE DEF need
  <2>4. given \in Allocations
    <3> DEFINE s == [w.slots EXCEPT ![t].cra = need]
               a == [w.alloc EXCEPT ![t].cra = SlotsRate(need)]
    <3>1. w.slots \in [Terminals -> Kinds] /\ w.alloc \in [Terminals -> Kinds]
      BY <1>1 DEF Allocations
    <3>2. w.slots[t] \in Kinds /\ w.alloc[t] \in Kinds
      BY <3>1
    <3>3. [w.slots[t] EXCEPT !.cra = need] \in Kinds /\ [w.alloc[t] EXCEPT !.cra = SlotsRate(need)] \in Kinds
      BY <2>2, <3>2 DEF Kinds
    <3>4. s \in [Terminals -> Kinds] /\ a \in [Terminals -> Kinds]
      BY <3>1, <3>3
    <3>5. given = [w EXCEPT !.alloc = a, !.slots = s, !.left = w.left - need]
      BY <1>1 DEF Allocations
    <3>6. w.left - need \in Nat
      BY <2>2, <2>3
    <3> HIDE DEF s, a, given
    <3> QED
      BY <1>1, <3>4, <3>5, <3>6 DEF Allocations
  <2>5. /\ given.ctx = w.ctx /\ given.wanted = w.wanted /\ given.hung = w.hung /\ given.ok = w.ok
        /\ given.left = w.left - need
        /\ given.slots = [w.slots EXCEPT ![t].cra = need]
        /\ given.alloc = [w.alloc EXCEPT ![t].cra = SlotsRate(need)]
    BY <1>1 DEF Allocations
  <2>6. w.slots \in [Terminals -> Kinds] /\ w.alloc \in [Terminals -> Kinds]
    BY <1>1 DEF Allocations
  <2> HIDE DEF given
  <2>7. /\ \A u \in Terminals : u # t => given.slots[u] = w.slots[u] /\ given.alloc[u] = w.alloc[u]
        /\ given.slots[t] = [w.slots[t] EXCEPT !.cra = need]
        /\ given.alloc[t] = [w.alloc[t] EXCEPT !.cra = SlotsRate(need)]
    BY <2>5, <2>6
  <2>8. /\ w.slots[t] \in Kinds /\ w.alloc[t] \in Kinds
    BY <2>6
  <2>9. /\ given.slots[t].cra = need /\ given.slots[t].rbdc = w.slots[t].rbdc
        /\ given.slots[t].vbdc = w.slots[t].vbdc /\ given.slots[t].fca = w.slots[t].fca
        /\ given.alloc[t].cra = SlotsRate(need) /\ given.alloc[t].rbdc = w.alloc[t].rbdc
        /\ given.alloc[t].vbdc = w.alloc[t].vbdc /\ given.alloc[t].fca = w.alloc[t].fca
    BY <2>7, <2>8 DEF Kinds
  <2>10. ASSUME Accounts(w), w.slots[t].cra = 0
         PROVE  Accounts(given)
    <3>1. Covered(w.slots[t], w.alloc[t])
      BY <2>10 DEF Accounts
    <3>2. Covered(given.slots[t], given.alloc[t])
      BY <2>2, <2>9, <3>1 DEF Covered
    <3>3. Total(given.slots[t]) = Total(w.slots[t]) + need
      BY <2>2, <2>8, <2>9, <2>10 DEF Total, Kinds
    <3>4. Gives(w, given, t, need)
      BY <2>2, <2>3, <2>5, <2>7, <3>2, <3>3 DEF Gives
    <3> QED
      BY <2>4, <2>10, <3>4, GiveStep
  <2> QED
    BY <2>1, <2>4, <2>5, <2>7, <2>9, <2>10
<1> QED
  BY <1>2, <1>3

\* Terminal t gets its volume or what is left.
LEMMA VbdcStep ==
  ASSUME NEW w \in Allocations, NEW t \in Terminals
  PROVE  LET v == VbdcOf(w, t)
         IN  /\ v \in Allocations
             /\ Accounts(w) /\ w.slots[t].vbdc = 0 => Accounts(v)
             /\ v.wanted = w.wanted /\ v.hung = w.hung /\ v.ok = w.ok
             /\ v.left <= w.left
             /\ v.left > 0 /\ t \in usable => v.ctx[t].vbdc = 0
             /\ \A u \in Terminals :
                  /\ u # t => v.slots[u] = w.slots[u] /\ v.ctx[u] = w.ctx[u]
                  /\ v.slots[u].rbdc = w.slots[u].rbdc
                  /\ v.slots[u].fca = w.slots[u].fca
                  /\ v.ctx[u] = [w.ctx[u] EXCEPT !.vbdc = v.ctx[u].vbdc]
                  /\ v.ctx[u].vbdc <= w.ctx[u].vbdc
<1> DEFINE request == w.ctx[t].vbdc
           need == VolumeSlots(request)
           part == Smaller(need, w.left)
           kb == SlotsVolume(part)
           rest == Larger(request - kb, 0)
           given == [w EXCEPT !.ctx[t] = GrantVbdc(@, SlotsVolume(part)),
                     !.alloc[t].vbdc = SlotsVolume(part),
                     !.slots[t].vbdc = part,
                     !.left = @ - part]
<1>1. w \in Allocations
  OBVIOUS
<1>2. /\ w.ctx \in [Terminals -> Contexts] /\ w.left \in Nat
      /\ w.slots \in [Terminals -> Kinds] /\ w.alloc \in [Terminals -> Kinds]
  BY <1>1 DEF Allocations
<1>3. request \in Nat /\ w.ctx[t] \in Contexts /\ w.slots[t] \in Kinds /\ w.alloc[t] \in Kinds
  BY <1>2 DEF Contexts
<1>4. need \in Nat /\ request <= SlotsVolume(need)
  <2> HIDE DEF request
  <2> QED
    BY <1>3, VolumeFacts
<1>5. part \in Nat /\ part <= w.left /\ part <= need /\ (part = need \/ part = w.left)
  <2> HIDE DEF need
  <2> QED
    BY <1>2, <1>4 DEF Smaller
<1>6. kb \in Nat /\ CoveredVolume(part, kb)
  <2> HIDE DEF part
  <2> QED
    BY <1>5, VolumeFacts DEF CoveredVolume
<1>7. \A u \in Terminals : w.ctx[u] = [w.ctx[u] EXCEPT !.vbdc = w.ctx[u].vbdc] /\ w.ctx[u].vbdc \in Nat
  BY <1>2 DEF Contexts
<1>8. CASE t \notin usable \/ part = 0
  <2>1. VbdcOf(w, t) = w
    BY <1>8 DEF VbdcOf
  <2>2. w.left > 0 /\ t \in usable => request = 0
    <3> SUFFICES ASSUME w.left > 0, part = 0
                 PROVE  request = 0
      BY <1>8
    <3>1. need = 0
      <4> HIDE DEF need, part
      <4> QED
        BY <1>5
    <3>2. request <= SlotsVolume(part)
      <4> HIDE DEF request
      <4> QED
        BY <1>4, <3>1
    <3>3. SlotsVolume(0) = 0
      <4>1. RemoveFec(0) = 0 /\ PktToKbits(0) = 0
        <5>1. CeilDiv(0, 1000) = 0 /\ CeilDiv(0, CodingDen) = 0
          BY CeilFacts, Units
        <5>2. 0 * PacketBits = 0 /\ 0 * CodingNum = 0
          BY Units
        <5> QED
          BY <5>1, <5>2 DEF RemoveFec, PktToKbits
      <4> QED
        BY <4>1 DEF SlotsVolume
    <3> HIDE DEF request, part
    <3> QED
      BY <1>3, <3>2, <3>3
  <2> QED
    BY <1>2, <1>7, <2>1, <2>2
<1>9. CASE ~(t \notin usable \/ part = 0)
  <2>1. VbdcOf(w, t) = given
    BY <1>9 DEF VbdcOf
  <2> HIDE DEF request, need, part, kb
  <2>2. rest \in Nat /\ rest <= request /\ (request <= kb => rest = 0)
    BY <1>3, <1>6 DEF Larger
  <2> HIDE DEF rest
  <2> DEFINE c == [w.ctx EXCEPT ![t] = [w.ctx[t] EXCEPT !.vbdc = rest]]
             a == [w.alloc EXCEPT ![t] = [w.alloc[t] EXCEPT !.vbdc = kb]]
             s == [w.slots EXCEPT ![t] = [w.slots[t] EXCEPT !.vbdc = part]]
             m == w.left - part
  <2>3. /\ [w.ctx[t] EXCEPT !.vbdc = rest] \in Contexts
        /\ [w.alloc[t] EXCEPT !.vbdc = kb] \in Kinds /\ [w.slots[t] EXCEPT !.vbdc = part] \in Kinds
    BY <1>3, <1>5, <1>6, <2>2 DEF Contexts, Kinds
  <2>4. c \in [Terminals -> Contexts] /\ a \in [Terminals -> Kinds] /\ s \in [Terminals -> Kinds]
        /\ m \in Nat
    BY <1>2, <1>5, <2>3
  <2>5. given = [w EXCEPT !.ctx = c, !.alloc = a, !.slots = s, !.left = m]
    <3>1. GrantVbdc(w.ctx[t], SlotsVolume(part)) = [w.ctx[t] EXCEPT !.vbdc = rest]
      BY DEF GrantVbdc, rest, request, kb
    <3> QED
      BY <1>1, <3>1 DEF Allocations, kb
  <2> DEFINE v == [w EXCEPT !.ctx = c, !.alloc = a, !.slots = s, !.left = m]
  <2>6. /\ v \in Allocations
        /\ v.ctx = c /\ v.alloc = a /\ v.slots = s /\ v.left = m
        /\ v.wanted = w.wanted /\ v.ok = w.ok /\ v.hung = w.hung
    <3> HIDE DEF c, a, s, m
    <3> QED
      BY <1>1, <2>4 DEF Allocations
  <2> HIDE DEF given, v
  <2>7. /\ \A u \in Terminals : u # t => /\ v.slots[u] = w.slots[u] /\ v.alloc[u] = w.alloc[u]
                                         /\ v.ctx[u] = w.ctx[u]
        /\ v.slots[t] = [w.slots[t] EXCEPT !.vbdc = part]
        /\ v.alloc[t] = [w.alloc[t] EXCEPT !.vbdc = kb]
        /\ v.ctx[t] = [w.ctx[t] EXCEPT !.vbdc = rest]
    BY <1>2, <2>6
  <2>8. /\ v.slots[t].vbdc = part /\ v.slots[t].rbdc = w.slots[t].rbdc
        /\ v.slots[t].cra = w.slots[t].cra /\ v.slots[t].fca = w.slots[t].fca
        /\ v.alloc[t].vbdc = kb /\ v.alloc[t].rbdc = w.alloc[t].rbdc
        /\ v.alloc[t].cra = w.alloc[t].cra /\ v.alloc[t].fca = w.alloc[t].fca
        /\ v.ctx[t].vbdc = rest
    BY <1>3, <2>7 DEF Kinds, Contexts
  <2>12. v.left = w.left - part /\ t \in usable
    BY <1>9, <2>6
  <2>14. ASSUME Accounts(w), w.slots[t].vbdc = 0
         PROVE  Accounts(v)
    <3>1. Covered(w.slots[t], w.alloc[t])
      BY <2>14 DEF Accounts
    <3>2. Covered(v.slots[t], v.alloc[t])
      BY <1>6, <2>8, <3>1 DEF Covered
    <3>3. Total(v.slots[t]) = Total(w.slots[t]) + part
      BY <1>3, <1>5, <2>8, <2>14 DEF Total, Kinds
    <3>4. Gives(w, v, t, part)
      BY <1>2, <1>5, <2>7, <2>12, <3>2, <3>3 DEF Gives
    <3> QED
      BY <2>6, <2>14, <3>4, GiveStep
  <2>15. ASSUME v.left > 0
         PROVE  v.ctx[t].vbdc = 0
    <3>1. part = need
      <4>1. w.left # part
        BY <1>2, <1>5, <2>12, <2>15
      <4> QED
        BY <1>5, <4>1
    <3>2. request <= kb
      BY <1>4, <3>1 DEF kb
    <3> QED
      BY <2>2, <2>8, <3>2
  <2>16. \A u \in Terminals : /\ v.ctx[u] = [w.ctx[u] EXCEPT !.vbdc = v.ctx[u].vbdc]
                              /\ v.ctx[u].vbdc <= w.ctx[u].vbdc
    <3> TAKE u \in Terminals
    <3>1. CASE u = t
      BY <2>2, <2>7, <2>8, <3>1 DEF request
    <3>2. CASE u # t
      BY <1>7, <2>7, <3>2
    <3> QED
      BY <3>1, <3>2
  <2>17. VbdcOf(w, t) = v
    BY <2>1, <2>5 DEF v
  <2>18. v.left <= w.left
    BY <1>2, <1>5, <2>12
  <2>19. \A u \in Terminals : v.slots[u].rbdc = w.slots[u].rbdc /\ v.slots[u].fca = w.slots[u].fca
    BY <2>7, <2>8
  <2> QED
    BY <2>6, <2>7, <2>14, <2>15, <2>16, <2>17, <2>18, <2>19
<1> QED
  BY <1>8, <1>9

\* Slots of two kinds, or given twice, are covered by the sum of the rates.
LEMMA CoveredMore ==
  ASSUME NEW p \in Nat, NEW k \in Nat, NEW q \in Nat, NEW m \in Nat,
         CoveredRate(p, k), CoveredRate(q, m)
  PROVE  CoveredRate(p + q, k + m)
<1> USE Units
<1> DEFINE c == PacketBits * CodingNum
           d == FrameDuration * CodingDen
<1>1. c \in Nat /\ d \in Nat
  OBVIOUS
<1>2. /\ p * PacketBits * CodingNum = p * c /\ q * PacketBits * CodingNum = q * c
      /\ (p + q) * PacketBits * CodingNum = (p + q) * c
      /\ k * FrameDuration * CodingDen = k * d /\ m * FrameDuration * CodingDen = m * d
      /\ (k + m) * FrameDuration * CodingDen = (k + m) * d
  OBVIOUS
<1>3. p * c <= k * d /\ q * c <= m * d
  <2> HIDE DEF c, d
  <2> QED
    BY <1>2 DEF CoveredRate
<1> HIDE DEF c, d
<1>4. (p + q) * c = p * c + q * c /\ (k + m) * d = k * d + m * d
  BY <1>1
<1>5. p * c \in Nat /\ q * c \in Nat /\ k * d \in Nat /\ m * d \in Nat
  BY <1>1
<1>6. (p + q) * c <= (k + m) * d
  BY <1>3, <1>4, <1>5
<1> QED
  BY <1>2, <1>6 DEF CoveredRate

\* A slot more for terminal t, if it has credit.
LEMMA ExtraStep ==
  ASSUME NEW w \in Allocations, NEW t \in Terminals
  PROVE  LET v == ExtraSlot(w, t)
         IN  /\ v \in Allocations
             /\ Accounts(w) => Accounts(v)
             /\ v.wanted = w.wanted /\ v.hung = w.hung /\ v.ok = w.ok
             /\ \/ v.slots[t].rbdc = w.slots[t].rbdc
                \/ v.slots[t].rbdc = w.slots[t].rbdc + 1 /\ w.ctx[t].credit > 0
             /\ \A u \in Terminals :
                  /\ u # t => v.slots[u] = w.slots[u] /\ v.ctx[u] = w.ctx[u]
                  /\ v.slots[u].vbdc = w.slots[u].vbdc
                  /\ v.slots[u].fca = w.slots[u].fca
                  /\ v.ctx[u] = [w.ctx[u] EXCEPT !.credit = v.ctx[u].credit]
                  /\ v.ctx[u].credit <= w.ctx[u].credit
<1> DEFINE slot == SlotsRate(1)
           worth == slot * CreditUnit
           rest == w.ctx[t].credit - worth
           more == w.alloc[t].rbdc + slot
           given == [w EXCEPT !.alloc[t].rbdc = @ + slot,
                     !.ctx[t].credit = @ - slot * CreditUnit,
                     !.slots[t].rbdc = @ + 1,
                     !.left = @ - 1]
           Taken == /\ t \in usable
                    /\ w.left > 0
                    /\ w.ctx[t].credit > slot * CreditUnit
                    /\ w.ctx[t].maxRbdc - w.alloc[t].rbdc - w.alloc[t].cra > slot
<1>1. w \in Allocations
  OBVIOUS
<1>2. /\ w.ctx \in [Terminals -> Contexts] /\ w.left \in Nat
      /\ w.slots \in [Terminals -> Kinds] /\ w.alloc \in [Terminals -> Kinds]
  BY <1>1 DEF Allocations
<1>3. /\ w.ctx[t] \in Contexts /\ w.slots[t] \in Kinds /\ w.alloc[t] \in Kinds
      /\ w.ctx[t].credit \in Nat /\ w.slots[t].rbdc \in Nat /\ w.alloc[t].rbdc \in Nat
  <2> w.ctx[t] \in Contexts /\ w.slots[t] \in Kinds /\ w.alloc[t] \in Kinds
    BY <1>2
  <2> QED
    BY DEF Contexts, Kinds
<1>4. slot \in Nat /\ worth \in Nat /\ CoveredRate(1, slot)
  BY CreditFacts, RateFacts DEF CoveredRate
<1>7. \A u \in Terminals :
        w.ctx[u] = [w.ctx[u] EXCEPT !.credit = w.ctx[u].credit] /\ w.ctx[u].credit \in Nat
  BY <1>2 DEF Contexts
<1>8. CASE ~Taken
  <2>1. ExtraSlot(w, t) = w
    BY <1>8 DEF ExtraSlot
  <2> QED
    BY <1>7, <2>1
<1>9. CASE Taken
  <2>1. ExtraSlot(w, t) = given
    BY <1>9 DEF ExtraSlot
  <2>2. t \in usable /\ w.left > 0 /\ w.ctx[t].credit > worth
    BY <1>9
  <2> HIDE DEF slot, worth, Taken
  <2>3. rest \in Nat /\ rest <= w.ctx[t].credit /\ w.ctx[t].credit > 0
    BY <1>3, <1>4, <2>2
  <2>4. more \in Nat /\ w.slots[t].rbdc + 1 \in Nat
    BY <1>3, <1>4
  <2>5. given = [w EXCEPT !.ctx = [w.ctx EXCEPT ![t] = [w.ctx[t] EXCEPT !.credit = rest]],
                          !.alloc = [w.alloc EXCEPT ![t] = [w.alloc[t] EXCEPT !.rbdc = more]],
                          !.slots = [w.slots EXCEPT ![t] = [w.slots[t] EXCEPT !.rbdc = w.slots[t].rbdc + 1]],
                          !.left = w.left - 1]
    BY <1>1 DEF Allocations, worth
  <2> HIDE DEF rest, more, given
  <2> DEFINE c == [w.ctx EXCEPT ![t] = [w.ctx[t] EXCEPT !.credit = rest]]
             a == [w.alloc EXCEPT ![t] = [w.alloc[t] EXCEPT !.rbdc = more]]
             s == [w.slots EXCEPT ![t] = [w.slots[t] EXCEPT !.rbdc = w.slots[t].rbdc + 1]]
             m == w.left - 1
             v == [w EXCEPT !.ctx = c, !.alloc = a, !.slots = s, !.left = m]
  <2>6. /\ [w.ctx[t] EXCEPT !.credit = rest] \in Contexts
        /\ [w.alloc[t] EXCEPT !.rbdc = more] \in Kinds
        /\ [w.slots[t] EXCEPT !.rbdc = w.slots[t].rbdc + 1] \in Kinds
    BY <1>3, <2>3, <2>4 DEF Contexts, Kinds
  <2>7. c \in [Terminals -> Contexts] /\ a \in [Terminals -> Kinds] /\ s \in [Terminals -> Kinds]
        /\ m \in Nat
    BY <1>2, <2>2, <2>6
  <2>8. /\ v \in Allocations
        /\ v.ctx = c /\ v.alloc = a /\ v.slots = s /\ v.left = m
        /\ v.wanted = w.wanted /\ v.ok = w.ok /\ v.hung = w.hung
    <3> HIDE DEF c, a, s, m
    <3> QED
      BY <1>1, <2>7 DEF Allocations
  <2>9. ExtraSlot(w, t) = v
    BY <2>1, <2>5
  <2> HIDE DEF v
  <2>10. /\ \A u \in Terminals : u # t => /\ v.slots[u] = w.slots[u] /\ v.alloc[u] = w.alloc[u]
                                          /\ v.ctx[u] = w.ctx[u]
         /\ v.slots[t] = [w.slots[t] EXCEPT !.rbdc = w.slots[t].rbdc + 1]
         /\ v.alloc[t] = [w.alloc[t] EXCEPT !.rbdc = more]
         /\ v.ctx[t] = [w.ctx[t] EXCEPT !.credit = rest]
    BY <1>2, <2>8
  <2>11. /\ v.slots[t].rbdc = w.slots[t].rbdc + 1 /\ v.slots[t].vbdc = w.slots[t].vbdc
         /\ v.slots[t].cra = w.slots[t].cra /\ v.slots[t].fca = w.slots[t].fca
         /\ v.alloc[t].rbdc = more /\ v.alloc[t].vbdc = w.alloc[t].vbdc
         /\ v.alloc[t].cra = w.alloc[t].cra /\ v.alloc[t].fca = w.alloc[t].fca
         /\ v.ctx[t].credit = rest
    BY <1>3, <2>10 DEF Kinds, Contexts
  <2>15. Total(v.slots[t]) = Total(w.slots[t]) + 1
    BY <1>3, <2>11 DEF Total, Kinds
  <2>16. v.left + 1 = w.left
    BY <1>2, <2>2, <2>8
  <2>18. ASSUME Accounts(w)
         PROVE  Accounts(v)
    <3>1. Covered(w.slots[t], w.alloc[t])
      BY <2>18 DEF Accounts
    <3>2. CoveredRate(w.slots[t].rbdc + 1, more)
      BY <1>3, <1>4, <3>1, CoveredMore DEF Covered, more
    <3>3. Covered(v.slots[t], v.alloc[t])
      BY <2>11, <3>1, <3>2 DEF Covered
    <3>4. Gives(w, v, t, 1)
      BY <2>2, <2>10, <2>15, <2>16, <3>3 DEF Gives
    <3> QED
      BY <2>8, <2>18, <3>4, GiveStep
  <2>19. \A u \in Terminals : /\ v.ctx[u] = [w.ctx[u] EXCEPT !.credit = v.ctx[u].credit]
                              /\ v.ctx[u].credit <= w.ctx[u].credit
    <3> TAKE u \in Terminals
    <3>1. CASE u = t
      BY <2>3, <2>10, <2>11, <3>1
    <3>2. CASE u # t
      BY <1>7, <2>10, <3>2
    <3> QED
      BY <3>1, <3>2
  <2>20. \A u \in Terminals : v.slots[u].vbdc = w.slots[u].vbdc /\ v.slots[u].fca = w.slots[u].fca
    BY <2>10, <2>11
  <2> QED
    BY <2>3, <2>8, <2>9, <2>10, <2>11, <2>18, <2>19, <2>20
<1> QED
  BY <1>8, <1>9

\* What the FCA gave.
FcaGiven(slots) == SumFunctionOnSet([t \in Terminals |-> slots[t].fca], Terminals)

\* Terminal t gets slots that nobody asked for, out of those that are left.
LEMMA FcaStep ==
  ASSUME NEW w \in Allocations, NEW t \in Terminals
  PROVE  LET v == FcaOf(w, t)
         IN  /\ v \in Allocations
             /\ Accounts(w) /\ w.slots[t].fca = 0 => Accounts(v)
             /\ v.ctx = w.ctx /\ v.wanted = w.wanted /\ v.ok = w.ok
             /\ w.slots[t].fca = 0 => FcaGiven(v.slots) + v.left = FcaGiven(w.slots) + w.left
             /\ \A u \in Terminals :
                  /\ u # t => v.slots[u] = w.slots[u]
                  /\ v.slots[u].rbdc = w.slots[u].rbdc
<1> DEFINE part == Smaller(RateSlots(FcaKbps), w.left)
           kbps == SlotsRate(part)
           given == [w EXCEPT !.alloc[t].fca = SlotsRate(part),
                     !.slots[t].fca = part,
                     !.left = @ - part]
<1>1. w \in Allocations
  OBVIOUS
<1>2. /\ w.ctx \in [Terminals -> Contexts] /\ w.left \in Nat
      /\ w.slots \in [Terminals -> Kinds] /\ w.alloc \in [Terminals -> Kinds]
  BY <1>1 DEF Allocations
<1>3. w.slots[t] \in Kinds /\ w.alloc[t] \in Kinds
  BY <1>2
<1>4. part \in Nat /\ part <= w.left
  <2> RateSlots(FcaKbps) \in Nat
    BY RateFacts, RequestsAssumption
  <2> QED
    BY <1>2 DEF Smaller
<1>5. kbps \in Nat /\ CoveredRate(part, kbps)
  <2> HIDE DEF part
  <2> QED
    BY <1>4, RateFacts DEF CoveredRate
<1>6. CASE w.hung \/ w.left = 0
  <2>1. FcaOf(w, t) = w
    BY <1>6 DEF FcaOf
  <2> QED
    BY <2>1
<1>7. CASE ~(w.hung \/ w.left = 0) /\ t \notin usable
  <2> DEFINE v == [w EXCEPT !.hung = TRUE]
  <2>1. FcaOf(w, t) = v
    BY <1>7 DEF FcaOf
  <2>2. /\ v \in Allocations /\ v.slots = w.slots /\ v.alloc = w.alloc /\ v.ctx = w.ctx
        /\ v.wanted = w.wanted /\ v.ok = w.ok /\ v.left = w.left
    BY <1>1 DEF Allocations
  <2> HIDE DEF v
  <2>3. Accounts(w) => Accounts(v)
    BY <2>2 DEF Accounts
  <2> QED
    BY <2>1, <2>2, <2>3
<1>8. CASE ~(w.hung \/ w.left = 0) /\ t \in usable
  <2>1. FcaOf(w, t) = given
    BY <1>8 DEF FcaOf
  <2> HIDE DEF part
  <2> DEFINE a == [w.alloc EXCEPT ![t] = [w.alloc[t] EXCEPT !.fca = kbps]]
             s == [w.slots EXCEPT ![t] = [w.slots[t] EXCEPT !.fca = part]]
             m == w.left - part
             v == [w EXCEPT !.alloc = a, !.slots = s, !.left = m]
  <2>2. given = v
    BY <1>1 DEF Allocations
  <2> HIDE DEF kbps, given
  <2>3. [w.alloc[t] EXCEPT !.fca = kbps] \in Kinds /\ [w.slots[t] EXCEPT !.fca = part] \in Kinds
    BY <1>3, <1>4, <1>5 DEF Kinds
  <2>4. a \in [Terminals -> Kinds] /\ s \in [Terminals -> Kinds] /\ m \in Nat
    BY <1>2, <1>4, <2>3
  <2>5. /\ v \in Allocations
        /\ v.ctx = w.ctx /\ v.alloc = a /\ v.slots = s /\ v.left = m
        /\ v.wanted = w.wanted /\ v.ok = w.ok
    <3> HIDE DEF a, s, m
    <3> QED
      BY <1>1, <2>4 DEF Allocations
  <2> HIDE DEF v
  <2>6. /\ \A u \in Terminals : u # t => v.slots[u] = w.slots[u] /\ v.alloc[u] = w.alloc[u]
        /\ v.slots[t] = [w.slots[t] EXCEPT !.fca = part]
        /\ v.alloc[t] = [w.alloc[t] EXCEPT !.fca = kbps]
    BY <1>2, <2>5
  <2>7. /\ v.slots[t].fca = part /\ v.slots[t].rbdc = w.slots[t].rbdc
        /\ v.slots[t].cra = w.slots[t].cra /\ v.slots[t].vbdc = w.slots[t].vbdc
        /\ v.alloc[t].fca = kbps /\ v.alloc[t].rbdc = w.alloc[t].rbdc
        /\ v.alloc[t].cra = w.alloc[t].cra /\ v.alloc[t].vbdc = w.alloc[t].vbdc
    BY <1>3, <2>6 DEF Kinds
  <2>11. v.left + part = w.left /\ v.left \in Nat
    BY <1>2, <1>4, <2>4, <2>5
  <2>13. ASSUME Accounts(w), w.slots[t].fca = 0
         PROVE  Accounts(v)
    <3>1. Covered(w.slots[t], w.alloc[t])
      BY <2>13 DEF Accounts
    <3>2. Covered(v.slots[t], v.alloc[t])
      BY <1>5, <2>7, <3>1 DEF Covered
    <3>3. Total(v.slots[t]) = Total(w.slots[t]) + part
      BY <1>3, <1>4, <2>7, <2>13 DEF Total, Kinds
    <3>4. Gives(w, v, t, part)
      BY <1>4, <1>8, <2>6, <2>11, <3>2, <3>3 DEF Gives
    <3> QED
      BY <2>5, <2>13, <3>4, GiveStep
  <2>14. ASSUME w.slots[t].fca = 0
         PROVE  FcaGiven(v.slots) + v.left = FcaGiven(w.slots) + w.left
    <3> DEFINE f == [u \in Terminals |-> w.slots[u].fca]
               g == [u \in Terminals |-> v.slots[u].fca]
    <3>1. v.slots \in [Terminals -> Kinds]
      BY <2>4, <2>5
    <3>2. \A u \in Terminals : f[u] \in Nat /\ g[u] \in Nat
      BY <1>2, <3>1 DEF Kinds
    <3>3. \A u \in Terminals : u # t => g[u] = f[u]
      BY <2>6
    <3>4. f[t] = 0 /\ g[t] = part
      BY <2>7, <2>14
    <3>5. FcaGiven(v.slots) = SumFunctionOnSet(g, Terminals)
          /\ FcaGiven(w.slots) = SumFunctionOnSet(f, Terminals)
      BY DEF FcaGiven
    <3> HIDE DEF f, g
    <3>6. SumFunctionOnSet(g, Terminals) + f[t] = SumFunctionOnSet(f, Terminals) + g[t]
      BY <3>2, <3>3, FiniteTerminals, SumChanged
    <3>7. SumFunctionOnSet(g, Terminals) \in Nat /\ SumFunctionOnSet(f, Terminals) \in Nat
      BY <3>2, FiniteTerminals, SumOfSet
    <3> QED
      BY <1>4, <2>11, <3>4, <3>5, <3>6, <3>7
  <2>15. FcaOf(w, t) = v
    BY <2>1, <2>2
  <2> QED
    BY <2>5, <2>6, <2>7, <2>13, <2>14, <2>15
<1> QED
  BY <1>6, <1>7, <1>8

-----------------------------------------------------------------------------
(* The folds along the order of the terminals, one element after the other. *)

\* The greatest number of a part of 1..n, which is how FoldLeft goes through a sequence.
LEMMA MaxFacts ==
  ASSUME NEW n \in Nat
  PROVE  /\ \A s \in SUBSET (1..n) : s # {} => Max(s) \in s
         /\ \A k \in 1..n : /\ Max(1..k) = k /\ (1..k) \ {k} = 1..(k - 1)
                            /\ 1..k # {} /\ 1..k \in SUBSET (1..n)
<1>1. ASSUME NEW s \in SUBSET (1..n), s # {}
      PROVE  Max(s) \in s /\ \A y \in s : Max(s) >= y
  <2>1. s \subseteq Nat /\ \A x \in s : x <= n
    OBVIOUS
  <2>2. \E x \in s : \A y \in s : y <= x
    BY <1>1, <2>1, GreatestNatural
  <2>3. \E x \in s : \A y \in s : x >= y
    BY <2>1, <2>2
  <2> QED
    BY <2>3 DEF Max
<1>2. ASSUME NEW k \in 1..n
      PROVE  /\ Max(1..k) = k /\ (1..k) \ {k} = 1..(k - 1)
             /\ 1..k # {} /\ 1..k \in SUBSET (1..n)
  <2>1. 1..k # {} /\ 1..k \in SUBSET (1..n) /\ k \in 1..k
    OBVIOUS
  <2>2. Max(1..k) \in 1..k /\ \A y \in 1..k : Max(1..k) >= y
    BY <1>1, <2>1
  <2>3. Max(1..k) = k
    <3> DEFINE x == Max(1..k)
    <3>1. x \in 1..k /\ x >= k
      BY <2>1, <2>2
    <3> HIDE DEF x
    <3> QED
      BY <3>1 DEF x
  <2> QED
    BY <2>1, <2>3
<1> QED
  BY <1>1, <1>2

\* it says what the fold of a step over the elements at each set of places is.
SequenceRule(it, n, w, step, seq) ==
  \A s \in SUBSET (1..n) :
    it[s] = IF s = {} THEN w ELSE step[<<it[s \ {Max(s)}], seq[Max(s)]>>]

\* There is such a fold for every step.
LEMMA SequenceFold ==
  ASSUME NEW n \in Nat, NEW T, NEW seq \in [1..n -> T], NEW V, NEW w \in V,
         NEW step \in [V \X T -> V]
  PROVE  \E it \in [SUBSET (1..n) -> V] : SequenceRule(it, n, w, step, seq)
<1> DEFINE D == 1..n
           ch == [s \in SUBSET D |-> Max(s)]
           turned == [p \in D \X V |-> step[<<p[2], seq[p[1]]>>]]
<1>1. \A s \in SUBSET D : s # {} => ch[s] \in s /\ ch[s] = Max(s)
  BY MaxFacts
<1>2. turned \in [D \X V -> V]
  <2>1. \A p \in D \X V : step[<<p[2], seq[p[1]]>>] \in V
    <3> TAKE p \in D \X V
    <3> p[2] \in V /\ seq[p[1]] \in T
      OBVIOUS
    <3> <<p[2], seq[p[1]]>> \in V \X T
      OBVIOUS
    <3> QED
      OBVIOUS
  <2> HIDE DEF D
  <2> QED
    BY <2>1
<1>3. IsFiniteSet(D)
  <2> 1 \in Int /\ n \in Int
    OBVIOUS
  <2> QED
    BY FS_Interval
<1>4. FoldData(D, V, w, turned, ch)
  <2> HIDE DEF D, turned, ch
  <2> QED
    BY <1>1, <1>2, <1>3 DEF FoldData
<1>5. PICK it \in [SUBSET D -> V] : FoldRule(it, D, w, turned, ch)
  <2> HIDE DEF D, turned, ch
  <2> QED
    BY <1>4, FoldExists
<1>6. ASSUME NEW s \in SUBSET D, s # {}
      PROVE  it[s] = step[<<it[s \ {Max(s)}], seq[Max(s)]>>]
  <2>1. Max(s) \in D /\ s \ {Max(s)} \in SUBSET D
    BY <1>1, <1>6
  <2>2. it[s] = turned[<<Max(s), it[s \ {Max(s)}]>>]
    <3> HIDE DEF D, turned, ch
    <3> QED
      BY <1>1, <1>5, <1>6 DEF FoldRule
  <2>3. it[s \ {Max(s)}] \in V
    BY <2>1
  <2> QED
    BY <2>1, <2>2, <2>3
<1>7. it[{}] = w
  <2> HIDE DEF D, turned, ch
  <2> QED
    BY <1>5 DEF FoldRule
<1>8. SequenceRule(it, n, w, step, seq)
  BY <1>6, <1>7 DEF SequenceRule
<1> QED
  BY <1>8

\* AllocateCra goes through the terminals one after the other.
LEMMA CraChain ==
  ASSUME NEW w \in Allocations, NEW seq \in Seq(Terminals)
  PROVE  \E h : /\ h[0] = w
                /\ \A k \in 1..Len(seq) : h[k] = CraOf(h[k - 1], seq[k])
                /\ FoldLeft(CraOf, w, seq) = h[Len(seq)]
<1> DEFINE n == Len(seq)
           step == [p \in Allocations \X Terminals |-> CraOf(p[1], p[2])]
           F(it, s) == IF s = {} THEN w ELSE CraOf(it[s \ {Max(s)}], seq[Max(s)])
<1>1. n \in Nat /\ seq \in [1..n -> Terminals] /\ DOMAIN seq = 1..n
  OBVIOUS
<1>2. step \in [Allocations \X Terminals -> Allocations]
  BY CraStep
<1>3. PICK it \in [SUBSET (1..n) -> Allocations] : SequenceRule(it, n, w, step, seq)
  <2> HIDE DEF n, step
  <2> QED
    BY <1>1, <1>2, SequenceFold
<1>4. \A s \in SUBSET (1..n) : s # {} => Max(s) \in s
  BY <1>1, MaxFacts
<1>5. \A s \in SUBSET (1..n) : it[s] = F(it, s)
  <2> TAKE s \in SUBSET (1..n)
  <2>1. CASE s = {}
    BY <1>3, <2>1 DEF SequenceRule
  <2>2. CASE s # {}
    <3>1. it[s \ {Max(s)}] \in Allocations /\ seq[Max(s)] \in Terminals
      <4>1. s \ {Max(s)} \in SUBSET (1..n) /\ Max(s) \in 1..n
        BY <1>4, <2>2
      <4> HIDE DEF n
      <4> QED
        BY <1>1, <4>1
    <3>2. it[s] = step[<<it[s \ {Max(s)}], seq[Max(s)]>>]
      <4> HIDE DEF step, n
      <4> QED
        BY <1>3, <2>2 DEF SequenceRule
    <3> QED
      BY <2>2, <3>1, <3>2
  <2> QED
    BY <2>1, <2>2
<1>6. it = [s \in SUBSET (1..n) |-> F(it, s)]
  <2> HIDE DEF F, n
  <2> QED
    BY <1>5
<1>7. PICK chosen : /\ chosen = [s \in SUBSET (1..n) |-> F(chosen, s)]
                    /\ FoldLeft(CraOf, w, seq) = chosen[1..n]
  <2> DEFINE result == CHOOSE x : x = [s \in SUBSET (1..n) |-> F(x, s)]
  <2>1. result = [s \in SUBSET (1..n) |-> F(result, s)]
    <3> HIDE DEF F, n
    <3> QED
      BY <1>6
  <2>2. FoldLeft(CraOf, w, seq) = result[1..n]
    BY <1>1 DEF FoldLeft, MapThenFoldSet
  <2> HIDE DEF result
  <2> QED
    BY <2>1, <2>2
<1> DEFINE h == [k \in 0..n |-> chosen[1..k]]
<1>8. \A s \in SUBSET (1..n) : chosen[s] = F(chosen, s)
  <2> HIDE DEF F, n
  <2> QED
    BY <1>7
<1>9. h[0] = w
  <2>1. chosen[{}] = w
    BY <1>8
  <2>2. 1..0 = {} /\ 0 \in 0..n
    BY <1>1
  <2> QED
    BY <2>1, <2>2
<1>10. ASSUME NEW k \in 1..n
       PROVE  h[k] = CraOf(h[k - 1], seq[k])
  <2>1. /\ Max(1..k) = k /\ (1..k) \ {k} = 1..(k - 1) /\ 1..k # {} /\ 1..k \in SUBSET (1..n)
    <3> HIDE DEF n
    <3> QED
      BY <1>1, MaxFacts
  <2>2. chosen[1..k] = F(chosen, 1..k)
    <3> HIDE DEF F, n
    <3> QED
      BY <1>8, <2>1
  <2>3. chosen[1..k] = CraOf(chosen[1..(k - 1)], seq[k])
    <3> HIDE DEF n
    <3> QED
      BY <2>1, <2>2
  <2>4. k \in 0..n /\ k - 1 \in 0..n
    BY <1>1
  <2> HIDE DEF n
  <2> QED
    BY <2>3, <2>4
<1>11. h[n] = chosen[1..n]
  <2> n \in 0..n
    BY <1>1
  <2> HIDE DEF n
  <2> QED
    OBVIOUS
<1> HIDE DEF h
<1> QED
  BY <1>7, <1>9, <1>10, <1>11

\* So does AllocateVbdc.
LEMMA VbdcChain ==
  ASSUME NEW w \in Allocations, NEW seq \in Seq(Terminals)
  PROVE  \E h : /\ h[0] = w
                /\ \A k \in 1..Len(seq) : h[k] = VbdcOf(h[k - 1], seq[k])
                /\ FoldLeft(VbdcOf, w, seq) = h[Len(seq)]
<1> DEFINE n == Len(seq)
           step == [p \in Allocations \X Terminals |-> VbdcOf(p[1], p[2])]
           F(it, s) == IF s = {} THEN w ELSE VbdcOf(it[s \ {Max(s)}], seq[Max(s)])
<1>1. n \in Nat /\ seq \in [1..n -> Terminals] /\ DOMAIN seq = 1..n
  OBVIOUS
<1>2. step \in [Allocations \X Terminals -> Allocations]
  BY VbdcStep
<1>3. PICK it \in [SUBSET (1..n) -> Allocations] : SequenceRule(it, n, w, step, seq)
  <2> HIDE DEF n, step
  <2> QED
    BY <1>1, <1>2, SequenceFold
<1>4. \A s \in SUBSET (1..n) : s # {} => Max(s) \in s
  BY <1>1, MaxFacts
<1>5. \A s \in SUBSET (1..n) : it[s] = F(it, s)
  <2> TAKE s \in SUBSET (1..n)
  <2>1. CASE s = {}
    BY <1>3, <2>1 DEF SequenceRule
  <2>2. CASE s # {}
    <3>1. it[s \ {Max(s)}] \in Allocations /\ seq[Max(s)] \in Terminals
      <4>1. s \ {Max(s)} \in SUBSET (1..n) /\ Max(s) \in 1..n
        BY <1>4, <2>2
      <4> HIDE DEF n
      <4> QED
        BY <1>1, <4>1
    <3>2. it[s] = step[<<it[s \ {Max(s)}], seq[Max(s)]>>]
      <4> HIDE DEF step, n
      <4> QED
        BY <1>3, <2>2 DEF SequenceRule
    <3> QED
      BY <2>2, <3>1, <3>2
  <2> QED
    BY <2>1, <2>2
<1>6. it = [s \in SUBSET (1..n) |-> F(it, s)]
  <2> HIDE DEF F, n
  <2> QED
    BY <1>5
<1>7. PICK chosen : /\ chosen = [s \in SUBSET (1..n) |-> F(chosen, s)]
                    /\ FoldLeft(VbdcOf, w, seq) = chosen[1..n]
  <2> DEFINE result == CHOOSE x : x = [s \in SUBSET (1..n) |-> F(x, s)]
  <2>1. result = [s \in SUBSET (1..n) |-> F(result, s)]
    <3> HIDE DEF F, n
    <3> QED
      BY <1>6
  <2>2. FoldLeft(VbdcOf, w, seq) = result[1..n]
    BY <1>1 DEF FoldLeft, MapThenFoldSet
  <2> HIDE DEF result
  <2> QED
    BY <2>1, <2>2
<1> DEFINE h == [k \in 0..n |-> chosen[1..k]]
<1>8. \A s \in SUBSET (1..n) : chosen[s] = F(chosen, s)
  <2> HIDE DEF F, n
  <2> QED
    BY <1>7
<1>9. h[0] = w
  <2>1. chosen[{}] = w
    BY <1>8
  <2>2. 1..0 = {} /\ 0 \in 0..n
    BY <1>1
  <2> QED
    BY <2>1, <2>2
<1>10. ASSUME NEW k \in 1..n
       PROVE  h[k] = VbdcOf(h[k - 1], seq[k])
  <2>1. /\ Max(1..k) = k /\ (1..k) \ {k} = 1..(k - 1) /\ 1..k # {} /\ 1..k \in SUBSET (1..n)
    <3> HIDE DEF n
    <3> QED
      BY <1>1, MaxFacts
  <2>2. chosen[1..k] = F(chosen, 1..k)
    <3> HIDE DEF F, n
    <3> QED
      BY <1>8, <2>1
  <2>3. chosen[1..k] = VbdcOf(chosen[1..(k - 1)], seq[k])
    <3> HIDE DEF n
    <3> QED
      BY <2>1, <2>2
  <2>4. k \in 0..n /\ k - 1 \in 0..n
    BY <1>1
  <2> HIDE DEF n
  <2> QED
    BY <2>3, <2>4
<1>11. h[n] = chosen[1..n]
  <2> n \in 0..n
    BY <1>1
  <2> HIDE DEF n
  <2> QED
    OBVIOUS
<1> HIDE DEF h
<1> QED
  BY <1>7, <1>9, <1>10, <1>11

\* So does the second step of AllocateRbdc.
LEMMA ExtraChain ==
  ASSUME NEW w \in Allocations, NEW seq \in Seq(Terminals)
  PROVE  \E h : /\ h[0] = w
                /\ \A k \in 1..Len(seq) : h[k] = ExtraSlot(h[k - 1], seq[k])
                /\ FoldLeft(ExtraSlot, w, seq) = h[Len(seq)]
<1> DEFINE n == Len(seq)
           step == [p \in Allocations \X Terminals |-> ExtraSlot(p[1], p[2])]
           F(it, s) == IF s = {} THEN w ELSE ExtraSlot(it[s \ {Max(s)}], seq[Max(s)])
<1>1. n \in Nat /\ seq \in [1..n -> Terminals] /\ DOMAIN seq = 1..n
  OBVIOUS
<1>2. step \in [Allocations \X Terminals -> Allocations]
  BY ExtraStep
<1>3. PICK it \in [SUBSET (1..n) -> Allocations] : SequenceRule(it, n, w, step, seq)
  <2> HIDE DEF n, step
  <2> QED
    BY <1>1, <1>2, SequenceFold
<1>4. \A s \in SUBSET (1..n) : s # {} => Max(s) \in s
  BY <1>1, MaxFacts
<1>5. \A s \in SUBSET (1..n) : it[s] = F(it, s)
  <2> TAKE s \in SUBSET (1..n)
  <2>1. CASE s = {}
    BY <1>3, <2>1 DEF SequenceRule
  <2>2. CASE s # {}
    <3>1. it[s \ {Max(s)}] \in Allocations /\ seq[Max(s)] \in Terminals
      <4>1. s \ {Max(s)} \in SUBSET (1..n) /\ Max(s) \in 1..n
        BY <1>4, <2>2
      <4> HIDE DEF n
      <4> QED
        BY <1>1, <4>1
    <3>2. it[s] = step[<<it[s \ {Max(s)}], seq[Max(s)]>>]
      <4> HIDE DEF step, n
      <4> QED
        BY <1>3, <2>2 DEF SequenceRule
    <3> QED
      BY <2>2, <3>1, <3>2
  <2> QED
    BY <2>1, <2>2
<1>6. it = [s \in SUBSET (1..n) |-> F(it, s)]
  <2> HIDE DEF F, n
  <2> QED
    BY <1>5
<1>7. PICK chosen : /\ chosen = [s \in SUBSET (1..n) |-> F(chosen, s)]
                    /\ FoldLeft(ExtraSlot, w, seq) = chosen[1..n]
  <2> DEFINE result == CHOOSE x : x = [s \in SUBSET (1..n) |-> F(x, s)]
  <2>1. result = [s \in SUBSET (1..n) |-> F(result, s)]
    <3> HIDE DEF F, n
    <3> QED
      BY <1>6
  <2>2. FoldLeft(ExtraSlot, w, seq) = result[1..n]
    BY <1>1 DEF FoldLeft, MapThenFoldSet
  <2> HIDE DEF result
  <2> QED
    BY <2>1, <2>2
<1> DEFINE h == [k \in 0..n |-> chosen[1..k]]
<1>8. \A s \in SUBSET (1..n) : chosen[s] = F(chosen, s)
  <2> HIDE DEF F, n
  <2> QED
    BY <1>7
<1>9. h[0] = w
  <2>1. chosen[{}] = w
    BY <1>8
  <2>2. 1..0 = {} /\ 0 \in 0..n
    BY <1>1
  <2> QED
    BY <2>1, <2>2
<1>10. ASSUME NEW k \in 1..n
       PROVE  h[k] = ExtraSlot(h[k - 1], seq[k])
  <2>1. /\ Max(1..k) = k /\ (1..k) \ {k} = 1..(k - 1) /\ 1..k # {} /\ 1..k \in SUBSET (1..n)
    <3> HIDE DEF n
    <3> QED
      BY <1>1, MaxFacts
  <2>2. chosen[1..k] = F(chosen, 1..k)
    <3> HIDE DEF F, n
    <3> QED
      BY <1>8, <2>1
  <2>3. chosen[1..k] = ExtraSlot(chosen[1..(k - 1)], seq[k])
    <3> HIDE DEF n
    <3> QED
      BY <2>1, <2>2
  <2>4. k \in 0..n /\ k - 1 \in 0..n
    BY <1>1
  <2> HIDE DEF n
  <2> QED
    BY <2>3, <2>4
<1>11. h[n] = chosen[1..n]
  <2> n \in 0..n
    BY <1>1
  <2> HIDE DEF n
  <2> QED
    OBVIOUS
<1> HIDE DEF h
<1> QED
  BY <1>7, <1>9, <1>10, <1>11

\* So does AllocateFca.
LEMMA FcaChain ==
  ASSUME NEW w \in Allocations, NEW seq \in Seq(Terminals)
  PROVE  \E h : /\ h[0] = w
                /\ \A k \in 1..Len(seq) : h[k] = FcaOf(h[k - 1], seq[k])
                /\ FoldLeft(FcaOf, w, seq) = h[Len(seq)]
<1> DEFINE n == Len(seq)
           step == [p \in Allocations \X Terminals |-> FcaOf(p[1], p[2])]
           F(it, s) == IF s = {} THEN w ELSE FcaOf(it[s \ {Max(s)}], seq[Max(s)])
<1>1. n \in Nat /\ seq \in [1..n -> Terminals] /\ DOMAIN seq = 1..n
  OBVIOUS
<1>2. step \in [Allocations \X Terminals -> Allocations]
  BY FcaStep
<1>3. PICK it \in [SUBSET (1..n) -> Allocations] : SequenceRule(it, n, w, step, seq)
  <2> HIDE DEF n, step
  <2> QED
    BY <1>1, <1>2, SequenceFold
<1>4. \A s \in SUBSET (1..n) : s # {} => Max(s) \in s
  BY <1>1, MaxFacts
<1>5. \A s \in SUBSET (1..n) : it[s] = F(it, s)
  <2> TAKE s \in SUBSET (1..n)
  <2>1. CASE s = {}
    BY <1>3, <2>1 DEF SequenceRule
  <2>2. CASE s # {}
    <3>1. it[s \ {Max(s)}] \in Allocations /\ seq[Max(s)] \in Terminals
      <4>1. s \ {Max(s)} \in SUBSET (1..n) /\ Max(s) \in 1..n
        BY <1>4, <2>2
      <4> HIDE DEF n
      <4> QED
        BY <1>1, <4>1
    <3>2. it[s] = step[<<it[s \ {Max(s)}], seq[Max(s)]>>]
      <4> HIDE DEF step, n
      <4> QED
        BY <1>3, <2>2 DEF SequenceRule
    <3> QED
      BY <2>2, <3>1, <3>2
  <2> QED
    BY <2>1, <2>2
<1>6. it = [s \in SUBSET (1..n) |-> F(it, s)]
  <2> HIDE DEF F, n
  <2> QED
    BY <1>5
<1>7. PICK chosen : /\ chosen = [s \in SUBSET (1..n) |-> F(chosen, s)]
                    /\ FoldLeft(FcaOf, w, seq) = chosen[1..n]
  <2> DEFINE result == CHOOSE x : x = [s \in SUBSET (1..n) |-> F(x, s)]
  <2>1. result = [s \in SUBSET (1..n) |-> F(result, s)]
    <3> HIDE DEF F, n
    <3> QED
      BY <1>6
  <2>2. FoldLeft(FcaOf, w, seq) = result[1..n]
    BY <1>1 DEF FoldLeft, MapThenFoldSet
  <2> HIDE DEF result
  <2> QED
    BY <2>1, <2>2
<1> DEFINE h == [k \in 0..n |-> chosen[1..k]]
<1>8. \A s \in SUBSET (1..n) : chosen[s] = F(chosen, s)
  <2> HIDE DEF F, n
  <2> QED
    BY <1>7
<1>9. h[0] = w
  <2>1. chosen[{}] = w
    BY <1>8
  <2>2. 1..0 = {} /\ 0 \in 0..n
    BY <1>1
  <2> QED
    BY <2>1, <2>2
<1>10. ASSUME NEW k \in 1..n
       PROVE  h[k] = FcaOf(h[k - 1], seq[k])
  <2>1. /\ Max(1..k) = k /\ (1..k) \ {k} = 1..(k - 1) /\ 1..k # {} /\ 1..k \in SUBSET (1..n)
    <3> HIDE DEF n
    <3> QED
      BY <1>1, MaxFacts
  <2>2. chosen[1..k] = F(chosen, 1..k)
    <3> HIDE DEF F, n
    <3> QED
      BY <1>8, <2>1
  <2>3. chosen[1..k] = FcaOf(chosen[1..(k - 1)], seq[k])
    <3> HIDE DEF n
    <3> QED
      BY <2>1, <2>2
  <2>4. k \in 0..n /\ k - 1 \in 0..n
    BY <1>1
  <2> HIDE DEF n
  <2> QED
    BY <2>3, <2>4
<1>11. h[n] = chosen[1..n]
  <2> n \in 0..n
    BY <1>1
  <2> HIDE DEF n
  <2> QED
    OBVIOUS
<1> HIDE DEF h
<1> QED
  BY <1>7, <1>9, <1>10, <1>11

\* The sort keeps every element, once.
LEMMA DescendingIsOrder ==
  ASSUME NEW s \in Seq(Terminals), IsInjective(s), NEW key \in [Terminals -> Nat]
  PROVE  LET d == Descending(s, key)
         IN  /\ d \in Seq(Terminals) /\ Len(d) = Len(s)
             /\ \A j, k \in 1..Len(s) : d[j] = d[k] => j = k
             /\ \A j \in 1..Len(s) : \E k \in 1..Len(s) : d[k] = s[j]
<1> DEFINE n == Len(s)
           before(i, j) == key[s[i]] > key[s[j]] \/ (key[s[i]] = key[s[j]] /\ i < j)
           ahead(j) == {i \in 1..n : before(i, j)}
           rank(j) == 1 + Cardinality(ahead(j))
           at(r) == CHOOSE j \in 1..n : rank(j) = r
           d == [r \in 1..n |-> s[at(r)]]
<1>1. Descending(s, key) = d
  BY DEF Descending
<1>2. n \in Nat /\ DOMAIN s = 1..n /\ \A i \in 1..n : s[i] \in Terminals /\ key[s[i]] \in Nat
  OBVIOUS
<1>3. IsFiniteSet(1..n) /\ Cardinality(1..n) = n
  <2>1. 1 \in Int /\ n \in Int
    BY <1>2
  <2>2. IsFiniteSet(1..n) /\ Cardinality(1..n) = IF 1 > n THEN 0 ELSE n - 1 + 1
    <3> HIDE DEF n
    <3> QED
      BY <2>1, FS_Interval
  <2> QED
    BY <1>2, <2>2
<1>4. \A j \in 1..n : IsFiniteSet(ahead(j)) /\ Cardinality(ahead(j)) \in Nat
  <2> TAKE j \in 1..n
  <2> ahead(j) \in SUBSET (1..n)
    OBVIOUS
  <2> HIDE DEF ahead, n
  <2> QED
    BY <1>3, FS_Subset, FS_CardinalityType
<1>5. \A i, j, k \in 1..n : /\ ~before(i, i)
                            /\ before(i, j) /\ before(j, k) => before(i, k)
                            /\ i # j => before(i, j) \/ before(j, i)
  <2> HIDE DEF n
  <2> QED
    BY <1>2
<1>6. \A i, j \in 1..n : before(i, j) => rank(i) < rank(j)
  <2> TAKE i, j \in 1..n
  <2> HAVE before(i, j)
  <2>1. i \in ahead(j) /\ i \notin ahead(i) /\ ahead(i) \subseteq ahead(j)
    <3> HIDE DEF before, n
    <3> QED
      BY <1>5
  <2>2. ahead(i) \in SUBSET (ahead(j) \ {i})
    <3> HIDE DEF ahead
    <3> QED
      BY <2>1
  <2> HIDE DEF ahead, n
  <2>3. IsFiniteSet(ahead(j) \ {i}) /\ Cardinality(ahead(j) \ {i}) = Cardinality(ahead(j)) - 1
    BY <1>4, <2>1, FS_RemoveElement
  <2>4. Cardinality(ahead(i)) <= Cardinality(ahead(j) \ {i})
    BY <2>2, <2>3, FS_Subset
  <2> QED
    BY <1>4, <2>3, <2>4
<1>7. \A j \in 1..n : rank(j) \in 1..n
  <2> TAKE j \in 1..n
  <2>1. ahead(j) \in SUBSET ((1..n) \ {j})
    <3> HIDE DEF before, n
    <3> QED
      BY <1>5
  <2> HIDE DEF ahead
  <2>2. IsFiniteSet((1..n) \ {j}) /\ Cardinality((1..n) \ {j}) = n - 1
    <3> HIDE DEF n
    <3> QED
      BY <1>3, FS_RemoveElement
  <2>3. Cardinality(ahead(j)) <= n - 1
    <3> HIDE DEF n
    <3> QED
      BY <2>1, <2>2, FS_Subset
  <2> QED
    BY <1>2, <1>4, <2>3
<1> HIDE DEF ahead
<1>8. \A i, j \in 1..n : rank(i) = rank(j) => i = j
  <2> TAKE i, j \in 1..n
  <2>1. rank(i) \in 1..n /\ rank(j) \in 1..n
    <3> HIDE DEF rank
    <3> QED
      BY <1>7
  <2> HIDE DEF rank, before, n
  <2> QED
    BY <1>5, <1>6, <2>1
<1> DEFINE rk == [j \in 1..n |-> rank(j)]
<1>9. rk \in Surjection(1..n, 1..n)
  <2>1. rk \in Injection(1..n, 1..n)
    <3> HIDE DEF rank, n
    <3> QED
      BY <1>7, <1>8 DEF Injection, IsInjective
  <2> HIDE DEF rk, n
  <2> QED
    BY <1>3, <2>1, FS_Injection
<1>10. \A r \in 1..n : \E j \in 1..n : rank(j) = r
  <2> HIDE DEF rank, n
  <2> QED
    BY <1>9 DEF Surjection
<1>11. \A r \in 1..n : at(r) \in 1..n /\ rank(at(r)) = r
  <2> HIDE DEF rank, n
  <2> QED
    BY <1>10
<1>12. d \in Seq(Terminals) /\ Len(d) = n
  <2>1. \A r \in 1..n : s[at(r)] \in Terminals
    <3> HIDE DEF at, n
    <3> QED
      BY <1>2, <1>11
  <2> HIDE DEF at, n
  <2> QED
    BY <1>2, <2>1
<1>13. \A j, k \in 1..n : d[j] = d[k] => j = k
  <2> TAKE j, k \in 1..n
  <2> HAVE d[j] = d[k]
  <2>1. s[at(j)] = s[at(k)] /\ at(j) \in DOMAIN s /\ at(k) \in DOMAIN s
    <3> HIDE DEF at, n
    <3> QED
      BY <1>2, <1>11
  <2>2. at(j) = at(k)
    <3> HIDE DEF at, n
    <3> QED
      BY <2>1 DEF IsInjective
  <2> HIDE DEF at, rank, n
  <2> QED
    BY <1>11, <2>2
<1>14. \A j \in 1..n : \E k \in 1..n : d[k] = s[j]
  <2> TAKE j \in 1..n
  <2>1. rank(j) \in 1..n
    <3> HIDE DEF rank
    <3> QED
      BY <1>7
  <2>2. at(rank(j)) = j
    <3> HIDE DEF rank, at, n
    <3> QED
      BY <1>8, <1>11, <2>1
  <2>3. d[rank(j)] = s[j]
    <3> HIDE DEF rank, at, n
    <3> QED
      BY <2>1, <2>2
  <2> HIDE DEF rank, d, n
  <2> QED
    BY <2>1, <2>3
<1> HIDE DEF d
<1> QED
  BY <1>1, <1>12, <1>13, <1>14

-----------------------------------------------------------------------------
(* The steps of the allocation. *)

\* The category holds each terminal once.
OrderOK == order \in Seq(Terminals) /\ IsInjective(order)

\* What is known of the contexts, in a state and during an allocation: who has credit
\* asked for RBDC, and nobody asks for any under a maximum of 0.
ContextsOK(c) ==
  /\ c \in [Terminals -> Contexts]
  /\ \A t \in Terminals : /\ c[t].credit > 0 => c[t].rbdc > 0
                          /\ c[t].maxRbdc = 0 => c[t].rbdc = 0
                          /\ t \notin Logged => c[t] = Off

\* Neither VBDC nor FCA was given yet.
Unserved(w) == \A t \in Terminals : w.slots[t].vbdc = 0 /\ w.slots[t].fca = 0

\* After the CRA the accounts are right and nothing of another kind is given.
LEMMA CraPhase ==
  ASSUME OrderOK, NEW w, Accounts(w), \A t \in Terminals : w.slots[t] = Nothing
  PROVE  LET v == AllocateCra(w)
         IN  /\ Accounts(v) /\ v.ctx = w.ctx /\ v.wanted = w.wanted /\ v.hung = w.hung
             /\ Unserved(v) /\ \A t \in Terminals : v.slots[t].rbdc = 0
<1> DEFINE n == Len(order)
<1>1. w \in Allocations /\ order \in Seq(Terminals) /\ n \in Nat
      /\ \A k \in 1..n : order[k] \in Terminals
  BY DEF Accounts, OrderOK
<1>2. \A j, k \in 1..n : order[j] = order[k] => j = k
  BY <1>1 DEF OrderOK, IsInjective
<1>3. PICK h : /\ h[0] = w
               /\ \A k \in 1..n : h[k] = CraOf(h[k - 1], order[k])
               /\ FoldLeft(CraOf, w, order) = h[n]
  BY <1>1, CraChain
<1> DEFINE I(k) == /\ Accounts(h[k]) /\ h[k].ctx = w.ctx /\ h[k].wanted = w.wanted
                   /\ h[k].hung = w.hung
                   /\ \A t \in Terminals : /\ h[k].slots[t].rbdc = 0
                                           /\ h[k].slots[t].vbdc = 0
                                           /\ h[k].slots[t].fca = 0
                   /\ \A j \in 1..n : j > k => h[k].slots[order[j]].cra = 0
           G == {k \in Nat : k <= n => I(k)}
<1>4. 0 \in G
  <2>1. I(0)
    BY <1>1, <1>3 DEF Nothing
  <2> QED
    BY <2>1
<1>5. \A k \in Nat : k \in G => k + 1 \in G
  <2> SUFFICES ASSUME NEW k \in Nat, k + 1 <= n, I(k)
               PROVE  I(k + 1)
    <3> HIDE DEF I, n
    <3> QED
      BY <1>1
  <2> DEFINE x == h[k]
             y == h[k + 1]
             t == order[k + 1]
  <2>1. k + 1 \in 1..n /\ (k + 1) - 1 = k /\ t \in Terminals
    BY <1>1
  <2>2. y = CraOf(x, t)
    <3> HIDE DEF n
    <3> QED
      BY <1>3, <2>1
  <2>3. x.slots[t].cra = 0 /\ x \in Allocations /\ Accounts(x)
    <3>1. k + 1 > k
      OBVIOUS
    <3> HIDE DEF n
    <3> QED
      BY <2>1, <3>1 DEF Accounts
  <2>4. /\ Accounts(y)
        /\ y.ctx = x.ctx /\ y.wanted = x.wanted /\ y.hung = x.hung
        /\ \A u \in Terminals :
             /\ u # t => y.slots[u] = x.slots[u]
             /\ y.slots[u].rbdc = x.slots[u].rbdc
             /\ y.slots[u].vbdc = x.slots[u].vbdc
             /\ y.slots[u].fca = x.slots[u].fca
    <3> HIDE DEF x, y, t
    <3> QED
      BY <2>1, <2>2, <2>3, CraStep
  <2>5. \A j \in 1..n : j > k + 1 => order[j] \in Terminals /\ order[j] # t /\ j > k
    <3> HIDE DEF n
    <3> QED
      BY <1>1, <1>2, <2>1
  <2>6. \A j \in 1..n : j > k + 1 => y.slots[order[j]].cra = 0
    <3> HIDE DEF n, t
    <3> QED
      BY <2>4, <2>5
  <2> HIDE DEF n, t
  <2> QED
    BY <2>4, <2>6
<1>6. I(n)
  <2> HIDE DEF G
  <2>1. n \in G
    BY <1>1, <1>4, <1>5, NumberInduction
  <2> USE DEF G
  <2> HIDE DEF I, n
  <2> QED
    BY <1>1, <2>1
<1> DEFINE done == h[n]
           v == AllocateCra(w)
<1>7. PICK b \in BOOLEAN : v = [done EXCEPT !.ok = b]
  <2> DEFINE rate(c) == SumFunctionOnSet([t \in Terminals |-> c[t].cra], Logged \cap usable)
             b == rate(done.alloc) >= rate(w.ctx)
  <2>1. v = [done EXCEPT !.ok = b]
    <3> HIDE DEF n
    <3> QED
      BY <1>3 DEF AllocateCra
  <2>2. b \in BOOLEAN
    OBVIOUS
  <2> HIDE DEF b, v, done
  <2> QED
    BY <2>1, <2>2
<1> HIDE DEF v
<1>8. /\ done \in Allocations /\ v \in Allocations
      /\ v.ctx = done.ctx /\ v.wanted = done.wanted /\ v.hung = done.hung /\ v.left = done.left
      /\ v.slots = done.slots /\ v.alloc = done.alloc
  <2>1. done \in Allocations
    BY <1>6 DEF Accounts
  <2> HIDE DEF done
  <2> QED
    BY <1>7, <2>1 DEF Allocations
<1>9. Accounts(v)
  BY <1>6, <1>8 DEF Accounts
<1>10. Unserved(v) /\ \A t \in Terminals : v.slots[t].rbdc = 0
  BY <1>6, <1>8 DEF Unserved
<1>11. v.ctx = w.ctx /\ v.wanted = w.wanted /\ v.hung = w.hung
  BY <1>6, <1>8
<1> QED
  BY <1>9, <1>10, <1>11 DEF v

\* Slots are left after the VBDC only if nobody who could use them asks for more.
LEMMA VbdcPhase ==
  ASSUME OrderOK, NEW w, Accounts(w), ContextsOK(w.ctx), Unserved(w)
  PROVE  LET v == AllocateVbdc(w)
         IN  /\ Accounts(v) /\ ContextsOK(v.ctx) /\ v.wanted = w.wanted /\ v.hung = w.hung
             /\ \A t \in Terminals : v.slots[t].fca = 0 /\ v.slots[t].rbdc = w.slots[t].rbdc
             /\ v.left > 0 => \A t \in Terminals : t \in usable => v.ctx[t].vbdc = 0
<1> DEFINE key == [t \in Terminals |-> w.ctx[t].vbdc]
           d == Descending(order, key)
           n == Len(order)
<1>1. w \in Allocations /\ w.ctx \in [Terminals -> Contexts] /\ order \in Seq(Terminals) /\ n \in Nat
  BY DEF Accounts, Allocations, OrderOK
<1>2. key \in [Terminals -> Nat]
  BY <1>1 DEF Contexts
<1>3. /\ d \in Seq(Terminals) /\ Len(d) = n
      /\ \A j, k \in 1..n : d[j] = d[k] => j = k
      /\ \A j \in 1..n : \E k \in 1..n : d[k] = order[j]
  <2> HIDE DEF key
  <2> QED
    BY <1>1, <1>2, DescendingIsOrder DEF OrderOK
<1> HIDE DEF d, key
<1>4. \A k \in 1..n : d[k] \in Terminals
  BY <1>3
<1>5. PICK h : /\ h[0] = w
               /\ \A k \in 1..n : h[k] = VbdcOf(h[k - 1], d[k])
               /\ FoldLeft(VbdcOf, w, d) = h[n]
  <2>1. \E h : /\ h[0] = w
               /\ \A k \in 1..Len(d) : h[k] = VbdcOf(h[k - 1], d[k])
               /\ FoldLeft(VbdcOf, w, d) = h[Len(d)]
    BY <1>1, <1>3, VbdcChain
  <2> HIDE DEF n
  <2> QED
    BY <1>3, <2>1
<1> DEFINE Kept(x, t) == /\ x.slots[t].fca = 0 /\ x.slots[t].rbdc = w.slots[t].rbdc
                         /\ x.ctx[t] = [w.ctx[t] EXCEPT !.vbdc = x.ctx[t].vbdc]
                         /\ x.ctx[t].vbdc <= w.ctx[t].vbdc
           I(k) == /\ Accounts(h[k]) /\ h[k].wanted = w.wanted /\ h[k].hung = w.hung
                   /\ \A t \in Terminals : Kept(h[k], t)
                   /\ \A j \in 1..n : j > k => h[k].slots[d[j]].vbdc = 0
                   /\ h[k].left > 0 =>
                        \A j \in 1..n : j <= k /\ d[j] \in usable => h[k].ctx[d[j]].vbdc = 0
           G == {k \in Nat : k <= n => I(k)}
<1>6. 0 \in G
  <2>1. \A t \in Terminals : Kept(w, t)
    <3> TAKE t \in Terminals
    <3> w.ctx[t] \in Contexts
      BY <1>1
    <3> QED
      BY DEF Unserved, Contexts
  <2>2. \A j \in 1..n : ~(j <= 0) /\ w.slots[d[j]].vbdc = 0
    BY <1>4 DEF Unserved
  <2>3. I(0)
    <3> HIDE DEF Kept, n
    <3> QED
      BY <1>5, <2>1, <2>2
  <2> QED
    BY <2>3
<1>7. \A k \in Nat : k \in G => k + 1 \in G
  <2> SUFFICES ASSUME NEW k \in Nat, k + 1 <= n, I(k)
               PROVE  I(k + 1)
    <3> HIDE DEF I, n
    <3> QED
      BY <1>1
  <2> DEFINE x == h[k]
             y == h[k + 1]
             t == d[k + 1]
  <2>1. k + 1 \in 1..n /\ (k + 1) - 1 = k /\ t \in Terminals
    <3> HIDE DEF n, I
    <3>1. k + 1 \in 1..n /\ (k + 1) - 1 = k
      BY <1>1
    <3> QED
      BY <1>4, <3>1
  <2>2. y = VbdcOf(x, t)
    <3> HIDE DEF n
    <3> QED
      BY <1>5, <2>1
  <2>3. x.slots[t].vbdc = 0 /\ x \in Allocations /\ Accounts(x)
    <3>1. k + 1 > k
      OBVIOUS
    <3> HIDE DEF n, Kept
    <3> QED
      BY <2>1, <3>1 DEF Accounts
  <2>4. /\ Accounts(y)
        /\ y.wanted = x.wanted /\ y.hung = x.hung
        /\ y.left <= x.left
        /\ y.left > 0 /\ t \in usable => y.ctx[t].vbdc = 0
        /\ \A u \in Terminals :
             /\ u # t => y.slots[u] = x.slots[u] /\ y.ctx[u] = x.ctx[u]
             /\ y.slots[u].rbdc = x.slots[u].rbdc
             /\ y.slots[u].fca = x.slots[u].fca
             /\ y.ctx[u] = [x.ctx[u] EXCEPT !.vbdc = y.ctx[u].vbdc]
             /\ y.ctx[u].vbdc <= x.ctx[u].vbdc
    <3> HIDE DEF x, y, t
    <3> QED
      BY <2>1, <2>2, <2>3, VbdcStep
  <2>5. x.left \in Nat /\ y.left \in Nat
    <3> HIDE DEF x, y, I
    <3> QED
      BY <2>3, <2>4 DEF Accounts, Allocations
  <2>6. \A u \in Terminals : Kept(y, u)
    <3> TAKE u \in Terminals
    <3>1. x.ctx[u] \in Contexts /\ y.ctx[u] \in Contexts /\ w.ctx[u] \in Contexts
      <4> HIDE DEF x, y, I
      <4> QED
        BY <1>1, <2>3, <2>4 DEF Accounts, Allocations
    <3>2. Kept(x, u)
      OBVIOUS
    <3>3. y.ctx[u] = [w.ctx[u] EXCEPT !.vbdc = y.ctx[u].vbdc]
      <4>1. y.ctx[u] = [x.ctx[u] EXCEPT !.vbdc = y.ctx[u].vbdc]
        BY <2>4
      <4> HIDE DEF x, y, I
      <4> QED
        BY <3>1, <3>2, <4>1 DEF Contexts
    <3>4. x.ctx[u].vbdc \in Nat /\ y.ctx[u].vbdc \in Nat /\ w.ctx[u].vbdc \in Nat
      <4> HIDE DEF x, y, I
      <4> QED
        BY <3>1 DEF Contexts
    <3> HIDE DEF x, y, I
    <3> QED
      BY <2>4, <3>2, <3>3, <3>4
  <2>7. \A j \in 1..n : j > k + 1 => d[j] # t /\ d[j] \in Terminals /\ j > k
    <3> HIDE DEF n, I
    <3> SUFFICES ASSUME NEW j \in 1..n, j > k + 1
                 PROVE  d[j] # t /\ d[j] \in Terminals /\ j > k
      OBVIOUS
    <3>1. j # k + 1 /\ j > k
      BY <2>1
    <3> QED
      BY <1>3, <1>4, <2>1, <3>1
  <2>8. \A j \in 1..n : j > k + 1 => y.slots[d[j]].vbdc = 0
    <3>1. \A j \in 1..n : j > k => x.slots[d[j]].vbdc = 0
      OBVIOUS
    <3>2. \A u \in Terminals : u # t => y.slots[u] = x.slots[u]
      BY <2>4
    <3> HIDE DEF n, t, x, y, I
    <3> QED
      BY <2>7, <3>1, <3>2
  <2>9. ASSUME y.left > 0, NEW j \in 1..n, j <= k + 1, d[j] \in usable
        PROVE  y.ctx[d[j]].vbdc = 0
    <3>1. CASE d[j] = t
      <4> HIDE DEF n, t, x, y, I
      <4> QED
        BY <2>4, <2>9, <3>1
    <3>2. CASE d[j] # t
      <4>1. j <= k
        <5>1. j # k + 1
          BY <3>2
        <5>2. j \in Nat
          BY <1>1
        <5> QED
          BY <2>9, <5>1, <5>2
      <4>2. x.left > 0
        <5> HIDE DEF x, y, I
        <5> QED
          BY <2>4, <2>5, <2>9
      <4>3. x.ctx[d[j]].vbdc = 0
        BY <2>9, <4>1, <4>2
      <4>4. d[j] \in Terminals
        <5> HIDE DEF n
        <5> QED
          BY <1>4
      <4> HIDE DEF n, t, x, y, I
      <4> QED
        BY <2>4, <3>2, <4>3, <4>4
    <3> QED
      BY <3>1, <3>2
  <2>10. y.wanted = w.wanted /\ y.hung = w.hung
    BY <2>4
  <2> HIDE DEF Kept, n, t, x
  <2> QED
    BY <2>4, <2>6, <2>8, <2>9, <2>10
<1>8. I(n)
  <2> HIDE DEF G
  <2>1. n \in G
    BY <1>1, <1>6, <1>7, NumberInduction
  <2> USE DEF G
  <2> HIDE DEF I, n
  <2> QED
    BY <1>1, <2>1
<1> DEFINE v == h[n]
<1>9. AllocateVbdc(w) = v
  <2> USE DEF d, key
  <2> HIDE DEF n
  <2> QED
    BY <1>5 DEF AllocateVbdc
<1>10. Accounts(v) /\ v.wanted = w.wanted /\ v.hung = w.hung /\ \A t \in Terminals : Kept(v, t)
  BY <1>8
<1>11. v.left > 0 => \A j \in 1..n : d[j] \in usable => v.ctx[d[j]].vbdc = 0
  <2> \A j \in 1..n : j <= n
    BY <1>1
  <2> QED
    BY <1>8
<1> HIDE DEF v
<1>12. v.ctx \in [Terminals -> Contexts]
  BY <1>10 DEF Accounts, Allocations
<1>13. ContextsOK(v.ctx)
  <2> SUFFICES ASSUME NEW t \in Terminals
               PROVE  /\ v.ctx[t].credit > 0 => v.ctx[t].rbdc > 0
                      /\ v.ctx[t].maxRbdc = 0 => v.ctx[t].rbdc = 0
                      /\ t \notin Logged => v.ctx[t] = Off
    BY <1>12 DEF ContextsOK
  <2>1. /\ w.ctx[t] \in Contexts /\ v.ctx[t] \in Contexts
        /\ v.ctx[t] = [w.ctx[t] EXCEPT !.vbdc = v.ctx[t].vbdc] /\ v.ctx[t].vbdc <= w.ctx[t].vbdc
    BY <1>1, <1>10, <1>12
  <2>2. /\ w.ctx[t].credit > 0 => w.ctx[t].rbdc > 0
        /\ w.ctx[t].maxRbdc = 0 => w.ctx[t].rbdc = 0
        /\ t \notin Logged => w.ctx[t] = Off
    BY DEF ContextsOK
  <2>3. /\ v.ctx[t].credit = w.ctx[t].credit /\ v.ctx[t].rbdc = w.ctx[t].rbdc
        /\ v.ctx[t].maxRbdc = w.ctx[t].maxRbdc
    BY <2>1 DEF Contexts
  <2>4. t \notin Logged => v.ctx[t] = Off
    <3> SUFFICES ASSUME t \notin Logged
                 PROVE  v.ctx[t] = Off
      OBVIOUS
    <3>1. w.ctx[t].vbdc = 0
      BY <2>2 DEF Off, Context
    <3>2. v.ctx[t].vbdc = 0
      BY <2>1, <3>1 DEF Contexts
    <3>3. v.ctx[t] = w.ctx[t]
      BY <2>1, <3>1, <3>2 DEF Contexts
    <3> QED
      BY <2>2, <3>3
  <2> QED
    BY <2>2, <2>3, <2>4
<1>14. ASSUME v.left > 0, NEW t \in Terminals, t \in usable
       PROVE  v.ctx[t].vbdc = 0
  <2>1. CASE t \in Logged
    <3>1. PICK i \in 1..n : order[i] = t
      BY <1>1, <2>1 DEF Logged, ToSet
    <3>2. PICK j \in 1..n : d[j] = t
      BY <1>3, <3>1
    <3> QED
      BY <1>11, <1>14, <3>2
  <2>2. CASE t \notin Logged
    BY <1>13, <2>2 DEF ContextsOK, Off, Context
  <2> QED
    BY <2>1, <2>2
<1> QED
  BY <1>9, <1>10, <1>13, <1>14

\* What the FCA gives was left by the others.
LEMMA FcaPhase ==
  ASSUME OrderOK, NEW w, Accounts(w), \A t \in Terminals : w.slots[t].fca = 0,
         w.ctx \in [Terminals -> Contexts]
  PROVE  LET v == AllocateFca(w)
         IN  /\ Accounts(v) /\ v.ctx = w.ctx /\ v.wanted = w.wanted
             /\ \A t \in Terminals : v.slots[t].rbdc = w.slots[t].rbdc
             /\ FcaGiven(v.slots) + v.left = w.left
<1> DEFINE key == [t \in Terminals |-> w.ctx[t].credit]
           d == Descending(order, key)
           n == Len(order)
<1>1. w \in Allocations /\ order \in Seq(Terminals) /\ n \in Nat /\ w.left \in Nat
  BY DEF Accounts, Allocations, OrderOK
<1>2. key \in [Terminals -> Nat]
  BY DEF Contexts
<1>3. /\ d \in Seq(Terminals) /\ Len(d) = n
      /\ \A j, k \in 1..n : d[j] = d[k] => j = k
  <2> HIDE DEF key
  <2> QED
    BY <1>1, <1>2, DescendingIsOrder DEF OrderOK
<1> HIDE DEF d, key
<1>4. \A k \in 1..n : d[k] \in Terminals
  BY <1>3
<1>5. PICK h : /\ h[0] = w
               /\ \A k \in 1..n : h[k] = FcaOf(h[k - 1], d[k])
               /\ FoldLeft(FcaOf, w, d) = h[n]
  <2>1. \E h : /\ h[0] = w
               /\ \A k \in 1..Len(d) : h[k] = FcaOf(h[k - 1], d[k])
               /\ FoldLeft(FcaOf, w, d) = h[Len(d)]
    BY <1>1, <1>3, FcaChain
  <2> HIDE DEF n
  <2> QED
    BY <1>3, <2>1
<1> DEFINE I(k) == /\ Accounts(h[k]) /\ h[k].ctx = w.ctx /\ h[k].wanted = w.wanted
                   /\ \A t \in Terminals : h[k].slots[t].rbdc = w.slots[t].rbdc
                   /\ FcaGiven(h[k].slots) + h[k].left = w.left
                   /\ \A j \in 1..n : j > k => h[k].slots[d[j]].fca = 0
           G == {k \in Nat : k <= n => I(k)}
<1>6. FcaGiven(w.slots) + w.left = w.left
  <2>1. FcaGiven(w.slots) = 0
    <3> DEFINE f == [t \in Terminals |-> w.slots[t].fca]
    <3>1. \A t \in Terminals : f[t] = 0
      OBVIOUS
    <3> HIDE DEF f
    <3>2. SumFunctionOnSet(f, Terminals) = 0
      BY <3>1, FiniteTerminals, SumOfZeros
    <3> QED
      BY <3>2 DEF FcaGiven, f
  <2> QED
    BY <1>1, <2>1
<1>7. 0 \in G
  <2>1. I(0)
    <3> HIDE DEF n
    <3> QED
      BY <1>4, <1>5, <1>6
  <2> QED
    BY <2>1
<1>8. \A k \in Nat : k \in G => k + 1 \in G
  <2> SUFFICES ASSUME NEW k \in Nat, k + 1 <= n, I(k)
               PROVE  I(k + 1)
    <3> HIDE DEF I, n
    <3> QED
      BY <1>1
  <2> DEFINE x == h[k]
             y == h[k + 1]
             t == d[k + 1]
  <2>1. k + 1 \in 1..n /\ (k + 1) - 1 = k /\ t \in Terminals
    <3>1. k + 1 \in 1..n /\ (k + 1) - 1 = k
      BY <1>1
    <3> HIDE DEF n
    <3> QED
      BY <1>4, <3>1
  <2>2. y = FcaOf(x, t)
    <3> HIDE DEF n
    <3> QED
      BY <1>5, <2>1
  <2>3. x.slots[t].fca = 0 /\ x \in Allocations /\ Accounts(x)
    <3>1. k + 1 > k
      OBVIOUS
    <3> HIDE DEF n
    <3> QED
      BY <2>1, <3>1 DEF Accounts
  <2>4. /\ Accounts(y)
        /\ y.ctx = x.ctx /\ y.wanted = x.wanted
        /\ FcaGiven(y.slots) + y.left = FcaGiven(x.slots) + x.left
        /\ \A u \in Terminals :
             /\ u # t => y.slots[u] = x.slots[u]
             /\ y.slots[u].rbdc = x.slots[u].rbdc
    <3> HIDE DEF x, y, t
    <3> QED
      BY <2>1, <2>2, <2>3, FcaStep
  <2>5. \A j \in 1..n : j > k + 1 => d[j] # t /\ d[j] \in Terminals /\ j > k
    <3> HIDE DEF n
    <3> QED
      BY <1>3, <1>4, <2>1
  <2>6. \A j \in 1..n : j > k + 1 => y.slots[d[j]].fca = 0
    <3>1. \A j \in 1..n : j > k => x.slots[d[j]].fca = 0
      OBVIOUS
    <3> HIDE DEF n, t, x, y, I
    <3> QED
      BY <2>4, <2>5, <3>1
  <2> HIDE DEF n, t
  <2> QED
    BY <2>4, <2>6
<1>9. I(n)
  <2> HIDE DEF G
  <2>1. n \in G
    BY <1>1, <1>7, <1>8, NumberInduction
  <2> USE DEF G
  <2> HIDE DEF I, n
  <2> QED
    BY <1>1, <2>1
<1>10. AllocateFca(w) = IF FcaKbps = 0 THEN w ELSE h[n]
  <2> USE DEF d, key
  <2> HIDE DEF n
  <2> QED
    BY <1>5 DEF AllocateFca
<1> QED
  BY <1>6, <1>9, <1>10

\* No more RBDC slots than the request is worth, and the same for the same request,
\* up to one.
RbdcFair(slots, wanted) ==
  /\ \A t \in Terminals : slots[t].rbdc <= wanted[t]
  /\ \A a, b \in Terminals : wanted[a] = wanted[b] => slots[a].rbdc - slots[b].rbdc <= 1

\* The second step: each terminal gets at most one slot more, if it has credit.
LEMMA ExtraPhase ==
  ASSUME OrderOK, NEW w, Accounts(w), ContextsOK(w.ctx), Unserved(w),
         NEW seq \in Seq(Terminals), \A j, k \in 1..Len(seq) : seq[j] = seq[k] => j = k
  PROVE  LET v == FoldLeft(ExtraSlot, w, seq)
         IN  /\ Accounts(v) /\ v.wanted = w.wanted /\ v.hung = w.hung
             /\ Unserved(v)
             /\ \A t \in Terminals :
                  /\ v.ctx[t] = [w.ctx[t] EXCEPT !.credit = v.ctx[t].credit]
                  /\ v.ctx[t].credit <= w.ctx[t].credit
                  /\ \/ v.slots[t].rbdc = w.slots[t].rbdc
                     \/ v.slots[t].rbdc = w.slots[t].rbdc + 1 /\ w.ctx[t].credit > 0
<1> DEFINE n == Len(seq)
<1>1. w \in Allocations /\ w.ctx \in [Terminals -> Contexts] /\ n \in Nat
      /\ \A k \in 1..n : seq[k] \in Terminals
      /\ \A i, j \in 1..n : seq[i] = seq[j] => i = j
  BY DEF Accounts, Allocations
<1>2. PICK h : /\ h[0] = w
               /\ \A k \in 1..n : h[k] = ExtraSlot(h[k - 1], seq[k])
               /\ FoldLeft(ExtraSlot, w, seq) = h[n]
  BY <1>1, ExtraChain
<1> DEFINE Kept(x, t) == /\ x.slots[t].fca = 0 /\ x.slots[t].vbdc = 0
                         /\ x.ctx[t] = [w.ctx[t] EXCEPT !.credit = x.ctx[t].credit]
                         /\ x.ctx[t].credit <= w.ctx[t].credit
                         /\ \/ x.slots[t].rbdc = w.slots[t].rbdc
                            \/ x.slots[t].rbdc = w.slots[t].rbdc + 1 /\ w.ctx[t].credit > 0
           I(k) == /\ Accounts(h[k]) /\ h[k].wanted = w.wanted /\ h[k].hung = w.hung
                   /\ \A t \in Terminals : Kept(h[k], t)
                   /\ \A j \in 1..n : j > k =>
                        /\ h[k].slots[seq[j]] = w.slots[seq[j]]
                        /\ h[k].ctx[seq[j]] = w.ctx[seq[j]]
           G == {k \in Nat : k <= n => I(k)}
<1>3. 0 \in G
  <2>1. \A t \in Terminals : Kept(w, t)
    <3> TAKE t \in Terminals
    <3> w.ctx[t] \in Contexts
      BY <1>1
    <3> QED
      BY DEF Unserved, Contexts
  <2>2. I(0)
    <3> HIDE DEF Kept, n
    <3> QED
      BY <1>2, <2>1
  <2> QED
    BY <2>2
<1>4. \A k \in Nat : k \in G => k + 1 \in G
  <2> SUFFICES ASSUME NEW k \in Nat, k + 1 <= n, I(k)
               PROVE  I(k + 1)
    <3> HIDE DEF I, n
    <3> QED
      BY <1>1
  <2> DEFINE x == h[k]
             y == h[k + 1]
             t == seq[k + 1]
  <2>1. k + 1 \in 1..n /\ (k + 1) - 1 = k /\ t \in Terminals
    <3>1. k + 1 \in 1..n /\ (k + 1) - 1 = k
      BY <1>1
    <3> HIDE DEF n
    <3> QED
      BY <1>1, <3>1
  <2>2. y = ExtraSlot(x, t)
    <3> HIDE DEF n
    <3> QED
      BY <1>2, <2>1
  <2>3. x.slots[t] = w.slots[t] /\ x.ctx[t] = w.ctx[t] /\ x \in Allocations /\ Accounts(x)
    <3>1. k + 1 > k
      OBVIOUS
    <3> HIDE DEF n, Kept
    <3> QED
      BY <2>1, <3>1 DEF Accounts
  <2>4. /\ Accounts(y)
        /\ y.wanted = x.wanted /\ y.hung = x.hung
        /\ \/ y.slots[t].rbdc = x.slots[t].rbdc
           \/ y.slots[t].rbdc = x.slots[t].rbdc + 1 /\ x.ctx[t].credit > 0
        /\ \A u \in Terminals :
             /\ u # t => y.slots[u] = x.slots[u] /\ y.ctx[u] = x.ctx[u]
             /\ y.slots[u].vbdc = x.slots[u].vbdc
             /\ y.slots[u].fca = x.slots[u].fca
             /\ y.ctx[u] = [x.ctx[u] EXCEPT !.credit = y.ctx[u].credit]
             /\ y.ctx[u].credit <= x.ctx[u].credit
    <3>1. x \in Allocations /\ t \in Terminals /\ Accounts(x)
      BY <2>1, <2>3
    <3> DEFINE z == ExtraSlot(x, t)
    <3>2. /\ Accounts(z)
          /\ z.wanted = x.wanted /\ z.hung = x.hung
          /\ \/ z.slots[t].rbdc = x.slots[t].rbdc
             \/ z.slots[t].rbdc = x.slots[t].rbdc + 1 /\ x.ctx[t].credit > 0
          /\ \A u \in Terminals :
               /\ u # t => z.slots[u] = x.slots[u] /\ z.ctx[u] = x.ctx[u]
               /\ z.slots[u].vbdc = x.slots[u].vbdc
               /\ z.slots[u].fca = x.slots[u].fca
               /\ z.ctx[u] = [x.ctx[u] EXCEPT !.credit = z.ctx[u].credit]
               /\ z.ctx[u].credit <= x.ctx[u].credit
      <4> HIDE DEF x, t, n, Kept, I, G
      <4> QED
        BY ONLY <3>1, ExtraStep
    <3>3. y = z
      BY <2>2
    <3> HIDE DEF x, y, z, t, n, Kept
    <3> QED
      BY <3>2, <3>3
  <2>5. \A u \in Terminals : Kept(y, u)
    <3> TAKE u \in Terminals
    <3>1. Kept(x, u)
      OBVIOUS
    <3>2. CASE u = t
      <4>1. y.slots[u].fca = 0 /\ y.slots[u].vbdc = 0
        BY <2>4, <3>1
      <4> HIDE DEF x, y, t, I
      <4> QED
        BY <2>3, <2>4, <3>2, <4>1
    <3>3. CASE u # t
      <4>1. y.slots[u] = x.slots[u] /\ y.ctx[u] = x.ctx[u]
        BY <2>4, <3>3
      <4> HIDE DEF x, y, t, I
      <4> QED
        BY <3>1, <4>1
    <3> QED
      BY <3>2, <3>3
  <2>6. \A j \in 1..n : j > k + 1 => seq[j] # t /\ seq[j] \in Terminals /\ j > k
    <3> HIDE DEF n
    <3> QED
      BY <1>1, <2>1
  <2>7. \A j \in 1..n : j > k + 1 => y.slots[seq[j]] = w.slots[seq[j]] /\ y.ctx[seq[j]] = w.ctx[seq[j]]
    <3>1. \A j \in 1..n : j > k => x.slots[seq[j]] = w.slots[seq[j]] /\ x.ctx[seq[j]] = w.ctx[seq[j]]
      OBVIOUS
    <3> HIDE DEF n, t, x, y, I
    <3> QED
      BY <2>4, <2>6, <3>1
  <2>8. y.wanted = w.wanted /\ y.hung = w.hung
    BY <2>4
  <2> HIDE DEF Kept, n, t, x
  <2> QED
    BY <2>4, <2>5, <2>7, <2>8
<1>5. I(n)
  <2> HIDE DEF G
  <2>1. n \in G
    BY <1>1, <1>3, <1>4, NumberInduction
  <2> USE DEF G
  <2> HIDE DEF I, n
  <2> QED
    BY <1>1, <2>1
<1> DEFINE v == h[n]
<1>6. /\ Accounts(v) /\ v.wanted = w.wanted /\ v.hung = w.hung
      /\ \A t \in Terminals : Kept(v, t)
  BY <1>5
<1>7. FoldLeft(ExtraSlot, w, seq) = v
  BY <1>2
<1> HIDE DEF v
<1> QED
  BY <1>6, <1>7 DEF Unserved

\* The fair share leaves less than nothing of no capacity.
LEMMA SharesFit ==
  ASSUME NEW need \in [Terminals -> Nat], NEW capacity \in Nat,
         SumFunctionOnSet(need, Terminals) # 0
  PROVE  LET total == SumFunctionOnSet(need, Terminals)
             share == [t \in Terminals |-> FairShare(need[t], total, capacity)]
         IN  /\ total \in Nat \ {0}
             /\ \A t \in Terminals :
                  /\ share[t] \in Nat /\ share[t] <= need[t]
                  /\ Congested(total, capacity) /\ need[t] > 0 => share[t] + 1 <= need[t]
             /\ SumFunctionOnSet(share, Terminals) \in Nat
             /\ SumFunctionOnSet(share, Terminals) <= capacity
<1> DEFINE total == SumFunctionOnSet(need, Terminals)
           share == [t \in Terminals |-> FairShare(need[t], total, capacity)]
<1>1. \A t \in Terminals : need[t] \in Nat
  OBVIOUS
<1>2. total \in Nat \ {0}
  BY <1>1, FiniteTerminals, SumOfSet
<1>3. \A t \in Terminals : need[t] <= total
  <2> TAKE t \in Terminals
  <2>1. total = need[t] + SumFunctionOnSet(need, Terminals \ {t})
    BY <1>1, FiniteTerminals, SumOfSet
  <2>2. SumFunctionOnSet(need, Terminals \ {t}) \in Nat
    <3> DEFINE D == Terminals \ {t}
    <3>1. IsFiniteSet(D) /\ \A u \in D : need[u] \in Nat
      BY <1>1, FiniteTerminals, FS_RemoveElement
    <3> HIDE DEF D
    <3>2. SumFunctionOnSet(need, D) \in Nat
      BY <3>1, SumOfSet
    <3> QED
      BY <3>2 DEF D
  <2> HIDE DEF total
  <2> QED
    BY <1>1, <2>1, <2>2
<1> HIDE DEF total
<1>4. \A t \in Terminals :
        /\ share[t] \in Nat /\ share[t] <= need[t]
        /\ Congested(total, capacity) =>
             (need[t] > 0 => share[t] + 1 <= need[t]) /\ total * share[t] <= capacity * need[t]
        /\ ~Congested(total, capacity) => share[t] = need[t]
  <2> TAKE t \in Terminals
  <2> DEFINE q == FairShare(need[t], total, capacity)
  <2>1. /\ q \in Nat /\ q <= need[t]
        /\ Congested(total, capacity) =>
             (need[t] > 0 => q + 1 <= need[t]) /\ total * q <= capacity * need[t]
        /\ ~Congested(total, capacity) => q = need[t]
    BY <1>1, <1>2, <1>3, FairShareFacts
  <2>2. share[t] = q
    OBVIOUS
  <2> HIDE DEF q, share
  <2> QED
    BY <2>1, <2>2
<1> HIDE DEF share
<1> DEFINE given == SumFunctionOnSet(share, Terminals)
<1>5. given \in Nat
  BY <1>4, FiniteTerminals, SumOfSet
<1>6. CASE Congested(total, capacity)
  <2>1. \A t \in Terminals : share[t] \in Nat /\ need[t] \in Nat /\ total * share[t] <= capacity * need[t]
    BY <1>1, <1>4, <1>6
  <2>2. total * given <= capacity * total
    BY <1>2, <2>1, FiniteTerminals, SumScaled DEF total
  <2> HIDE DEF given
  <2>3. given <= capacity
    <3> SUFFICES ASSUME given >= capacity + 1
                 PROVE  FALSE
      BY <1>5
    <3>1. total * given >= total * (capacity + 1)
      BY <1>2, <1>5
    <3>2. total * (capacity + 1) = capacity * total + total
      BY <1>2
    <3>3. capacity * total \in Nat /\ total * given \in Nat
      BY <1>2, <1>5
    <3> QED
      BY <1>2, <2>2, <3>1, <3>2, <3>3
  <2> QED
    BY <1>2, <1>4, <1>5, <2>3 DEF given, share, total
<1>7. CASE ~Congested(total, capacity)
  <2>1. \A t \in Terminals : need[t] \in Nat /\ share[t] = need[t]
    BY <1>1, <1>4, <1>7
  <2>2. total = given
    BY <2>1, FiniteTerminals, SumSame DEF total
  <2>3. total <= capacity
    BY <1>2, <1>7 DEF Congested
  <2> HIDE DEF given
  <2> QED
    BY <1>2, <1>4, <1>5, <2>2, <2>3 DEF given, share, total
<1> QED
  BY <1>6, <1>7

\* After the RBDC, in one step or two, they are, and the shares are fair.
LEMMA RbdcPhase ==
  ASSUME OrderOK, NEW w, Accounts(w), ContextsOK(w.ctx), Unserved(w),
         \A t \in Terminals : w.slots[t].rbdc = 0 /\ w.wanted[t] = 0
  PROVE  LET v == AllocateRbdc(w)
         IN  /\ Accounts(v) /\ ContextsOK(v.ctx) /\ Unserved(v) /\ v.hung = w.hung
             /\ \A t \in Terminals : v.ctx[t].vbdc = w.ctx[t].vbdc
             /\ RbdcFair(v.slots, v.wanted)
<1> DEFINE need == [t \in Terminals |->
                      IF t \in Logged \cap usable THEN RateSlots(w.ctx[t].rbdc) ELSE 0]
           total == SumFunction(need)
           share == Shares(need, w.left)
           rest(t) == (need[t] * w.left) % total
           served(t) ==
             IF Congested(total, w.left) /\ t \in Logged \cap usable
             THEN [w.ctx[t] EXCEPT !.credit = Capped(@ + SlotCredit(rest(t), total))]
             ELSE w.ctx[t]
           first == [w EXCEPT !.ctx = [t \in Terminals |-> served(t)],
                              !.alloc = [t \in Terminals |->
                                           [w.alloc[t] EXCEPT !.rbdc = SlotsRate(share[t])]],
                              !.slots = [t \in Terminals |-> [w.slots[t] EXCEPT !.rbdc = share[t]]],
                              !.wanted = need,
                              !.left = @ - SumFunction(share)]
           key == [t \in Terminals |-> first.ctx[t].credit]
           v == AllocateRbdc(w)
<1>1. /\ w \in Allocations /\ order \in Seq(Terminals) /\ w.left \in Nat
      /\ w.ctx \in [Terminals -> Contexts]
      /\ w.slots \in [Terminals -> Kinds] /\ w.alloc \in [Terminals -> Kinds]
  BY DEF Accounts, Allocations, OrderOK
<1>2. v = IF w.left = 0 \/ total = 0 THEN w
          ELSE IF Congested(total, w.left) THEN FoldLeft(ExtraSlot, first, Descending(order, key))
          ELSE first
  BY DEF AllocateRbdc
<1> HIDE DEF v
<1>3. CASE w.left = 0 \/ total = 0
  <2>1. v = w
    BY <1>2, <1>3
  <2>2. RbdcFair(w.slots, w.wanted)
    <3>1. \A t \in Terminals : w.slots[t].rbdc = 0 /\ w.wanted[t] = 0
      OBVIOUS
    <3> QED
      BY <3>1 DEF RbdcFair
  <2> QED
    BY <2>1, <2>2 DEF v
<1>4. CASE ~(w.left = 0 \/ total = 0)
  <2>1. need \in [Terminals -> Nat] /\ \A t \in Terminals :
          /\ need[t] > 0 => t \in Logged /\ t \in usable
          /\ need[t] = 0 /\ t \in Logged /\ t \in usable => w.ctx[t].rbdc = 0
    <3>1. \A t \in Terminals : w.ctx[t].rbdc \in Nat
      BY <1>1 DEF Contexts
    <3>2. \A t \in Terminals : /\ RateSlots(w.ctx[t].rbdc) \in Nat
                               /\ RateSlots(w.ctx[t].rbdc) = 0 <=> w.ctx[t].rbdc = 0
      BY <3>1, RateFacts
    <3> QED
      BY <3>2
  <2>2. total = SumFunctionOnSet(need, Terminals) /\ DOMAIN share = Terminals
        /\ share = [t \in Terminals |-> FairShare(need[t], total, w.left)]
    BY DEF SumFunction, Shares
  <2>3. SumFunction(share) = SumFunctionOnSet(share, Terminals)
    BY <2>2 DEF SumFunction
  <2> HIDE DEF need
  <2>4. /\ total \in Nat \ {0}
        /\ \A t \in Terminals :
             /\ share[t] \in Nat /\ share[t] <= need[t]
             /\ Congested(total, w.left) /\ need[t] > 0 => share[t] + 1 <= need[t]
        /\ SumFunction(share) \in Nat
        /\ SumFunction(share) <= w.left
    <3> HIDE DEF total, share
    <3>1. SumFunctionOnSet(need, Terminals) # 0
      BY <1>4, <2>2
    <3>2. LET n == SumFunctionOnSet(need, Terminals)
              f == [t \in Terminals |-> FairShare(need[t], n, w.left)]
          IN  /\ n \in Nat \ {0}
              /\ \A t \in Terminals :
                   /\ f[t] \in Nat /\ f[t] <= need[t]
                   /\ Congested(n, w.left) /\ need[t] > 0 => f[t] + 1 <= need[t]
              /\ SumFunctionOnSet(f, Terminals) \in Nat
              /\ SumFunctionOnSet(f, Terminals) <= w.left
      BY <1>1, <2>1, <3>1, SharesFit
    <3> QED
      BY <2>2, <2>3, <3>2
  <2>5. \A t \in Terminals : need[t] \in Nat
    BY <2>1
  <2>6. \A a, b \in Terminals : need[a] = need[b] => share[a] = share[b]
    BY <2>2
  <2> HIDE DEF total, share
  <2>7. \A t \in Terminals :
          /\ served(t) \in Contexts
          /\ served(t) = [w.ctx[t] EXCEPT !.credit = served(t).credit]
          /\ served(t).credit > 0 => w.ctx[t].rbdc > 0
    <3> TAKE t \in Terminals
    <3>1. /\ w.ctx[t] \in Contexts /\ w.ctx[t].credit \in Nat /\ w.ctx[t].rbdc \in Nat
          /\ w.ctx[t].credit > 0 => w.ctx[t].rbdc > 0
      <4> w.ctx[t] \in Contexts
        BY <1>1
      <4> QED
        BY DEF Contexts, ContextsOK
    <3>2. CASE ~(Congested(total, w.left) /\ t \in Logged \cap usable)
      BY <3>1, <3>2 DEF Contexts
    <3>3. CASE Congested(total, w.left) /\ t \in Logged \cap usable
      <4> DEFINE extra == SlotCredit(rest(t), total)
                 credit == Capped(w.ctx[t].credit + extra)
      <4>1. rest(t) \in Nat /\ (need[t] = 0 => rest(t) = 0)
        <5>1. need[t] * w.left \in Nat /\ (need[t] = 0 => need[t] * w.left = 0)
          BY <1>1, <2>5
        <5>2. \A m \in Nat : m % total \in Nat
          BY <2>4
        <5>3. 0 % total = 0
          BY <2>4
        <5> QED
          BY <5>1, <5>2, <5>3
      <4> HIDE DEF rest
      <4>2. extra \in Nat /\ (need[t] = 0 => extra = 0)
        <5>1. extra \in Nat
          BY <2>4, <4>1, CreditFacts
        <5>2. SlotCredit(0, total) = 0
          <6>1. CreditScale \div total \in Nat
            BY <2>4, FloorFacts, Units
          <6>2. 0 * (CreditScale \div total) * PacketBits * CodingDen = 0
            BY <6>1, Units
          <6> QED
            BY <6>2 DEF SlotCredit
        <5> QED
          BY <4>1, <5>1, <5>2
      <4>3. served(t) = [w.ctx[t] EXCEPT !.credit = credit]
        BY <3>3
      <4> HIDE DEF extra
      <4>4. credit \in Nat
        BY <3>1, <4>2, CreditFacts
      <4>5. credit > 0 => w.ctx[t].rbdc > 0
        <5> SUFFICES ASSUME w.ctx[t].rbdc = 0
                     PROVE  credit = 0
          BY <3>1, <4>4
        <5>1. w.ctx[t].credit = 0
          BY <3>1
        <5>2. need[t] = 0
          <6>1. RateSlots(w.ctx[t].rbdc) = 0
            BY <3>1, RateFacts
          <6> QED
            BY <3>3, <6>1 DEF need
        <5>3. Capped(0) = 0
          <6>1. CreditCap * CreditUnit \in Nat
            BY CreditFacts, Units
          <6> QED
            BY <6>1 DEF Capped, Smaller
        <5> QED
          BY <4>2, <5>1, <5>2, <5>3
      <4> HIDE DEF credit, served
      <4>6. served(t) \in Contexts /\ served(t).credit = credit
        BY <3>1, <4>3, <4>4 DEF Contexts
      <4> QED
        BY <4>3, <4>5, <4>6
    <3> QED
      BY <3>2, <3>3
  <2> HIDE DEF served
  <2> DEFINE c == [t \in Terminals |-> served(t)]
             a == [t \in Terminals |-> [w.alloc[t] EXCEPT !.rbdc = SlotsRate(share[t])]]
             s == [t \in Terminals |-> [w.slots[t] EXCEPT !.rbdc = share[t]]]
             m == w.left - SumFunction(share)
  <2>8. c \in [Terminals -> Contexts]
    BY <2>7
  <2>9. a \in [Terminals -> Kinds]
    <3>1. \A t \in Terminals : [w.alloc[t] EXCEPT !.rbdc = SlotsRate(share[t])] \in Kinds
      <4> TAKE t \in Terminals
      <4>1. SlotsRate(share[t]) \in Nat /\ w.alloc[t] \in Kinds
        <5> HIDE DEF total, share
        <5>1. share[t] \in Nat
          BY <2>4
        <5>2. SlotsRate(share[t]) \in Nat
          BY <5>1, RateFacts
        <5> QED
          BY <1>1, <5>2
      <4> QED
        BY <4>1 DEF Kinds
    <3> QED
      BY <3>1
  <2>10. s \in [Terminals -> Kinds]
    <3>1. \A t \in Terminals : [w.slots[t] EXCEPT !.rbdc = share[t]] \in Kinds
      <4> TAKE t \in Terminals
      <4>1. share[t] \in Nat /\ w.slots[t] \in Kinds
        BY <1>1, <2>4
      <4> QED
        BY <4>1 DEF Kinds
    <3> QED
      BY <3>1
  <2>11. m \in Nat
    BY <1>1, <2>4
  <2>12. /\ first \in Allocations
         /\ first.ctx = c /\ first.alloc = a /\ first.slots = s /\ first.wanted = need
         /\ first.left = m /\ first.hung = w.hung
    <3>1. first = [w EXCEPT !.ctx = c, !.alloc = a, !.slots = s, !.wanted = need, !.left = m]
      BY <1>1 DEF Allocations
    <3> HIDE DEF first, c, a, s, m
    <3> QED
      BY <1>1, <2>1, <2>8, <2>9, <2>10, <2>11, <3>1 DEF Allocations
  <2> HIDE DEF first
  <2>13. \A t \in Terminals :
           /\ w.slots[t] \in Kinds /\ w.alloc[t] \in Kinds
           /\ first.slots[t] = [w.slots[t] EXCEPT !.rbdc = share[t]]
           /\ first.alloc[t] = [w.alloc[t] EXCEPT !.rbdc = SlotsRate(share[t])]
           /\ first.ctx[t] = served(t)
    BY <1>1, <2>12
  <2>14. \A t \in Terminals :
           /\ first.slots[t].rbdc = share[t] /\ first.slots[t].cra = w.slots[t].cra
           /\ first.slots[t].vbdc = w.slots[t].vbdc /\ first.slots[t].fca = w.slots[t].fca
           /\ first.alloc[t].rbdc = SlotsRate(share[t]) /\ first.alloc[t].cra = w.alloc[t].cra
           /\ first.alloc[t].vbdc = w.alloc[t].vbdc /\ first.alloc[t].fca = w.alloc[t].fca
    <3> HIDE DEF a, s, c, m
    <3> QED
      BY <2>13 DEF Kinds
  <2> HIDE DEF a, s, c, m
  <2>15. Accounts(first)
    <3>1. Given(first.slots) + first.left = Capacity
      <4> DEFINE f == [t \in Terminals |-> Total(w.slots[t])]
                 g == [t \in Terminals |-> Total(first.slots[t])]
      <4>1. \A t \in Terminals : f[t] \in Nat /\ share[t] \in Nat /\ g[t] = f[t] + share[t]
        <5> TAKE t \in Terminals
        <5>1. w.slots[t] \in Kinds /\ share[t] \in Nat /\ w.slots[t].rbdc = 0
          BY <2>4, <2>13
        <5>2. Total(first.slots[t]) = Total(w.slots[t]) + share[t] /\ Total(w.slots[t]) \in Nat
          BY <2>14, <5>1 DEF Total, Kinds
        <5> QED
          BY <5>1, <5>2
      <4>2. Given(w.slots) = SumFunctionOnSet(f, Terminals) /\ Given(first.slots) = SumFunctionOnSet(g, Terminals)
        BY DEF Given
      <4> HIDE DEF f, g
      <4>3. SumFunctionOnSet(g, Terminals) = SumFunctionOnSet(f, Terminals) + SumFunctionOnSet(share, Terminals)
        BY <4>1, FiniteTerminals, SumAdded
      <4>4. SumFunctionOnSet(f, Terminals) \in Nat
        BY <4>1, FiniteTerminals, SumOfSet
      <4>5. SumFunctionOnSet(f, Terminals) + w.left = Capacity
        BY <4>2 DEF Accounts
      <4> QED
        BY <1>1, <2>3, <2>4, <2>12, <4>2, <4>3, <4>4, <4>5 DEF m
    <3>2. ASSUME NEW t \in Terminals
          PROVE  Covered(first.slots[t], first.alloc[t]) /\ (t \notin usable => first.slots[t] = Nothing)
      <4>1. Covered(w.slots[t], w.alloc[t]) /\ (t \notin usable => w.slots[t] = Nothing)
        BY DEF Accounts
      <4>2. CoveredRate(share[t], SlotsRate(share[t]))
        BY <2>4, RateFacts DEF CoveredRate
      <4>3. Covered(first.slots[t], first.alloc[t])
        BY <2>14, <4>1, <4>2 DEF Covered
      <4>4. t \notin usable => share[t] = 0
        BY <2>1, <2>4, <2>5
      <4>5. t \notin usable => first.slots[t] = Nothing
        <5> SUFFICES ASSUME t \notin usable
                     PROVE  first.slots[t] = Nothing
          OBVIOUS
        <5>1. first.slots[t] = [Nothing EXCEPT !.rbdc = 0]
          BY <2>13, <4>1, <4>4
        <5>2. [Nothing EXCEPT !.rbdc = 0] = Nothing
          BY DEF Nothing
        <5> QED
          BY <5>1, <5>2
      <4> QED
        BY <4>3, <4>5
    <3> QED
      BY <2>12, <3>1, <3>2 DEF Accounts
  <2>16. Unserved(first)
    BY <2>14 DEF Unserved
  <2>17. ASSUME NEW x \in [Terminals -> Contexts],
                \A t \in Terminals : /\ x[t] = [first.ctx[t] EXCEPT !.credit = x[t].credit]
                                     /\ x[t].credit <= first.ctx[t].credit
         PROVE  ContextsOK(x) /\ \A t \in Terminals : x[t].vbdc = w.ctx[t].vbdc
    <3> SUFFICES ASSUME NEW t \in Terminals
                 PROVE  /\ x[t].credit > 0 => x[t].rbdc > 0
                        /\ x[t].maxRbdc = 0 => x[t].rbdc = 0
                        /\ t \notin Logged => x[t] = Off
                        /\ x[t].vbdc = w.ctx[t].vbdc
      BY DEF ContextsOK
    <3>1. /\ w.ctx[t] \in Contexts /\ first.ctx[t] \in Contexts /\ x[t] \in Contexts
          /\ first.ctx[t] = [w.ctx[t] EXCEPT !.credit = first.ctx[t].credit]
          /\ first.ctx[t].credit > 0 => w.ctx[t].rbdc > 0
          /\ x[t] = [first.ctx[t] EXCEPT !.credit = x[t].credit]
          /\ x[t].credit <= first.ctx[t].credit
      BY <1>1, <2>7, <2>13, <2>17
    <3>2. /\ x[t].rbdc = w.ctx[t].rbdc /\ x[t].maxRbdc = w.ctx[t].maxRbdc
          /\ x[t].vbdc = w.ctx[t].vbdc
          /\ x[t].credit \in Nat /\ first.ctx[t].credit \in Nat
      BY <3>1 DEF Contexts
    <3>3. /\ w.ctx[t].maxRbdc = 0 => w.ctx[t].rbdc = 0
          /\ t \notin Logged => w.ctx[t] = Off
      BY DEF ContextsOK
    <3>4. t \notin Logged => x[t] = Off
      <4> SUFFICES ASSUME t \notin Logged
                   PROVE  x[t] = Off
        OBVIOUS
      <4>1. first.ctx[t] = Off
        BY <2>13, <3>3 DEF served
      <4>2. Off.credit = 0
        BY DEF Off, Context
      <4>3. x[t].credit = 0
        BY <3>1, <3>2, <4>1, <4>2
      <4> QED
        BY <3>1, <4>1, <4>2, <4>3 DEF Contexts
    <3>5. x[t].credit > 0 => x[t].rbdc > 0
      BY <3>1, <3>2
    <3> QED
      BY <3>2, <3>3, <3>4, <3>5
  <2>18. ContextsOK(first.ctx) /\ \A t \in Terminals : first.ctx[t].vbdc = w.ctx[t].vbdc
    <3>1. first.ctx \in [Terminals -> Contexts]
      BY <2>8, <2>12
    <3>2. \A t \in Terminals : /\ first.ctx[t] = [first.ctx[t] EXCEPT !.credit = first.ctx[t].credit]
                               /\ first.ctx[t].credit <= first.ctx[t].credit
      BY <3>1 DEF Contexts
    <3> QED
      BY <2>17, <3>1, <3>2
  <2>19. CASE ~Congested(total, w.left)
    <3>1. v = first
      BY <1>2, <1>4, <2>19
    <3>2. RbdcFair(first.slots, first.wanted)
      <4>1. \A t \in Terminals : /\ first.slots[t].rbdc = share[t] /\ first.wanted[t] = need[t]
                                 /\ share[t] \in Nat /\ share[t] <= need[t]
        BY <2>4, <2>12, <2>14
      <4>2. \A x, y \in Terminals : first.wanted[x] = first.wanted[y] =>
              first.slots[x].rbdc - first.slots[y].rbdc <= 1
        <5> SUFFICES ASSUME NEW x \in Terminals, NEW y \in Terminals, first.wanted[x] = first.wanted[y]
                     PROVE  first.slots[x].rbdc - first.slots[y].rbdc <= 1
          OBVIOUS
        <5>1. share[x] = share[y]
          BY <2>6, <4>1
        <5> QED
          BY <4>1, <5>1
      <4> QED
        BY <4>1, <4>2 DEF RbdcFair
    <3> QED
      BY <2>12, <2>15, <2>16, <2>18, <3>1, <3>2 DEF v
  <2>20. CASE Congested(total, w.left)
    <3> DEFINE d == Descending(order, key)
               x == FoldLeft(ExtraSlot, first, d)
    <3>1. v = x
      BY <1>2, <1>4, <2>20
    <3>2. key \in [Terminals -> Nat]
      <4> first.ctx \in [Terminals -> Contexts]
        BY <2>8, <2>12
      <4> QED
        BY DEF Contexts
    <3> HIDE DEF key
    <3>3. d \in Seq(Terminals) /\ \A j, k \in 1..Len(d) : d[j] = d[k] => j = k
      BY <1>1, <3>2, DescendingIsOrder DEF OrderOK
    <3> HIDE DEF d
    <3>4. /\ Accounts(x) /\ x.wanted = first.wanted /\ x.hung = first.hung
          /\ Unserved(x)
          /\ \A t \in Terminals :
               /\ x.ctx[t] = [first.ctx[t] EXCEPT !.credit = x.ctx[t].credit]
               /\ x.ctx[t].credit <= first.ctx[t].credit
               /\ \/ x.slots[t].rbdc = first.slots[t].rbdc
                  \/ x.slots[t].rbdc = first.slots[t].rbdc + 1 /\ first.ctx[t].credit > 0
      BY <2>15, <2>16, <2>18, <3>3, ExtraPhase
    <3> HIDE DEF x
    <3>5. x.ctx \in [Terminals -> Contexts]
      BY <3>4 DEF Accounts, Allocations
    <3>6. ContextsOK(x.ctx) /\ \A t \in Terminals : x.ctx[t].vbdc = w.ctx[t].vbdc
      BY <2>17, <3>4, <3>5
    <3>7. \A t \in Terminals :
            /\ x.wanted[t] = need[t] /\ share[t] \in Nat
            /\ \/ x.slots[t].rbdc = share[t] /\ share[t] <= need[t]
               \/ x.slots[t].rbdc = share[t] + 1 /\ share[t] + 1 <= need[t]
      <4> TAKE t \in Terminals
      <4>1. x.wanted[t] = need[t] /\ first.slots[t].rbdc = share[t] /\ share[t] \in Nat /\ share[t] <= need[t]
        BY <2>4, <2>12, <2>14, <3>4
      <4>2. CASE x.slots[t].rbdc = first.slots[t].rbdc
        BY <4>1, <4>2
      <4>3. CASE x.slots[t].rbdc = first.slots[t].rbdc + 1 /\ first.ctx[t].credit > 0
        <5>1. x.slots[t] # Nothing
          <6> x.slots[t].rbdc # 0
            BY <4>1, <4>3
          <6> QED
            BY DEF Nothing
        <5>2. t \in usable
          BY <3>4, <5>1 DEF Accounts
        <5>3. t \in Logged
          BY <2>18, <4>3 DEF ContextsOK, Off, Context
        <5>4. w.ctx[t].rbdc > 0
          BY <2>7, <2>13, <4>3
        <5>5. need[t] > 0
          <6>1. need[t] # 0
            BY <2>1, <5>2, <5>3, <5>4
          <6> QED
            BY <2>5, <6>1
        <5> QED
          BY <2>4, <2>20, <4>1, <4>3, <5>5
      <4> QED
        BY <3>4, <4>2, <4>3
    <3>8. RbdcFair(x.slots, x.wanted)
      <4>1. \A t \in Terminals : x.slots[t].rbdc <= x.wanted[t]
        BY <2>5, <3>7
      <4>2. \A y, z \in Terminals : x.wanted[y] = x.wanted[z] =>
              x.slots[y].rbdc - x.slots[z].rbdc <= 1
        <5> SUFFICES ASSUME NEW y \in Terminals, NEW z \in Terminals, x.wanted[y] = x.wanted[z]
                     PROVE  x.slots[y].rbdc - x.slots[z].rbdc <= 1
          OBVIOUS
        <5>1. share[y] = share[z] /\ share[y] \in Nat
          BY <2>6, <3>7
        <5>2. x.slots[y].rbdc = share[y] \/ x.slots[y].rbdc = share[y] + 1
          BY <3>7
        <5>3. x.slots[z].rbdc = share[z] \/ x.slots[z].rbdc = share[z] + 1
          BY <3>7
        <5> QED
          BY <5>1, <5>2, <5>3
      <4> QED
        BY <4>1, <4>2 DEF RbdcFair
    <3>9. x.hung = w.hung
      BY <2>12, <3>4
    <3> QED
      BY <3>1, <3>4, <3>6, <3>8, <3>9 DEF v
  <2> QED
    BY <2>19, <2>20
<1> QED
  BY <1>3, <1>4 DEF v

\* The timer and the credit of a terminal are brought up to date: its context stays one.
LEMMA ResetContextStep ==
  ASSUME NEW t, NEW c \in Contexts,
         c.credit > 0 => c.rbdc > 0, c.maxRbdc = 0 => c.rbdc = 0
  PROVE  LET r == ResetContext(t, c)
         IN  /\ r \in Contexts /\ r.vbdc = c.vbdc
             /\ r.credit > 0 => r.rbdc > 0
             /\ r.maxRbdc = 0 => r.rbdc = 0
<1> DEFINE timer == Larger(c.timer - 1, 0)
           r == [c EXCEPT !.timer = timer]
           slot == PktpfToKbps(1)
           left == Larger(c.credit - slot * CreditUnit, 0)
           kbps == Smaller(r.rbdc + slot, r.maxRbdc)
           raised == [r EXCEPT !.rbdc = kbps, !.credit = left, !.timer = RbdcTimeout]
           v == ResetContext(t, c)
<1>1. timer \in Nat /\ left \in Nat /\ left <= c.credit
  <2>1. slot * CreditUnit \in Nat
    BY CreditFacts
  <2> HIDE DEF slot
  <2> QED
    BY <2>1 DEF Larger, Contexts
<1>2. slot \in Nat /\ slot > 0 /\ RbdcTimeout \in Nat
  BY CreditFacts, RequestsAssumption
<1> HIDE DEF slot, timer, left
<1>3. /\ r \in Contexts /\ r.rbdc = c.rbdc /\ r.maxRbdc = c.maxRbdc /\ r.credit = c.credit
      /\ r.vbdc = c.vbdc /\ r.timer = timer
  BY <1>1 DEF Contexts
<1>4. \/ v = r
      \/ v = [r EXCEPT !.credit = 0]
      \/ v = raised /\ r.credit # 0
  <2>1. RequireRbdc(r, r.rbdc + slot, RbdcTimeout)
          = [r EXCEPT !.rbdc = kbps, !.credit = 0, !.timer = RbdcTimeout]
    BY DEF RequireRbdc
  <2>2. [RequireRbdc(r, r.rbdc + slot, RbdcTimeout) EXCEPT !.credit = left] = raised
    BY <1>3, <2>1 DEF Contexts
  <2>3. v = IF r.timer = 0 \/ r.credit = 0 THEN r
            ELSE IF t \notin usable THEN [r EXCEPT !.credit = 0]
            ELSE [RequireRbdc(r, r.rbdc + slot, RbdcTimeout) EXCEPT !.credit = left]
    BY DEF ResetContext, timer, slot, left
  <2> HIDE DEF v, r, raised
  <2> QED
    BY <2>2, <2>3
<1>5. kbps \in Nat /\ (r.maxRbdc = 0 => kbps = 0) /\ (r.maxRbdc > 0 => kbps > 0)
  BY <1>2, <1>3 DEF Smaller, Contexts
<1> HIDE DEF v, kbps
<1>6. CASE v = r
  BY <1>3, <1>6 DEF v
<1>7. CASE v = [r EXCEPT !.credit = 0]
  <2> HIDE DEF r
  <2>1. v \in Contexts /\ v.credit = 0 /\ v.rbdc = r.rbdc /\ v.maxRbdc = r.maxRbdc /\ v.vbdc = r.vbdc
    BY <1>3, <1>7 DEF Contexts
  <2> QED
    BY <1>3, <2>1 DEF v
<1>8. CASE v = raised /\ r.credit # 0
  <2>1. r.maxRbdc > 0
    BY <1>3, <1>8 DEF Contexts
  <2> HIDE DEF r
  <2>2. /\ v \in Contexts /\ v.rbdc = kbps /\ v.maxRbdc = r.maxRbdc /\ v.vbdc = r.vbdc
    BY <1>1, <1>2, <1>3, <1>5, <1>8 DEF Contexts
  <2> QED
    BY <1>3, <1>5, <2>1, <2>2 DEF v
<1> QED
  BY <1>4, <1>6, <1>7, <1>8

\* The context of a terminal that is not logged.
LEMMA OffFacts ==
  Off \in Contexts /\ Off.credit = 0 /\ Off.rbdc = 0 /\ Off.vbdc = 0
BY DEF Off, Context, Contexts

\* The allocation starts with every slot left and nothing given.
LEMMA ResetPhase ==
  ASSUME ContextsOK(ctx)
  PROVE  /\ Accounts(Reset) /\ ContextsOK(Reset.ctx) /\ Unserved(Reset)
         /\ ~Reset.hung /\ Reset.left = Capacity
         /\ \A t \in Terminals : /\ Reset.slots[t] = Nothing /\ Reset.wanted[t] = 0
                                 /\ Reset.ctx[t].vbdc = ctx[t].vbdc
<1> DEFINE c == [t \in Terminals |-> IF t \in Logged THEN ResetContext(t, ctx[t]) ELSE Off]
           none == [t \in Terminals |-> Nothing]
           ok == \A t \in Logged \ usable : ctx[t].timer <= 1 \/ ctx[t].credit = 0
<1>1. \A t \in Terminals :
        /\ c[t] \in Contexts /\ c[t].vbdc = ctx[t].vbdc
        /\ c[t].credit > 0 => c[t].rbdc > 0
        /\ c[t].maxRbdc = 0 => c[t].rbdc = 0
        /\ t \notin Logged => c[t] = Off
  <2> TAKE t \in Terminals
  <2>1. /\ ctx[t] \in Contexts /\ (ctx[t].credit > 0 => ctx[t].rbdc > 0)
        /\ ctx[t].maxRbdc = 0 => ctx[t].rbdc = 0
        /\ t \notin Logged => ctx[t] = Off
    BY DEF ContextsOK
  <2>2. CASE t \in Logged
    BY <2>1, <2>2, ResetContextStep
  <2>3. CASE t \notin Logged
    <3>1. c[t] = Off /\ ctx[t] = Off
      BY <2>1, <2>3
    <3> QED
      BY <3>1, OffFacts
  <2> QED
    BY <2>2, <2>3
<1> HIDE DEF c
<1>2. c \in [Terminals -> Contexts]
  <2>1. c = [t \in Terminals |-> c[t]]
    BY DEF c
  <2> QED
    BY <1>1, <2>1
<1>3. Nothing \in Kinds
  BY DEF Nothing, Kinds
<1>4. Reset = [ctx |-> c, slots |-> none, alloc |-> none, wanted |-> [t \in Terminals |-> 0],
               left |-> Capacity, ok |-> ok, hung |-> FALSE]
  BY DEF Reset, c
<1>5. none \in [Terminals -> Kinds] /\ \A t \in Terminals : none[t] = Nothing
  BY <1>3
<1> HIDE DEF none
<1>6. ok \in BOOLEAN
  OBVIOUS
<1> HIDE DEF ok
<1>7. Reset \in Allocations
  BY <1>2, <1>4, <1>5, <1>6, Units DEF Allocations
<1>8. /\ Reset.ctx = c /\ Reset.slots = none /\ Reset.alloc = none
      /\ Reset.wanted = [t \in Terminals |-> 0] /\ Reset.left = Capacity /\ Reset.hung = FALSE
  BY <1>4
<1>9. Given(none) = 0
  <2>1. Total(Nothing) = 0
    BY DEF Total, Nothing
  <2> DEFINE f == [t \in Terminals |-> Total(none[t])]
  <2>2. \A t \in Terminals : f[t] = 0
    BY <1>5, <2>1
  <2> HIDE DEF f
  <2>3. SumFunctionOnSet(f, Terminals) = 0
    BY <2>2, FiniteTerminals, SumOfZeros
  <2> QED
    BY <2>3 DEF f, Given
<1>10. Covered(Nothing, Nothing)
  BY Units DEF Covered, CoveredRate, CoveredVolume, Nothing
<1>11. Accounts(Reset)
  BY <1>5, <1>7, <1>8, <1>9, <1>10, Units DEF Accounts
<1>12. Unserved(Reset)
  BY <1>5, <1>8 DEF Unserved, Nothing
<1> QED
  BY <1>1, <1>2, <1>5, <1>8, <1>11, <1>12 DEF ContextsOK

\* Fairness is about the RBDC slots only.
LEMMA FairKept ==
  ASSUME NEW s, NEW r, NEW wanted, RbdcFair(s, wanted), \A t \in Terminals : r[t].rbdc = s[t].rbdc
  PROVE  RbdcFair(r, wanted)
BY DEF RbdcFair

\* What is known after an allocation, whichever steps were taken.
LEMMA AllocationFacts ==
  ASSUME OrderOK, ContextsOK(ctx), ~enableVbdc => \A t \in Terminals : ctx[t].vbdc = 0
  PROVE  LET w == Allocation
         IN  /\ Accounts(w) /\ ContextsOK(w.ctx) /\ RbdcFair(w.slots, w.wanted)
             /\ ~enableVbdc => \A t \in Terminals : w.ctx[t].vbdc = 0
             /\ (w.hung \/ w.ok) /\ FcaGiven(w.slots) + w.left > 0
                  => \A t \in Terminals : t \in usable => w.ctx[t].vbdc = 0
<1> DEFINE none == Reset
           cra == AllocateCra(none)
           rbdc == IF enableRbdc THEN AllocateRbdc(cra) ELSE cra
           vbdc == IF enableVbdc THEN AllocateVbdc(rbdc) ELSE rbdc
           fca == AllocateFca(vbdc)
           w == Allocation
<1>1. w = IF ~none.ok THEN none ELSE IF ~cra.ok THEN cra ELSE fca
  BY DEF Allocation
<1>2. /\ Accounts(none) /\ ContextsOK(none.ctx) /\ none.hung = FALSE
      /\ \A t \in Terminals : /\ none.slots[t] = Nothing /\ none.wanted[t] = 0
                              /\ none.ctx[t].vbdc = ctx[t].vbdc
  <2>1. none \in Allocations
    BY ResetPhase DEF Accounts
  <2> QED
    BY <2>1, ResetPhase DEF Allocations
<1> HIDE DEF none, w
<1>3. /\ Accounts(cra) /\ cra.ctx = none.ctx /\ cra.wanted = none.wanted /\ cra.hung = none.hung
      /\ Unserved(cra) /\ \A t \in Terminals : cra.slots[t].rbdc = 0
  BY <1>2, CraPhase
<1> HIDE DEF cra
<1>4. ContextsOK(cra.ctx) /\ \A t \in Terminals : cra.slots[t].rbdc = 0 /\ cra.wanted[t] = 0
  BY <1>2, <1>3
<1>5. /\ Accounts(rbdc) /\ ContextsOK(rbdc.ctx) /\ Unserved(rbdc)
      /\ \A t \in Terminals : rbdc.ctx[t].vbdc = ctx[t].vbdc
      /\ RbdcFair(rbdc.slots, rbdc.wanted)
  <2>1. CASE enableRbdc
    <3>1. rbdc = AllocateRbdc(cra)
      BY <2>1
    <3>2. /\ Accounts(AllocateRbdc(cra)) /\ ContextsOK(AllocateRbdc(cra).ctx)
          /\ Unserved(AllocateRbdc(cra))
          /\ \A t \in Terminals : AllocateRbdc(cra).ctx[t].vbdc = cra.ctx[t].vbdc
          /\ RbdcFair(AllocateRbdc(cra).slots, AllocateRbdc(cra).wanted)
      BY <1>3, <1>4, RbdcPhase
    <3> QED
      BY <1>2, <1>3, <3>1, <3>2
  <2>2. CASE ~enableRbdc
    <3>1. rbdc = cra
      BY <2>2
    <3>2. RbdcFair(cra.slots, cra.wanted)
      BY <1>4 DEF RbdcFair
    <3> QED
      BY <1>2, <1>3, <1>4, <3>1, <3>2
  <2> QED
    BY <2>1, <2>2
<1> HIDE DEF rbdc
<1>6. /\ Accounts(vbdc) /\ ContextsOK(vbdc.ctx) /\ RbdcFair(vbdc.slots, vbdc.wanted)
      /\ \A t \in Terminals : vbdc.slots[t].fca = 0
      /\ ~enableVbdc => \A t \in Terminals : vbdc.ctx[t].vbdc = 0
      /\ vbdc.left > 0 => \A t \in Terminals : t \in usable => vbdc.ctx[t].vbdc = 0
  <2>1. CASE enableVbdc
    <3> DEFINE v == AllocateVbdc(rbdc)
    <3>1. vbdc = v
      BY <2>1
    <3>2. /\ Accounts(v) /\ ContextsOK(v.ctx) /\ v.wanted = rbdc.wanted
          /\ \A t \in Terminals : v.slots[t].fca = 0 /\ v.slots[t].rbdc = rbdc.slots[t].rbdc
          /\ v.left > 0 => \A t \in Terminals : t \in usable => v.ctx[t].vbdc = 0
      BY <1>5, VbdcPhase
    <3> HIDE DEF v
    <3>3. RbdcFair(v.slots, v.wanted)
      BY <1>5, <3>2, FairKept
    <3> QED
      BY <2>1, <3>1, <3>2, <3>3
  <2>2. CASE ~enableVbdc
    <3>1. vbdc = rbdc
      BY <2>2
    <3>2. \A t \in Terminals : rbdc.slots[t].fca = 0
      BY <1>5 DEF Unserved
    <3> QED
      BY <1>5, <2>2, <3>1, <3>2
  <2> QED
    BY <2>1, <2>2
<1> HIDE DEF vbdc
<1>7. /\ Accounts(fca) /\ fca.ctx = vbdc.ctx /\ RbdcFair(fca.slots, fca.wanted)
      /\ FcaGiven(fca.slots) + fca.left = vbdc.left
  <2>1. vbdc.ctx \in [Terminals -> Contexts]
    BY <1>6 DEF ContextsOK
  <2>2. /\ Accounts(fca) /\ fca.ctx = vbdc.ctx /\ fca.wanted = vbdc.wanted
        /\ \A t \in Terminals : fca.slots[t].rbdc = vbdc.slots[t].rbdc
        /\ FcaGiven(fca.slots) + fca.left = vbdc.left
    BY <1>6, <2>1, FcaPhase
  <2> HIDE DEF fca
  <2> QED
    BY <1>6, <2>2, FairKept
<1> HIDE DEF fca
<1>8. CASE ~none.ok
  <2>1. w = none
    BY <1>1, <1>8
  <2>2. RbdcFair(none.slots, none.wanted)
    BY <1>2 DEF RbdcFair, Nothing
  <2> QED
    BY <1>2, <1>8, <2>1, <2>2 DEF w
<1>9. CASE none.ok /\ ~cra.ok
  <2>1. w = cra
    BY <1>1, <1>9
  <2>2. RbdcFair(cra.slots, cra.wanted)
    BY <1>4 DEF RbdcFair
  <2> QED
    BY <1>2, <1>3, <1>4, <1>9, <2>1, <2>2 DEF w
<1>10. CASE none.ok /\ cra.ok
  <2>1. w = fca
    BY <1>1, <1>10
  <2> QED
    BY <1>6, <1>7, <2>1 DEF w
<1> QED
  BY <1>8, <1>9, <1>10

\* A terminal that logs on is the last of the category.
LEMMA AppendOrder ==
  ASSUME OrderOK, NEW t \in Terminals, t \notin Logged, order' = Append(order, t)
  PROVE  OrderOK' /\ Logged' = Logged \cup {t}
<1> DEFINE n == Len(order)
<1>1. order \in Seq(Terminals) /\ \A j, k \in 1..n : order[j] = order[k] => j = k
  BY DEF OrderOK, IsInjective
<1>2. /\ order' \in Seq(Terminals) /\ Len(order') = n + 1 /\ n \in Nat
      /\ \A k \in 1..n : order'[k] = order[k]
      /\ order'[n + 1] = t
  BY <1>1
<1>3. DOMAIN order = 1..n /\ DOMAIN order' = 1..(n + 1)
  BY <1>1, <1>2
<1>4. \A k \in 1..n : order[k] # t
  BY <1>3 DEF Logged, ToSet
<1> HIDE DEF n
<1>5. \A k \in 1..(n + 1) : k \in 1..n \/ k = n + 1
  BY <1>2
<1>6. IsInjective(order')
  <2> SUFFICES ASSUME NEW j \in 1..(n + 1), NEW k \in 1..(n + 1), order'[j] = order'[k]
               PROVE  j = k
    BY <1>3 DEF IsInjective
  <2> QED
    BY <1>1, <1>2, <1>4, <1>5
<1>7. n + 1 \in 1..(n + 1) /\ \A k \in 1..n : k \in 1..(n + 1)
  BY <1>2
<1>8. ToSet(order') = ToSet(order) \cup {t}
  BY <1>2, <1>3, <1>5, <1>7 DEF ToSet
<1> QED
  BY <1>2, <1>6, <1>8 DEF OrderOK, Logged

\* A terminal that logs off leaves the others in their order.
LEMMA RemoveOrder ==
  ASSUME OrderOK, NEW k \in DOMAIN order, order' = RemoveAt(order, k)
  PROVE  OrderOK' /\ Logged' = Logged \ {order[k]}
<1> DEFINE n == Len(order)
           at(j) == IF j < k THEN j ELSE j + 1
<1>1. /\ order \in Seq(Terminals) /\ n \in Nat /\ DOMAIN order = 1..n
      /\ \A i, j \in 1..n : order[i] = order[j] => i = j
  BY DEF OrderOK, IsInjective
<1>2. k \in 1..n
  BY <1>1
<1>3. /\ SubSeq(order, 1, k - 1) \in Seq(Terminals) /\ Len(SubSeq(order, 1, k - 1)) = k - 1
      /\ \A j \in 1..(k - 1) : SubSeq(order, 1, k - 1)[j] = order[j]
  BY <1>1, <1>2
<1>4. /\ SubSeq(order, k + 1, n) \in Seq(Terminals) /\ Len(SubSeq(order, k + 1, n)) = n - k
      /\ \A j \in 1..(n - k) : SubSeq(order, k + 1, n)[j] = order[k + j]
  BY <1>1, <1>2
<1>5. order' = SubSeq(order, 1, k - 1) \o SubSeq(order, k + 1, n)
  BY DEF RemoveAt
<1> HIDE DEF n
<1>6. /\ order' \in Seq(Terminals) /\ Len(order') = n - 1
      /\ \A j \in 1..(n - 1) : order'[j] = order[at(j)]
  <2> DEFINE p == SubSeq(order, 1, k - 1)
             q == SubSeq(order, k + 1, n)
  <2>1. /\ p \in Seq(Terminals) /\ q \in Seq(Terminals) /\ Len(p) = k - 1 /\ Len(q) = n - k
        /\ order' = p \o q
    BY <1>3, <1>4, <1>5
  <2>2. \A j \in 1..(k - 1) : p[j] = order[j]
    BY <1>3
  <2>3. \A j \in 1..(n - k) : q[j] = order[k + j]
    BY <1>4
  <2> HIDE DEF p, q
  <2>4. order' \in Seq(Terminals) /\ Len(order') = n - 1
    <3>1. p \in Seq(Terminals) /\ q \in Seq(Terminals)
      BY <2>1
    <3>2. p \o q \in Seq(Terminals) /\ Len(p \o q) = Len(p) + Len(q)
      BY ONLY <3>1
    <3> QED
      BY <1>1, <1>2, <2>1, <3>2
  <2>5. ASSUME NEW j \in 1..(n - 1)
        PROVE  order'[j] = order[at(j)]
    <3>1. CASE j < k
      <4>1. j \in 1..(k - 1)
        BY <1>2, <2>5, <3>1
      <4>2. order'[j] = p[j]
        BY <2>1, <4>1
      <4> QED
        BY <2>2, <3>1, <4>1, <4>2
    <3>2. CASE ~(j < k)
      <4>1. j - (k - 1) \in 1..(n - k) /\ k + (j - (k - 1)) = j + 1
        BY <1>1, <1>2, <2>5, <3>2
      <4>2. order'[j] = q[j - (k - 1)]
        BY <1>1, <1>2, <2>1, <2>5, <3>2
      <4> QED
        BY <2>3, <3>2, <4>1, <4>2
    <3> QED
      BY <3>1, <3>2
  <2> QED
    BY <2>4, <2>5
<1>7. DOMAIN order' = 1..(n - 1)
  BY <1>6
<1>8. \A j \in 1..(n - 1) : at(j) \in 1..n /\ at(j) # k
  BY <1>1, <1>2
<1>9. \A i, j \in 1..(n - 1) : at(i) = at(j) => i = j
  BY <1>1, <1>2
<1>10. \A i \in 1..n : i # k => \E j \in 1..(n - 1) : at(j) = i
  <2> TAKE i \in 1..n
  <2> HAVE i # k
  <2>1. CASE i < k
    <3>1. i \in 1..(n - 1) /\ at(i) = i
      BY <1>1, <1>2, <2>1
    <3> QED
      BY <3>1
  <2>2. CASE i > k
    <3>1. i - 1 \in 1..(n - 1) /\ at(i - 1) = i
      BY <1>1, <1>2, <2>2
    <3> QED
      BY <3>1
  <2> QED
    BY <1>1, <1>2, <2>1, <2>2
<1> HIDE DEF at
<1>11. IsInjective(order')
  <2> SUFFICES ASSUME NEW i \in 1..(n - 1), NEW j \in 1..(n - 1), order'[i] = order'[j]
               PROVE  i = j
    BY <1>7 DEF IsInjective
  <2> QED
    BY <1>1, <1>6, <1>8, <1>9
<1>12. ToSet(order') = ToSet(order) \ {order[k]}
  <2>1. ASSUME NEW x \in ToSet(order')
        PROVE  x \in ToSet(order) \ {order[k]}
    <3>1. PICK j \in 1..(n - 1) : x = order[at(j)]
      BY <1>6, <1>7, <2>1 DEF ToSet
    <3> QED
      BY <1>1, <1>2, <1>8, <3>1 DEF ToSet
  <2>2. ASSUME NEW x \in ToSet(order) \ {order[k]}
        PROVE  x \in ToSet(order')
    <3>1. PICK i \in 1..n : x = order[i]
      BY <1>1, <2>2 DEF ToSet
    <3>2. PICK j \in 1..(n - 1) : at(j) = i
      BY <1>10, <2>2, <3>1
    <3> QED
      BY <1>6, <1>7, <3>1, <3>2 DEF ToSet
  <2> QED
    BY <2>1, <2>2
<1> QED
  BY <1>6, <1>11, <1>12 DEF OrderOK, Logged

\* What the TTP says covers the slots, whatever was rounded on the way.
LEMMA AssignmentCovers ==
  ASSUME NEW w, Accounts(w), NEW t \in Terminals
  PROVE  /\ Assignment(t, w.alloc[t]) \in Nat
         /\ Total(w.slots[t]) * PacketBits * CodingNum
              <= Assignment(t, w.alloc[t]) * 1000 * CodingDen
<1> DEFINE s == w.slots[t]
           a == w.alloc[t]
           k == a.cra + a.rbdc + a.fca
           p == s.cra + s.rbdc + s.fca
           kb == PsToPf(k)
           x == Assignment(t, a)
<1>1. /\ s \in Kinds /\ a \in Kinds /\ Covered(s, a) /\ (t \notin usable => s = Nothing)
  BY DEF Accounts, Allocations
<1> HIDE DEF s, a
<1>2. /\ s.cra \in Nat /\ s.rbdc \in Nat /\ s.fca \in Nat /\ s.vbdc \in Nat
      /\ a.cra \in Nat /\ a.rbdc \in Nat /\ a.fca \in Nat /\ a.vbdc \in Nat
  BY <1>1 DEF Kinds
<1>3. /\ CoveredRate(s.cra, a.cra) /\ CoveredRate(s.rbdc, a.rbdc) /\ CoveredRate(s.fca, a.fca)
      /\ CoveredVolume(s.vbdc, a.vbdc)
  BY <1>1 DEF Covered
<1>4. CoveredRate(p, k)
  <2> DEFINE q == s.cra + s.rbdc
             m == a.cra + a.rbdc
  <2>1. CoveredRate(q, m) /\ q \in Nat /\ m \in Nat
    <3> DEFINE p1 == s.cra
               p2 == s.rbdc
               k1 == a.cra
               k2 == a.rbdc
    <3>1. /\ p1 \in Nat /\ p2 \in Nat /\ k1 \in Nat /\ k2 \in Nat
          /\ CoveredRate(p1, k1) /\ CoveredRate(p2, k2)
      BY <1>2, <1>3
    <3> HIDE DEF p1, p2, k1, k2
    <3>2. CoveredRate(p1 + p2, k1 + k2) /\ p1 + p2 \in Nat /\ k1 + k2 \in Nat
      BY <3>1, CoveredMore
    <3> QED
      BY <3>2 DEF p1, p2, k1, k2
  <2>2. p = q + s.fca /\ k = m + a.fca
    OBVIOUS
  <2> HIDE DEF p, q, k, m
  <2>3. CoveredRate(q + s.fca, m + a.fca)
    BY <1>2, <1>3, <2>1, CoveredMore
  <2> QED
    BY <2>2, <2>3
<1>5. k \in Nat /\ p \in Nat
  BY <1>2
<1> HIDE DEF k, p
<1>6. kb \in Nat /\ k * FrameDuration <= kb * 1000
  BY <1>5, RateFacts
<1> HIDE DEF kb
<1>7. p * PacketBits * CodingNum <= kb * 1000 * CodingDen
  <2> USE Units
  <2>1. k * FrameDuration * CodingDen <= kb * 1000 * CodingDen
    <3> DEFINE l == k * FrameDuration
               m == kb * 1000
    <3>1. l \in Nat /\ m \in Nat /\ l <= m
      BY <1>5, <1>6
    <3> HIDE DEF l, m
    <3>2. l * CodingDen <= m * CodingDen
      BY <3>1
    <3> QED
      BY <3>2 DEF l, m
  <2>2. p * PacketBits * CodingNum <= k * FrameDuration * CodingDen
    BY <1>4 DEF CoveredRate
  <2>3. /\ p * PacketBits * CodingNum \in Nat /\ k * FrameDuration * CodingDen \in Nat
        /\ kb * 1000 * CodingDen \in Nat
    BY <1>5, <1>6
  <2> QED
    BY <2>1, <2>2, <2>3
<1>8. s.vbdc * PacketBits * CodingNum <= a.vbdc * 1000 * CodingDen
  BY <1>3 DEF CoveredVolume
<1>9. CASE t \in usable
  <2> DEFINE c == PacketBits * CodingNum
             d == 1000 * CodingDen
             q == s.vbdc
             v == a.vbdc
  <2>1. c \in Nat /\ d \in Nat /\ q \in Nat /\ v \in Nat
    BY <1>2, Units
  <2>2. x = v + kb /\ Total(s) = p + q
    BY <1>2, <1>9 DEF Assignment, Total, kb, k, p
  <2>3. /\ p * PacketBits * CodingNum = p * c /\ q * PacketBits * CodingNum = q * c
        /\ kb * 1000 * CodingDen = kb * d /\ v * 1000 * CodingDen = v * d
        /\ (p + q) * PacketBits * CodingNum = (p + q) * c
        /\ (v + kb) * 1000 * CodingDen = (v + kb) * d
    BY <1>5, <1>6, <2>1, Units
  <2>4. p * c <= kb * d /\ q * c <= v * d
    BY <1>7, <1>8, <2>3
  <2> HIDE DEF c, d, q, v
  <2>5. (p + q) * c = p * c + q * c /\ (v + kb) * d = v * d + kb * d
    BY <1>5, <1>6, <2>1
  <2>6. p * c \in Nat /\ q * c \in Nat /\ kb * d \in Nat /\ v * d \in Nat
    BY <1>5, <1>6, <2>1
  <2>7. (p + q) * c <= (v + kb) * d
    BY <2>4, <2>5, <2>6
  <2>8. v + kb \in Nat
    BY <1>6, <2>1
  <2> HIDE DEF x
  <2>9. x \in Nat /\ Total(s) * PacketBits * CodingNum <= x * 1000 * CodingDen
    <3>1. (p + q) * PacketBits * CodingNum <= (v + kb) * 1000 * CodingDen
      BY <2>3, <2>7
    <3> QED
      BY <2>2, <2>8, <3>1
  <2> QED
    BY <2>9 DEF s, a, x
<1>10. CASE t \notin usable
  <2>1. x = 0 /\ s = Nothing
    BY <1>1, <1>10 DEF Assignment
  <2>2. Total(s) = 0
    BY <2>1 DEF Total, Nothing
  <2>3. 0 * PacketBits * CodingNum = 0 /\ 0 * 1000 * CodingDen = 0
    BY Units
  <2> QED
    BY <2>1, <2>2, <2>3 DEF s, a
<1> QED
  BY <1>9, <1>10

-----------------------------------------------------------------------------
(* The invariant. *)

\* What is known of what a superframe gave.
FrameOK(f) ==
  /\ f.slots \in [Terminals -> Kinds] /\ f.wanted \in [Terminals -> Nat]
  /\ f.ttp \in [Terminals -> Nat] /\ f.left \in Nat
  /\ f.outcome \in {"none", "done", "aborted", "hung"}
  /\ Given(f.slots) + f.left = Capacity
  /\ RbdcFair(f.slots, f.wanted)
  /\ \A t \in Terminals :
       Total(f.slots[t]) * PacketBits * CodingNum <= f.ttp[t] * 1000 * CodingDen

\* What is left, or went to the FCA, was wanted as volume by nobody who could use it.
VolumesServed ==
  frame.outcome \in {"done", "hung"} /\ FcaGiven(frame.slots) + frame.left > 0
    => \A t \in Terminals : t \in usable => ctx[t].vbdc = 0

\* The inductive invariant.
DamaInv ==
  /\ OrderOK
  /\ ContextsOK(ctx)
  /\ usable \subseteq Terminals /\ enableRbdc \in BOOLEAN /\ enableVbdc \in BOOLEAN
  /\ ~enableVbdc => \A t \in Terminals : ctx[t].vbdc = 0
  /\ FrameOK(frame)
  /\ VolumesServed

\* Between superframes nothing is given.
LEMMA NoFrameFacts == FrameOK(NoFrame) /\ NoFrame.outcome = "none"
<1> DEFINE none == [t \in Terminals |-> Nothing]
           zero == [t \in Terminals |-> 0]
<1>1. Nothing \in Kinds /\ Total(Nothing) = 0 /\ Nothing.rbdc = 0
  BY DEF Nothing, Kinds, Total
<1>2. /\ NoFrame.slots = none /\ NoFrame.wanted = zero /\ NoFrame.left = Capacity
      /\ NoFrame.ttp = zero /\ NoFrame.outcome = "none"
  BY DEF NoFrame
<1>3. /\ none \in [Terminals -> Kinds] /\ \A t \in Terminals : none[t] = Nothing
      /\ zero \in [Terminals -> Nat] /\ \A t \in Terminals : zero[t] = 0
  BY <1>1
<1> HIDE DEF none, zero
<1>4. Given(none) = 0
  <2> DEFINE f == [t \in Terminals |-> Total(none[t])]
  <2>1. \A t \in Terminals : f[t] = 0
    BY <1>1, <1>3
  <2> HIDE DEF f
  <2>2. SumFunctionOnSet(f, Terminals) = 0
    BY <2>1, FiniteTerminals, SumOfZeros
  <2> QED
    BY <2>2 DEF f, Given
<1>5. RbdcFair(none, zero)
  BY <1>1, <1>3 DEF RbdcFair
<1>6. 0 * PacketBits * CodingNum <= 0 * 1000 * CodingDen
  BY Units
<1>7. \A t \in Terminals :
        Total(none[t]) * PacketBits * CodingNum <= zero[t] * 1000 * CodingDen
  BY <1>1, <1>3, <1>6
<1> QED
  BY <1>2, <1>3, <1>4, <1>5, <1>7, Units DEF FrameOK

\* The contexts are as they should be when only that of t changes.
LEMMA ContextChanges ==
  ASSUME ContextsOK(ctx), NEW t \in Terminals, NEW c \in Contexts,
         ctx' = [ctx EXCEPT ![t] = c], Logged' \subseteq Logged \cup {t},
         Logged \ {t} \subseteq Logged',
         c.credit > 0 => c.rbdc > 0, c.maxRbdc = 0 => c.rbdc = 0,
         t \notin Logged' => c = Off
  PROVE  ContextsOK(ctx)' /\ \A u \in Terminals : ctx'[u] = IF u = t THEN c ELSE ctx[u]
<1>1. ctx \in [Terminals -> Contexts]
  BY DEF ContextsOK
<1>2. ctx' \in [Terminals -> Contexts] /\ \A u \in Terminals : ctx'[u] = IF u = t THEN c ELSE ctx[u]
  BY <1>1
<1>3. ASSUME NEW u \in Terminals
      PROVE  /\ ctx'[u].credit > 0 => ctx'[u].rbdc > 0
             /\ ctx'[u].maxRbdc = 0 => ctx'[u].rbdc = 0
             /\ u \notin Logged' => ctx'[u] = Off
  <2>1. CASE u = t
    BY <1>2, <2>1
  <2>2. CASE u # t
    <3>1. ctx'[u] = ctx[u] /\ (u \notin Logged' => u \notin Logged)
      BY <1>2, <2>2
    <3> QED
      BY <3>1 DEF ContextsOK
  <2> QED
    BY <2>1, <2>2
<1> QED
  BY <1>2, <1>3 DEF ContextsOK

\* It holds at the start.
LEMMA DamaInit == Init => DamaInv
<1> SUFFICES ASSUME Init
             PROVE  DamaInv
  OBVIOUS
<1>1. order = <<>> /\ ctx = [t \in Terminals |-> Off] /\ usable = Terminals
  BY DEF Init
<1>2. OrderOK
  BY <1>1 DEF OrderOK, IsInjective
<1>3. ContextsOK(ctx)
  BY <1>1, OffFacts DEF ContextsOK
<1>4. enableRbdc \in BOOLEAN /\ enableVbdc \in BOOLEAN /\ frame = NoFrame
  BY DEF Init
<1>5. \A t \in Terminals : ctx[t].vbdc = 0
  BY <1>1, OffFacts
<1>6. FrameOK(frame) /\ VolumesServed
  BY <1>4, NoFrameFacts DEF VolumesServed
<1> QED
  BY <1>1, <1>2, <1>3, <1>4, <1>5, <1>6 DEF DamaInv

\* What a request of a rate does to the context of a terminal.
LEMMA RequireRbdcFacts ==
  ASSUME NEW c \in Contexts, NEW kbps \in Nat, NEW timeout \in Nat
  PROVE  LET r == RequireRbdc(c, kbps, timeout)
         IN  /\ r \in Contexts /\ r.credit = 0 /\ r.vbdc = c.vbdc
             /\ r.maxRbdc = 0 => r.rbdc = 0
<1>1. Smaller(kbps, c.maxRbdc) \in Nat /\ (c.maxRbdc = 0 => Smaller(kbps, c.maxRbdc) = 0)
  BY DEF Smaller, Contexts
<1> QED
  BY <1>1 DEF RequireRbdc, Contexts

\* What a request of a volume does to it.
LEMMA RequireVbdcFacts ==
  ASSUME NEW c \in Contexts, NEW kb \in Nat
  PROVE  LET r == RequireVbdc(c, kb)
         IN  /\ r \in Contexts /\ r.credit = c.credit /\ r.rbdc = c.rbdc /\ r.maxRbdc = c.maxRbdc
<1>1. Smaller(c.vbdc + kb, c.maxVbdc) \in Nat
  BY DEF Smaller, Contexts
<1> QED
  BY <1>1 DEF RequireVbdc, Contexts

\* A logon keeps the invariant.
LEMMA LogonStep ==
  ASSUME DamaInv, NEW t \in Terminals, NEW contract \in Contracts, Logon(t, contract)
  PROVE  DamaInv'
<1> DEFINE c == Context(contract)
<1>1. contract \in [cra : Nat, maxRbdc : Nat, maxVbdc : Nat]
  BY RequestsAssumption
<1>2. c \in Contexts /\ c.credit = 0 /\ c.rbdc = 0 /\ c.vbdc = 0
  BY <1>1 DEF Context, Contexts
<1>3. /\ frame' = NoFrame /\ order' = Append(order, t) /\ t \notin Logged
      /\ ctx' = [ctx EXCEPT ![t] = c] /\ UNCHANGED <<usable, enableRbdc, enableVbdc>>
  BY DEF Logon, Between
<1> HIDE DEF c
<1>4. OrderOK' /\ Logged' = Logged \cup {t}
  BY <1>3, AppendOrder DEF DamaInv
<1>5. ContextsOK(ctx)' /\ \A u \in Terminals : ctx'[u] = IF u = t THEN c ELSE ctx[u]
  BY <1>2, <1>3, <1>4, ContextChanges DEF DamaInv
<1>6. FrameOK(frame)' /\ VolumesServed'
  BY <1>3, NoFrameFacts DEF VolumesServed, FrameOK, NoFrame
<1> QED
  BY <1>2, <1>3, <1>4, <1>5, <1>6 DEF DamaInv

\* A logoff keeps it.
LEMMA LogoffStep ==
  ASSUME DamaInv, NEW t \in Terminals, Logoff(t)
  PROVE  DamaInv'
<1>1. PICK k \in DOMAIN order : order[k] = t /\ order' = RemoveAt(order, k)
  BY DEF Logoff
<1>2. /\ frame' = NoFrame /\ ctx' = [ctx EXCEPT ![t] = Off]
      /\ UNCHANGED <<usable, enableRbdc, enableVbdc>>
  BY DEF Logoff, Between
<1>3. OrderOK' /\ Logged' = Logged \ {t}
  BY <1>1, RemoveOrder DEF DamaInv
<1>4. ContextsOK(ctx)' /\ \A u \in Terminals : ctx'[u] = IF u = t THEN Off ELSE ctx[u]
  <2>1. Off.credit = 0 /\ Off.rbdc = 0 /\ Off \in Contexts
    BY OffFacts
  <2> QED
    BY <1>2, <1>3, <2>1, ContextChanges DEF DamaInv
<1>5. FrameOK(frame)' /\ VolumesServed'
  BY <1>2, NoFrameFacts DEF VolumesServed, FrameOK, NoFrame
<1> QED
  BY <1>2, <1>3, <1>4, <1>5, OffFacts DEF DamaInv

\* A request of a rate keeps it.
LEMMA SacRbdcStep ==
  ASSUME DamaInv, NEW t \in Terminals, NEW kbps \in RbdcRequests, SacRbdc(t, kbps)
  PROVE  DamaInv'
<1> DEFINE asked == Larger(kbps - ctx[t].cra, 0)
           c == RequireRbdc(ctx[t], asked, RbdcTimeout)
<1>1. ctx[t] \in Contexts
  BY DEF DamaInv, ContextsOK
<1>2. asked \in Nat
  BY <1>1, RequestsAssumption DEF Larger, Contexts
<1>3. /\ frame' = NoFrame /\ order' = order /\ enableRbdc' = TRUE
      /\ UNCHANGED <<usable, enableVbdc>> /\ t \in Logged
  BY DEF SacRbdc, Between
<1>4. ctx' = [ctx EXCEPT ![t] = c]
  BY <1>1 DEF SacRbdc, DamaInv, ContextsOK
<1> HIDE DEF asked
<1>5. c \in Contexts /\ c.credit = 0 /\ (c.maxRbdc = 0 => c.rbdc = 0) /\ c.vbdc = ctx[t].vbdc
  BY <1>1, <1>2, RequireRbdcFacts, RequestsAssumption
<1> HIDE DEF c
<1>6. c.credit > 0 => c.rbdc > 0
  BY <1>5
<1>7. OrderOK' /\ Logged' = Logged
  BY <1>3 DEF DamaInv, OrderOK, Logged
<1>8. ContextsOK(ctx)' /\ \A u \in Terminals : ctx'[u] = IF u = t THEN c ELSE ctx[u]
  BY <1>3, <1>4, <1>5, <1>7, <1>6, ContextChanges DEF DamaInv
<1>9. FrameOK(frame)' /\ VolumesServed'
  BY <1>3, NoFrameFacts DEF VolumesServed, FrameOK, NoFrame
<1> QED
  BY <1>3, <1>5, <1>7, <1>8, <1>9 DEF DamaInv

\* A request of a volume keeps it: enable_vbdc is set.
LEMMA SacVbdcStep ==
  ASSUME DamaInv, NEW t \in Terminals, NEW kb \in VbdcRequests, SacVbdc(t, kb)
  PROVE  DamaInv'
<1> DEFINE asked == Smaller(kb, ctx[t].maxVbdc)
           c == RequireVbdc(ctx[t], asked)
<1>1. /\ ctx[t] \in Contexts /\ (ctx[t].credit > 0 => ctx[t].rbdc > 0)
      /\ ctx[t].maxRbdc = 0 => ctx[t].rbdc = 0
  BY DEF DamaInv, ContextsOK
<1>2. asked \in Nat
  BY <1>1, RequestsAssumption DEF Smaller, Contexts
<1>3. /\ frame' = NoFrame /\ order' = order /\ enableVbdc' = TRUE
      /\ UNCHANGED <<usable, enableRbdc>> /\ t \in Logged
  BY DEF SacVbdc, Between
<1>4. ctx' = [ctx EXCEPT ![t] = c]
  BY <1>1 DEF SacVbdc, DamaInv, ContextsOK
<1> HIDE DEF asked
<1>5. c \in Contexts /\ c.credit = ctx[t].credit /\ c.maxRbdc = ctx[t].maxRbdc /\ c.rbdc = ctx[t].rbdc
  BY <1>1, <1>2, RequireVbdcFacts
<1> HIDE DEF c
<1>6. OrderOK' /\ Logged' = Logged
  BY <1>3 DEF DamaInv, OrderOK, Logged
<1>7. ContextsOK(ctx)'
  BY <1>1, <1>3, <1>4, <1>5, <1>6, ContextChanges DEF DamaInv
<1>8. FrameOK(frame)' /\ VolumesServed'
  BY <1>3, NoFrameFacts DEF VolumesServed, FrameOK, NoFrame
<1> QED
  BY <1>3, <1>6, <1>7, <1>8 DEF DamaInv

\* A command of the PEP keeps it: a maximum of 0 is only one that was 0.
LEMMA PepStep ==
  ASSUME DamaInv, NEW t \in Terminals, NEW command \in PepCommands, ApplyPepCommand(t, command)
  PROVE  DamaInv'
<1> DEFINE cra == IF command.cra = 0 THEN ctx[t].cra ELSE command.cra
           max == IF command.maxRbdc = 0 THEN ctx[t].maxRbdc ELSE command.maxRbdc
           b == [ctx[t] EXCEPT !.cra = cra, !.maxRbdc = max]
           c == IF command.rbdc = 0 THEN b ELSE RequireRbdc(b, command.rbdc, PepTimeout)
<1>1. /\ ctx[t] \in Contexts /\ (ctx[t].credit > 0 => ctx[t].rbdc > 0)
      /\ ctx[t].maxRbdc = 0 => ctx[t].rbdc = 0
      /\ command \in [cra : Nat, maxRbdc : Nat, rbdc : Nat]
  BY RequestsAssumption DEF DamaInv, ContextsOK
<1>2. cra \in Nat /\ max \in Nat /\ (max = 0 => ctx[t].maxRbdc = 0)
  BY <1>1 DEF Contexts
<1>3. /\ frame' = NoFrame /\ order' = order /\ UNCHANGED <<usable, enableRbdc, enableVbdc>>
      /\ t \in Logged /\ ctx' = [ctx EXCEPT ![t] = c]
  BY DEF ApplyPepCommand, Between
<1> HIDE DEF cra, max
<1>4. /\ b \in Contexts /\ b.credit = ctx[t].credit /\ b.rbdc = ctx[t].rbdc /\ b.maxRbdc = max
      /\ b.vbdc = ctx[t].vbdc
  BY <1>1, <1>2 DEF Contexts
<1> HIDE DEF b
<1>5. /\ c \in Contexts /\ (c.credit > 0 => c.rbdc > 0) /\ (c.maxRbdc = 0 => c.rbdc = 0)
      /\ c.vbdc = ctx[t].vbdc
  <2>1. CASE command.rbdc = 0
    BY <1>1, <1>2, <1>4, <2>1
  <2>2. CASE command.rbdc # 0
    <3> DEFINE r == RequireRbdc(b, command.rbdc, PepTimeout)
    <3>1. r \in Contexts /\ r.credit = 0 /\ (r.maxRbdc = 0 => r.rbdc = 0) /\ r.vbdc = b.vbdc
      BY <1>1, <1>4, RequireRbdcFacts, RequestsAssumption
    <3>2. c = r
      BY <2>2
    <3> HIDE DEF c, r
    <3> QED
      BY <1>4, <3>1, <3>2
  <2> QED
    BY <2>1, <2>2
<1> HIDE DEF c
<1>6. OrderOK' /\ Logged' = Logged
  BY <1>3 DEF DamaInv, OrderOK, Logged
<1>7. ContextsOK(ctx)' /\ \A u \in Terminals : ctx'[u] = IF u = t THEN c ELSE ctx[u]
  BY <1>3, <1>5, <1>6, ContextChanges DEF DamaInv
<1>8. FrameOK(frame)' /\ VolumesServed'
  BY <1>3, NoFrameFacts DEF VolumesServed, FrameOK, NoFrame
<1> QED
  BY <1>3, <1>5, <1>6, <1>7, <1>8 DEF DamaInv

\* A change of a waveform keeps it.
LEMMA LinkStep ==
  ASSUME DamaInv, NEW t \in Terminals, LinkChanges(t)
  PROVE  DamaInv'
<1>1. /\ frame' = NoFrame /\ order' = order /\ ctx' = ctx /\ UNCHANGED <<enableRbdc, enableVbdc>>
      /\ usable' \subseteq Terminals
  BY DEF LinkChanges, Between, DamaInv
<1>2. OrderOK' /\ ContextsOK(ctx)'
  BY <1>1 DEF DamaInv, OrderOK, ContextsOK, Logged
<1>3. FrameOK(frame)' /\ VolumesServed'
  BY <1>1, NoFrameFacts DEF VolumesServed, FrameOK, NoFrame
<1> QED
  BY <1>1, <1>2, <1>3 DEF DamaInv

\* A superframe makes it, whatever the last one gave.
LEMMA SuperFrameStep ==
  ASSUME DamaInv, SuperFrame
  PROVE  DamaInv'
<1> DEFINE w == Allocation
           ttp == [t \in Terminals |-> Assignment(t, w.alloc[t])]
           outcome == IF w.hung THEN "hung" ELSE IF w.ok THEN "done" ELSE "aborted"
<1>1. /\ ctx' = w.ctx
      /\ frame' = [slots |-> w.slots, wanted |-> w.wanted, left |-> w.left,
                   ttp |-> ttp, outcome |-> outcome]
      /\ UNCHANGED <<order, usable, enableRbdc, enableVbdc>>
  BY DEF SuperFrame
<1>2. /\ Accounts(w) /\ ContextsOK(w.ctx) /\ RbdcFair(w.slots, w.wanted)
      /\ ~enableVbdc => \A t \in Terminals : w.ctx[t].vbdc = 0
      /\ (w.hung \/ w.ok) /\ FcaGiven(w.slots) + w.left > 0
           => \A t \in Terminals : t \in usable => w.ctx[t].vbdc = 0
  BY AllocationFacts DEF DamaInv
<1> HIDE DEF w
<1>3. /\ w.slots \in [Terminals -> Kinds] /\ w.wanted \in [Terminals -> Nat] /\ w.left \in Nat
      /\ w.hung \in BOOLEAN /\ w.ok \in BOOLEAN
  BY <1>2 DEF Accounts, Allocations
<1>4. ttp \in [Terminals -> Nat]
      /\ \A t \in Terminals :
           Total(w.slots[t]) * PacketBits * CodingNum <= ttp[t] * 1000 * CodingDen
  <2>1. \A t \in Terminals :
          /\ Assignment(t, w.alloc[t]) \in Nat
          /\ Total(w.slots[t]) * PacketBits * CodingNum
               <= Assignment(t, w.alloc[t]) * 1000 * CodingDen
    BY <1>2, AssignmentCovers
  <2>2. \A t \in Terminals : ttp[t] = Assignment(t, w.alloc[t])
    OBVIOUS
  <2>3. ttp \in [Terminals -> Nat]
    BY <2>1
  <2> HIDE DEF ttp
  <2> QED
    BY <2>1, <2>2, <2>3
<1>5. outcome \in {"none", "done", "aborted", "hung"} /\ (outcome \in {"done", "hung"} => w.hung \/ w.ok)
  BY <1>3
<1> HIDE DEF ttp, outcome
<1>6. /\ frame'.slots = w.slots /\ frame'.wanted = w.wanted /\ frame'.left = w.left
      /\ frame'.ttp = ttp /\ frame'.outcome = outcome
  BY <1>1
<1>7. Given(w.slots) + w.left = Capacity
  BY <1>2 DEF Accounts
<1>8. FrameOK(frame)'
  BY <1>2, <1>3, <1>4, <1>5, <1>6, <1>7 DEF FrameOK
<1>9. VolumesServed'
  BY <1>1, <1>2, <1>5, <1>6 DEF VolumesServed
<1>10. OrderOK' /\ ContextsOK(ctx)'
  BY <1>1, <1>2 DEF DamaInv, OrderOK, ContextsOK, Logged
<1> QED
  BY <1>1, <1>2, <1>8, <1>9, <1>10 DEF DamaInv

\* So every step keeps it.
LEMMA DamaNext == DamaInv /\ [Next]_vars => DamaInv'
<1> SUFFICES ASSUME DamaInv, [Next]_vars
             PROVE  DamaInv'
  OBVIOUS
<1>1. CASE Requests
  BY <1>1, LogonStep, LogoffStep, SacRbdcStep, SacVbdcStep, PepStep DEF Requests
<1>2. CASE SuperFrame
  BY <1>2, SuperFrameStep
<1>3. CASE \E t \in Terminals : LinkChanges(t)
  BY <1>3, LinkStep
<1>4. CASE UNCHANGED vars
  <2>1. UNCHANGED <<order, ctx, usable, enableRbdc, enableVbdc, frame>>
    BY <1>4 DEF vars
  <2>2. OrderOK' /\ ContextsOK(ctx)' /\ FrameOK(frame)' /\ VolumesServed'
    BY <2>1 DEF DamaInv, OrderOK, ContextsOK, Logged, FrameOK, VolumesServed
  <2> QED
    BY <2>1, <2>2 DEF DamaInv
<1> QED
  BY <1>1, <1>2, <1>3, <1>4 DEF Next

\* DamaInv holds in every state.
LEMMA DamaInvariant == Spec => []DamaInv
BY DamaInit, DamaNext, PTL DEF Spec

-----------------------------------------------------------------------------
(* The theorems. *)

\* What a terminal has, summed over the kinds, and over some of them.
LEMMA KindsSum ==
  ASSUME NEW s \in Kinds
  PROVE  /\ SumFunction(s) = Total(s)
         /\ \A kinds \in SUBSET DOMAIN Nothing :
              SumFunctionOnSet(s, kinds) \in Nat /\ SumFunctionOnSet(s, kinds) <= Total(s)
<1> DEFINE D == {"cra", "rbdc", "vbdc", "fca"}
           Sum(S) == SumFunctionOnSet(s, S)
<1>1. DOMAIN s = D /\ DOMAIN Nothing = D
  BY DEF Kinds, Nothing
<1>2. IsFiniteSet(D)
  <2>1. IsFiniteSet({"cra"})
    BY FS_Singleton
  <2>2. IsFiniteSet({"cra"} \cup {"rbdc"})
    BY <2>1, FS_AddElement
  <2>3. IsFiniteSet(({"cra"} \cup {"rbdc"}) \cup {"vbdc"})
    BY <2>2, FS_AddElement
  <2>4. IsFiniteSet((({"cra"} \cup {"rbdc"}) \cup {"vbdc"}) \cup {"fca"})
    BY <2>3, FS_AddElement
  <2>5. D = (({"cra"} \cup {"rbdc"}) \cup {"vbdc"}) \cup {"fca"}
    OBVIOUS
  <2> QED
    BY <2>4, <2>5
<1>3. /\ s["cra"] = s.cra /\ s["rbdc"] = s.rbdc /\ s["vbdc"] = s.vbdc /\ s["fca"] = s.fca
      /\ s.cra \in Nat /\ s.rbdc \in Nat /\ s.vbdc \in Nat /\ s.fca \in Nat
  BY DEF Kinds
<1>4. \A x \in D : s[x] \in Nat
  BY <1>3
<1>5. \A S \in SUBSET D : IsFiniteSet(S)
  BY <1>2, FS_Subset
<1>6. ASSUME NEW S \in SUBSET D
      PROVE  Sum(S) \in Nat /\ \A x \in S : Sum(S) = s[x] + Sum(S \ {x})
  <2>1. IsFiniteSet(S) /\ \A x \in S : s[x] \in Nat
    BY <1>4, <1>5
  <2> QED
    BY <2>1, SumOfSet
<1>7. Sum({}) = 0
  BY SumOfEmpty
<1> HIDE DEF Sum
<1>8. Sum(D) = Total(s)
  <2>1. Sum(D) = s["cra"] + Sum({"rbdc", "vbdc", "fca"})
    <3> D \ {"cra"} = {"rbdc", "vbdc", "fca"}
      OBVIOUS
    <3> QED
      BY <1>6
  <2>2. Sum({"rbdc", "vbdc", "fca"}) = s["rbdc"] + Sum({"vbdc", "fca"})
    <3> {"rbdc", "vbdc", "fca"} \ {"rbdc"} = {"vbdc", "fca"} /\ {"rbdc", "vbdc", "fca"} \in SUBSET D
      OBVIOUS
    <3> QED
      BY <1>6
  <2>3. Sum({"vbdc", "fca"}) = s["vbdc"] + Sum({"fca"})
    <3> {"vbdc", "fca"} \ {"vbdc"} = {"fca"} /\ {"vbdc", "fca"} \in SUBSET D
      OBVIOUS
    <3> QED
      BY <1>6
  <2>4. Sum({"fca"}) = s["fca"] + Sum({})
    <3> {"fca"} \ {"fca"} = {} /\ {"fca"} \in SUBSET D
      OBVIOUS
    <3> QED
      BY <1>6
  <2> QED
    BY <1>3, <1>7, <2>1, <2>2, <2>3, <2>4 DEF Total
<1>9. \A S \in SUBSET D : Sum(S) <= Sum(D)
  BY <1>2, <1>4, SumOfPart DEF Sum
<1>10. SumFunction(s) = Sum(D)
  BY <1>1 DEF SumFunction, Sum
<1> HIDE DEF D
<1> QED
  BY <1>1, <1>6, <1>8, <1>9, <1>10 DEF Sum

\* The types are part of it.
LEMMA TypeHolds == DamaInv => TypeOK
<1> SUFFICES ASSUME DamaInv
             PROVE  TypeOK
  OBVIOUS
<1>1. IsInjective(order) /\ Logged \subseteq Terminals
  BY DEF DamaInv, OrderOK, Logged, ToSet
<1>2. ASSUME NEW t \in Terminals
      PROVE  /\ DOMAIN ctx[t] = DOMAIN Off
             /\ \A field \in DOMAIN Off : ctx[t][field] \in Nat
             /\ t \notin Logged => ctx[t] = Off
             /\ \A kind \in DOMAIN Nothing : frame.slots[t][kind] \in Nat
             /\ frame.ttp[t] \in Nat
  <2> DEFINE c == ctx[t]
             s == frame.slots[t]
  <2>1. c \in Contexts /\ s \in Kinds /\ frame.ttp[t] \in Nat /\ (t \notin Logged => c = Off)
    BY DEF DamaInv, ContextsOK, FrameOK
  <2> HIDE DEF c, s
  <2>2. DOMAIN c = {"cra", "maxRbdc", "maxVbdc", "timer", "rbdc", "credit", "vbdc"}
    BY <2>1 DEF Contexts
  <2>3. DOMAIN Off = {"cra", "maxRbdc", "maxVbdc", "timer", "rbdc", "credit", "vbdc"}
    BY DEF Off, Context
  <2>4. \A field \in DOMAIN Off : c[field] \in Nat
    <3>1. /\ c["cra"] \in Nat /\ c["maxRbdc"] \in Nat /\ c["maxVbdc"] \in Nat /\ c["timer"] \in Nat
          /\ c["rbdc"] \in Nat /\ c["credit"] \in Nat /\ c["vbdc"] \in Nat
      BY <2>1 DEF Contexts
    <3> QED
      BY <2>3, <3>1
  <2>5. \A kind \in DOMAIN Nothing : s[kind] \in Nat
    <3>1. DOMAIN Nothing = {"cra", "rbdc", "vbdc", "fca"}
      BY DEF Nothing
    <3>2. s["cra"] \in Nat /\ s["rbdc"] \in Nat /\ s["vbdc"] \in Nat /\ s["fca"] \in Nat
      BY <2>1 DEF Kinds
    <3> QED
      BY <3>1, <3>2
  <2> QED
    BY <2>1, <2>2, <2>3, <2>4, <2>5 DEF c, s
<1> QED
  BY <1>1, <1>2 DEF TypeOK, DamaInv, FrameOK

\* The contexts, the order and what a superframe gave have their types: no count,
\* unsigned in the code, goes below 0.
THEOREM TypeCorrect == Spec => []TypeOK
BY DamaInvariant, TypeHolds, PTL

\* The slots of the carrier are given once, whichever of the four allocations are
\* added, for every number of terminals, capacity, contract and request.
THEOREM SlotsAreGivenOnce == Spec => []SlotsWithinCapacity
<1>1. DamaInv => SlotsWithinCapacity
  <2> SUFFICES ASSUME DamaInv, NEW kinds \in SUBSET DOMAIN Nothing
               PROVE  SumFunction([t \in Terminals |-> SumFunctionOnSet(frame.slots[t], kinds)]) <= Capacity
    BY TypeHolds DEF SlotsWithinCapacity
  <2> DEFINE f == [t \in Terminals |-> SumFunctionOnSet(frame.slots[t], kinds)]
             g == [t \in Terminals |-> Total(frame.slots[t])]
  <2>1. \A t \in Terminals : f[t] \in Nat /\ g[t] \in Nat /\ f[t] <= g[t]
    <3> TAKE t \in Terminals
    <3>1. frame.slots[t] \in Kinds
      BY DEF DamaInv, FrameOK
    <3> QED
      BY <3>1, KindsSum, TotalNat
  <2>2. Given(frame.slots) = SumFunctionOnSet(g, Terminals) /\ SumFunction(f) = SumFunctionOnSet(f, Terminals)
    BY DEF Given, SumFunction
  <2> HIDE DEF f, g
  <2>3. SumFunctionOnSet(f, Terminals) <= SumFunctionOnSet(g, Terminals)
    <3>1. \A t \in Terminals : f[t] \in Nat /\ g[t] \in Nat /\ 1 * f[t] <= 1 * g[t]
      BY <2>1
    <3>2. 1 * SumFunctionOnSet(f, Terminals) <= 1 * SumFunctionOnSet(g, Terminals)
      BY <3>1, FiniteTerminals, SumScaled
    <3>3. SumFunctionOnSet(f, Terminals) \in Nat /\ SumFunctionOnSet(g, Terminals) \in Nat
      BY <2>1, FiniteTerminals, SumOfSet
    <3> QED
      BY <3>2, <3>3
  <2>4. /\ SumFunctionOnSet(g, Terminals) + frame.left = Capacity /\ frame.left \in Nat
        /\ SumFunctionOnSet(g, Terminals) \in Nat /\ SumFunctionOnSet(f, Terminals) \in Nat
    BY <2>1, <2>2, FiniteTerminals, SumOfSet DEF DamaInv, FrameOK
  <2>5. SumFunction(f) <= Capacity
    BY <2>2, <2>3, <2>4, Units
  <2> QED
    BY <2>5 DEF f
<1> QED
  BY <1>1, DamaInvariant, PTL

\* The second step of the RBDC allocation, which spends credit of earlier requests, never
\* takes a terminal beyond what its request of this superframe is worth.
THEOREM RequestsAreNotExceeded == Spec => []RbdcWithinRequest
<1>1. DamaInv => RbdcWithinRequest
  BY DEF DamaInv, FrameOK, RbdcFair, RbdcWithinRequest
<1> QED
  BY <1>1, DamaInvariant, PTL

\* Requests worth the same get the same up to one slot, wherever the terminals are in
\* the category and whatever credit they have.
THEOREM SharesAreFair == Spec => []EqualRequestsEqualShares
<1>1. DamaInv => EqualRequestsEqualShares
  BY DEF DamaInv, FrameOK, RbdcFair, EqualRequestsEqualShares
<1> QED
  BY <1>1, DamaInvariant, PTL

\* Slots are left, or go to the FCA, only when no volume waits for a terminal that
\* could use them.
THEOREM VolumesComeFirst == Spec => []LeftMeansServed
<1>1. DamaInv => LeftMeansServed
  <2> SUFFICES ASSUME DamaInv
               PROVE  LeftMeansServed
    OBVIOUS
  <2>1. SumFunction([t \in Terminals |-> frame.slots[t].fca]) = FcaGiven(frame.slots)
    BY DEF SumFunction, FcaGiven
  <2>2. FcaGiven(frame.slots) \in Nat /\ frame.left \in Nat
    <3> DEFINE f == [t \in Terminals |-> frame.slots[t].fca]
    <3>1. \A t \in Terminals : f[t] \in Nat
      BY DEF DamaInv, FrameOK, Kinds
    <3> HIDE DEF f
    <3>2. SumFunctionOnSet(f, Terminals) \in Nat
      BY <3>1, FiniteTerminals, SumOfSet
    <3> QED
      BY <3>2 DEF f, FcaGiven, DamaInv, FrameOK
  <2> HIDE DEF FcaGiven
  <2> QED
    BY <2>1, <2>2 DEF DamaInv, VolumesServed, LeftMeansServed
<1> QED
  BY <1>1, DamaInvariant, PTL

\* The volume in the TTP covers every slot taken for the terminal: the conversions,
\* each with its own rounding, together never round against it.
THEOREM AssignmentsCoverSlots == Spec => []AssignmentCoversSlots
<1>1. DamaInv => AssignmentCoversSlots
  <2> SUFFICES ASSUME DamaInv, NEW t \in Terminals
               PROVE  frame.ttp[t] * 1000 * CodingDen >= GivenTo(t) * PacketBits * CodingNum
    BY DEF AssignmentCoversSlots
  <2>1. frame.slots[t] \in Kinds /\ frame.ttp[t] \in Nat
    BY DEF DamaInv, FrameOK
  <2>2. GivenTo(t) = Total(frame.slots[t])
    BY <2>1, KindsSum DEF GivenTo
  <2>3. Total(frame.slots[t]) * PacketBits * CodingNum <= frame.ttp[t] * 1000 * CodingDen
    BY DEF DamaInv, FrameOK
  <2>4. Total(frame.slots[t]) * PacketBits * CodingNum \in Nat /\ frame.ttp[t] * 1000 * CodingDen \in Nat
    BY <2>1, TotalNat, Units
  <2> QED
    BY <2>2, <2>3, <2>4
<1> QED
  BY <1>1, DamaInvariant, PTL
=============================================================================
