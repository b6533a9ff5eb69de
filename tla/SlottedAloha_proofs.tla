------------------------ MODULE SlottedAloha_proofs ------------------------
(***************************************************************************)
(* Theorems about SlottedAloha for any terminals, any frame, any limits    *)
(* and any backoff, whether or not frames and acknowledgements are lost.   *)
(*                                                                         *)
(* A terminal: its fifo, its retransmissions, the packets that wait and    *)
(* the acknowledged ones share no packet (OnePlace).  A tick ages the      *)
(* packets that wait, splits them, puts those that are sent again behind   *)
(* the retransmissions and cuts the queue at what the slots can carry:     *)
(* each of these steps is a lemma about sequences with distinct contents.  *)
(*                                                                         *)
(* The NCC: what is in the slots, in the propagation and in the PDUs is    *)
(* what the bursts were given (Genuine), and a PDU has as many packets as  *)
(* its burst (Full).  An acknowledgement is only made of a packet that the *)
(* NCC put in a PDU; an identifier given out again is the one exception.   *)
(*                                                                         *)
(* The folds of the model (the choice of the slots, the interference       *)
(* cancellation, the frame's packets taken one by one, the backoff) are    *)
(* treated as runs: a function h of the steps, from which an invariant of  *)
(* the fold follows by the absence of a least step that breaks it.         *)
(* removeCollisions (Crdsa) repeats its pass as often as there are slots;  *)
(* every pass but the last takes a packet of another slot, hence the last  *)
(* one finds nothing: no more can be decoded.                              *)
(***************************************************************************)
EXTENDS SlottedAloha, FiniteSetTheorems, SequenceTheorems, WellFoundedInduction, TLAPS

\* The shapes of the state.
Packet == [burst : 1..MaxBursts, id : Nat, seq : Nat, pduNb : BurstSizes,
           nbr : 0..MaxRetransmissions, timeout : 0..TimeoutSaf]
Shapes ==
  /\ baseId \in [Terminals -> Nat]
  /\ fifo \in [Terminals -> Seq(Packet)]
  /\ waitAck \in [Terminals -> Seq(Packet)]
  /\ retrans \in [Terminals -> Seq(Packet)]
  /\ cw \in [Terminals -> Nat] /\ backoff \in [Terminals -> Nat]
  /\ slots \in [SlotIds -> SUBSET Transmission]
  /\ bursts \in [Terminals -> Seq([id : Nat, size : BurstSizes])]
  /\ acked \in [Terminals -> SUBSET (Nat \X Nat)]
  /\ restarts \in Nat

\* The bounds of the other places.
Bounds ==
  \A t \in Terminals :
    /\ baseId[t] <= Len(bursts[t])
    /\ cw[t] <= CwMax \/ cw[t] = 1
    /\ backoff[t] <= cw[t]

\* A packet or a transmission is the one its burst was given.
GenuineIn(given, q) ==
  /\ q.burst \in DOMAIN given
  /\ given[q.burst].id = q.id /\ given[q.burst].size = q.pduNb
  /\ q.seq \in 0..(q.pduNb - 1)
Genuine(t, q) == GenuineIn(bursts[t], q)
SentGenuine == \A k \in SlotIds : \A q \in slots[k] : Genuine(q.tal, q)

\* The packets of some bursts; those not sent yet, and those sent before.
Of(given) == {p \in Packet : GenuineIn(given, p)}
Fresh(given) == {p \in Of(given) : p.nbr = 0}
Resent(given) == {p \in Of(given) : p.nbr > 0}

\* No two elements of a sequence hold the same content.
Distinct(s) == \A i, j \in DOMAIN s : Content(s[i]) = Content(s[j]) => i = j

\* What a terminal may hold: genuine packets of the bursts it was given, each in
\* one of the fifo f, the retransmissions r, the packets w that wait and the
\* acknowledged ones a.
Held(f, r, w, a, given) ==
  /\ f \in Seq(Fresh(given)) /\ r \in Seq(Resent(given)) /\ w \in Seq(Of(given))
  /\ Len(f) <= FifoSize
  /\ given \in Seq([id : Nat, size : BurstSizes]) /\ Len(given) <= MaxBursts
  /\ a \subseteq Nat \X Nat /\ \A c \in a : c[1] \in DOMAIN given
  /\ Distinct(f) /\ Distinct(r) /\ Distinct(w)
  /\ Contents(f) \cap Contents(r) = {}
  /\ Contents(f) \cap Contents(w) = {}
  /\ Contents(r) \cap Contents(w) = {}
  /\ (Contents(f) \cup Contents(r) \cup Contents(w)) \cap a = {}
OnePlace == \A t \in Terminals : Held(fifo[t], retrans[t], waitAck[t], acked[t], bursts[t])

\* A PDU is handed up when it has as many packets, of one identifier, as one of
\* them says.
Full(pdu) ==
  /\ IsFiniteSet(pdu)
  /\ \A p, q \in pdu : p.id = q.id
  /\ \E p \in pdu : Cardinality(pdu) = p.pduNb

\* What the NCC holds, in a state and while it adds the packets of a frame: it
\* keeps genuine packets, of the terminal they are kept for; what it acknowledged,
\* it put in a PDU.
NccOK(wait, given, ids) ==
  /\ wait \in [Terminals -> SUBSET Transmission]
  /\ given \in [Terminals -> SUBSET SUBSET Transmission]
  /\ ids \in [Terminals -> SUBSET (Nat \X Nat \X Nat)]
  /\ \A t \in Terminals :
       /\ IsFiniteSet(wait[t])
       /\ \A q \in wait[t] \cup UNION given[t] : q.tal = t /\ Genuine(t, q)
       /\ \A pdu \in given[t] : Full(pdu)
       /\ \A id \in ids[t] : \E q \in wait[t] \cup UNION given[t] : UniqueId(q) = id

\* The inductive invariant.
AlohaInv ==
  /\ Shapes /\ Bounds
  /\ OnePlace /\ SentGenuine
  /\ NccOK(waitProp, handed, acks)
  /\ AckedWasTaken

-----------------------------------------------------------------------------
(* Induction without an operator: a set of subsets, a set of numbers. *)

\* Every set of naturals that is not empty has a least element.
LEMMA LeastNatural ==
  ASSUME NEW T, T \subseteq Nat, T # {}
  PROVE  \E x \in T : \A y \in T : x <= y
<1> DEFINE R == OpToRel(<, Nat)
<1>1. \A x, y \in Nat : <<x, y>> \in R <=> x < y
  BY DEF OpToRel
<1>2. IsWellFoundedOn(R, Nat)
  BY NatLessThanWellFounded
<1> HIDE DEF R
<1>3. PICK x \in T : \A y \in T : ~ (<<y, x>> \in R)
  BY <1>2, WFMin
<1>4. \A y \in T : x \in Nat /\ y \in Nat /\ ~ (y < x)
  BY <1>1, <1>3
<1> QED
  BY <1>4

\* Every bounded one has a greatest element.
LEMMA GreatestNatural ==
  ASSUME NEW T, T \subseteq Nat, T # {}, NEW n \in Nat, \A x \in T : x <= n
  PROVE  \E x \in T : \A y \in T : y <= x
<1> DEFINE U == {n - x : x \in T}
<1>1. U \subseteq Nat /\ U # {}
  <2>1. \A x \in T : x \in Nat /\ n - x \in Nat
    <3> TAKE x \in T
    <3>1. x \in Nat /\ x <= n
      OBVIOUS
    <3> QED
      BY <3>1
  <2> QED
    BY <2>1
<1>2. PICK u \in U : \A v \in U : u <= v
  BY <1>1, LeastNatural
<1>3. PICK x \in T : u = n - x
  OBVIOUS
<1>4. \A y \in T : y <= x
  <2> TAKE y \in T
  <2>1. x \in Nat /\ y \in Nat
    OBVIOUS
  <2>2. n - x <= n - y
    BY <1>2, <1>3
  <2> QED
    BY <2>1, <2>2
<1> QED
  BY <1>4

\* What holds of the empty set and goes from a subset to one with an element
\* more holds of a finite set.
LEMMA SubsetInduction ==
  ASSUME NEW D, IsFiniteSet(D), NEW G, {} \in G,
         \A S \in SUBSET D : \A x \in D \ S : S \in G => S \cup {x} \in G
  PROVE  D \in G
<1> DEFINE Bad == {Cardinality(S) : S \in {U \in SUBSET D : U \notin G}}
<1> SUFFICES ASSUME D \notin G
             PROVE  FALSE
  OBVIOUS
<1>1. Bad \subseteq Nat
  BY FS_Subset, FS_CardinalityType
<1>2. Bad # {}
  OBVIOUS
<1>3. PICK least \in Bad : \A y \in Bad : least <= y
  <2> HIDE DEF Bad
  <2> QED
    BY <1>1, <1>2, LeastNatural
<1>4. PICK S \in SUBSET D : S \notin G /\ least = Cardinality(S)
  BY <1>3
<1>5. PICK x \in S : TRUE
  BY <1>4
<1>6. IsFiniteSet(S) /\ Cardinality(S) \in Nat
  BY FS_Subset, FS_CardinalityType
<1>7. Cardinality(S \ {x}) = Cardinality(S) - 1
  BY <1>6, FS_RemoveElement
<1>8. S \ {x} \in SUBSET D /\ x \in D \ (S \ {x}) /\ (S \ {x}) \cup {x} = S
  OBVIOUS
<1>9. S \ {x} \notin G
  BY <1>4, <1>8
<1>10. Cardinality(S \ {x}) \in Bad
  BY <1>8, <1>9
<1> HIDE DEF Bad
<1>11. least <= Cardinality(S \ {x})
  BY <1>3, <1>10
<1> QED
  BY <1>4, <1>6, <1>7, <1>11

\* What holds of 0 and goes from a number to the next holds of all.
LEMMA NumberInduction ==
  ASSUME NEW G, 0 \in G, \A n \in Nat : n \in G => n + 1 \in G
  PROVE  Nat \subseteq G
<1> DEFINE Bad == Nat \ G
<1> SUFFICES ASSUME Bad # {}
             PROVE  FALSE
  OBVIOUS
<1>1. PICK least \in Bad : \A y \in Bad : least <= y
  <2> Bad \subseteq Nat
    OBVIOUS
  <2> HIDE DEF Bad
  <2> QED
    BY LeastNatural
<1>2. least # 0 /\ least \in Nat
  BY <1>1
<1>3. least - 1 \in Nat /\ (least - 1) + 1 = least
  BY <1>2
<1>4. least - 1 \notin G
  BY <1>1, <1>3
<1>5. least - 1 \in Bad
  BY <1>3, <1>4
<1> QED
  BY <1>1, <1>2, <1>5

-----------------------------------------------------------------------------
(* The folds of the model are folds over a finite set that take their elements *)
(* as a choice says. *)

\* A fold over a finite set: where it starts, what a step does, which element goes next.
FoldData(D, V, base, step, ch) ==
  /\ IsFiniteSet(D) /\ base \in V /\ step \in [D \X V -> V]
  /\ \A s \in SUBSET D : s # {} => ch[s] \in s

\* it says what the fold of each subset is.
FoldRule(it, D, base, step, ch) ==
  \A s \in SUBSET D : it[s] = IF s = {} THEN base ELSE step[<<ch[s], it[s \ {ch[s]}]>>]

\* There is such a fold.
LEMMA FoldExists ==
  ASSUME NEW D, NEW V, NEW base, NEW step, NEW ch, FoldData(D, V, base, step, ch)
  PROVE  \E it \in [SUBSET D -> V] : FoldRule(it, D, base, step, ch)
<1> USE DEF FoldData
<1> DEFINE Small(n) == {s \in SUBSET D : Cardinality(s) <= n}
           Value(h, s) == IF s = {} THEN base ELSE step[<<ch[s], h[s \ {ch[s]}]>>]
           G == {n \in Nat : \E h \in [Small(n) -> V] :
                               \A s \in Small(n) : h[s] = Value(h, s)}
<1>1. \A s \in SUBSET D : IsFiniteSet(s) /\ Cardinality(s) \in Nat
  BY FS_Subset, FS_CardinalityType
<1>2. \A s \in SUBSET D : s # {} => /\ ch[s] \in D
                                    /\ s \ {ch[s]} \in SUBSET D
                                    /\ Cardinality(s \ {ch[s]}) = Cardinality(s) - 1
  <2> TAKE s \in SUBSET D
  <2> HAVE s # {}
  <2>1. ch[s] \in s /\ IsFiniteSet(s)
    BY <1>1
  <2> QED
    BY <2>1, FS_RemoveElement
<1>3. 0 \in G
  <2>1. \A s \in Small(0) : s = {}
    <3> TAKE s \in Small(0)
    <3> IsFiniteSet(s) /\ Cardinality(s) = 0
      BY <1>1
    <3> QED
      BY FS_EmptySet
  <2>2. [s \in Small(0) |-> base] \in [Small(0) -> V]
    OBVIOUS
  <2>3. \A s \in Small(0) : [t \in Small(0) |-> base][s] = Value([t \in Small(0) |-> base], s)
    BY <2>1
  <2> QED
    BY <2>2, <2>3
<1>4. \A n \in Nat : n \in G => n + 1 \in G
  <2> TAKE n \in Nat
  <2> HAVE n \in G
  <2> PICK h \in [Small(n) -> V] : \A s \in Small(n) : h[s] = Value(h, s)
    OBVIOUS
  <2> DEFINE g == [s \in Small(n + 1) |-> IF s \in Small(n) THEN h[s] ELSE Value(h, s)]
  <2>1. \A s \in Small(n + 1) : s # {} => ch[s] \in D /\ s \ {ch[s]} \in Small(n)
    <3> TAKE s \in Small(n + 1)
    <3> HAVE s # {}
    <3>1. s \in SUBSET D /\ Cardinality(s) <= n + 1 /\ Cardinality(s) \in Nat
      BY <1>1
    <3> QED
      BY <1>2, <3>1
  <2>2. \A s \in Small(n + 1) : Value(h, s) \in V
    <3> TAKE s \in Small(n + 1)
    <3>1. CASE s = {}
      BY <3>1
    <3>2. CASE s # {}
      <4>1. ch[s] \in D /\ h[s \ {ch[s]}] \in V
        BY <2>1, <3>2
      <4> QED
        BY <3>2, <4>1
    <3> QED
      BY <3>1, <3>2
  <2>3. g \in [Small(n + 1) -> V]
    <3> HIDE DEF Value
    <3> QED
      BY <2>2
  <2>4. Small(n) \subseteq Small(n + 1)
    BY <1>1
  <2>5. \A s \in Small(n) : g[s] = h[s]
    BY <2>4
  <2>6. \A s \in Small(n + 1) : Value(g, s) = Value(h, s)
    <3> HIDE DEF g, Small
    <3> QED
      BY <2>1, <2>5
  <2>7. \A s \in Small(n + 1) : g[s] = Value(g, s)
    <3> TAKE s \in Small(n + 1)
    <3>1. g[s] = Value(h, s)
      <4> HIDE DEF Value, Small
      <4> QED
        OBVIOUS
    <3> HIDE DEF g, Value
    <3> QED
      BY <2>6, <3>1
  <2> HIDE DEF g, Value, Small
  <2> QED
    BY <2>3, <2>7
<1>5. Cardinality(D) \in G
  <2>1. Cardinality(D) \in Nat
    BY FS_CardinalityType
  <2> HIDE DEF G
  <2> QED
    BY <1>3, <1>4, <2>1, NumberInduction
<1>6. Small(Cardinality(D)) = SUBSET D
  BY FS_Subset
<1>7. PICK h \in [SUBSET D -> V] : \A s \in SUBSET D : h[s] = Value(h, s)
  <2> HIDE DEF Small, Value
  <2> QED
    BY <1>5, <1>6
<1> QED
  BY <1>7 DEF FoldRule
\* The greatest number of a part of 1..n, which is how FoldLeft goes through a sequence.
LEMMA MaxFacts ==
  ASSUME NEW n \in Nat
  PROVE  /\ \A s \in SUBSET (1..n) : s # {} => Max(s) \in s
         /\ \A k \in 1..n : /\ Max(1..k) = k /\ (1..k) \ {k} = 1..(k - 1)
                            /\ 1..k # {} /\ 1..k \in SUBSET (1..n)
<1>1. ASSUME NEW s \in SUBSET (1..n), s # {}
      PROVE  Max(s) \in s /\ \A y \in s : Max(s) >= y
  <2>1. s \subseteq Nat /\ \A x \in s : x <= n
    OBVIOUS
  <2>2. \E x \in s : \A y \in s : y <= x
    BY <1>1, <2>1, GreatestNatural
  <2>3. \E x \in s : \A y \in s : x >= y
    BY <2>1, <2>2
  <2> QED
    BY <2>3 DEF Max
<1>2. ASSUME NEW k \in 1..n
      PROVE  /\ Max(1..k) = k /\ (1..k) \ {k} = 1..(k - 1)
             /\ 1..k # {} /\ 1..k \in SUBSET (1..n)
  <2>1. 1..k # {} /\ 1..k \in SUBSET (1..n) /\ k \in 1..k
    OBVIOUS
  <2>2. Max(1..k) \in 1..k /\ \A y \in 1..k : Max(1..k) >= y
    BY <1>1, <2>1
  <2>3. Max(1..k) = k
    <3> DEFINE x == Max(1..k)
    <3>1. x \in 1..k /\ x >= k
      BY <2>1, <2>2
    <3> HIDE DEF x
    <3> QED
      BY <3>1 DEF x
  <2> QED
    BY <2>1, <2>3
<1> QED
  BY <1>1, <1>2

\* it says what the fold of a step over the elements at each set of places is.
SequenceRule(it, n, w, step, seq) ==
  \A s \in SUBSET (1..n) :
    it[s] = IF s = {} THEN w ELSE step[<<it[s \ {Max(s)}], seq[Max(s)]>>]

\* There is such a fold for every step.
LEMMA SequenceFold ==
  ASSUME NEW n \in Nat, NEW T, NEW seq \in [1..n -> T], NEW V, NEW w \in V,
         NEW step \in [V \X T -> V]
  PROVE  \E it \in [SUBSET (1..n) -> V] : SequenceRule(it, n, w, step, seq)
<1> DEFINE D == 1..n
           ch == [s \in SUBSET D |-> Max(s)]
           turned == [p \in D \X V |-> step[<<p[2], seq[p[1]]>>]]
<1>1. \A s \in SUBSET D : s # {} => ch[s] \in s /\ ch[s] = Max(s)
  BY MaxFacts
<1>2. turned \in [D \X V -> V]
  <2>1. \A p \in D \X V : step[<<p[2], seq[p[1]]>>] \in V
    <3> TAKE p \in D \X V
    <3> p[2] \in V /\ seq[p[1]] \in T
      OBVIOUS
    <3> <<p[2], seq[p[1]]>> \in V \X T
      OBVIOUS
    <3> QED
      OBVIOUS
  <2> HIDE DEF D
  <2> QED
    BY <2>1
<1>3. IsFiniteSet(D)
  <2> 1 \in Int /\ n \in Int
    OBVIOUS
  <2> QED
    BY FS_Interval
<1>4. FoldData(D, V, w, turned, ch)
  <2> HIDE DEF D, turned, ch
  <2> QED
    BY <1>1, <1>2, <1>3 DEF FoldData
<1>5. PICK it \in [SUBSET D -> V] : FoldRule(it, D, w, turned, ch)
  <2> HIDE DEF D, turned, ch
  <2> QED
    BY <1>4, FoldExists
<1>6. ASSUME NEW s \in SUBSET D, s # {}
      PROVE  it[s] = step[<<it[s \ {Max(s)}], seq[Max(s)]>>]
  <2>1. Max(s) \in D /\ s \ {Max(s)} \in SUBSET D
    BY <1>1, <1>6
  <2>2. it[s] = turned[<<Max(s), it[s \ {Max(s)}]>>]
    <3> HIDE DEF D, turned, ch
    <3> QED
      BY <1>1, <1>5, <1>6 DEF FoldRule
  <2>3. it[s \ {Max(s)}] \in V
    BY <2>1
  <2> QED
    BY <2>1, <2>2, <2>3
<1>7. it[{}] = w
  <2> HIDE DEF D, turned, ch
  <2> QED
    BY <1>5 DEF FoldRule
<1>8. SequenceRule(it, n, w, step, seq)
  BY <1>6, <1>7 DEF SequenceRule
<1> QED
  BY <1>8

-----------------------------------------------------------------------------
(* The sort and the choice of places. *)

\* InOrder(S) holds every number of S, once.
LEMMA InOrderFacts ==
  ASSUME NEW S \in SUBSET Nat, IsFiniteSet(S)
  PROVE  /\ Cardinality(S) \in Nat
         /\ InOrder(S) \in [1..Cardinality(S) -> S]
         /\ \A i, j \in 1..Cardinality(S) : InOrder(S)[i] = InOrder(S)[j] => i = j
         /\ \A x \in S : \E i \in 1..Cardinality(S) : InOrder(S)[i] = x
<1> DEFINE n == Cardinality(S)
           below(x) == {y \in S : y < x}
           rank(x) == Cardinality(below(x)) + 1
           at(r) == CHOOSE x \in S : Cardinality(below(x)) = r - 1
<1>1. InOrder(S) = [r \in 1..n |-> at(r)]
  BY DEF InOrder
<1>2. n \in Nat /\ \A x \in S : x \in Nat
  BY FS_CardinalityType
<1>3. \A x \in S : IsFiniteSet(below(x)) /\ Cardinality(below(x)) \in Nat
  <2> TAKE x \in S
  <2> below(x) \in SUBSET S
    OBVIOUS
  <2> HIDE DEF below
  <2> QED
    BY FS_Subset, FS_CardinalityType
<1>4. ASSUME NEW x \in S, NEW y \in S, x < y
      PROVE  rank(x) < rank(y)
  <2>1. below(x) \in SUBSET (below(y) \ {x}) /\ x \in below(y)
    <3> \A z \in S : z < x => z < y /\ z # x
      BY <1>2, <1>4
    <3> QED
      BY <1>4
  <2> HIDE DEF below
  <2>2. /\ IsFiniteSet(below(y) \ {x})
        /\ Cardinality(below(y) \ {x}) = Cardinality(below(y)) - 1
    BY <1>3, <2>1, FS_RemoveElement
  <2>3. Cardinality(below(x)) <= Cardinality(below(y) \ {x})
    BY <2>1, <2>2, FS_Subset
  <2> QED
    BY <1>3, <2>2, <2>3
<1>5. \A x \in S : rank(x) \in 1..n
  <2> TAKE x \in S
  <2>1. below(x) \in SUBSET (S \ {x})
    BY <1>2
  <2> HIDE DEF below
  <2>2. IsFiniteSet(S \ {x}) /\ Cardinality(S \ {x}) = n - 1
    BY FS_RemoveElement
  <2>3. Cardinality(below(x)) <= n - 1
    BY <2>1, <2>2, FS_Subset
  <2> HIDE DEF n
  <2> QED
    BY <1>2, <1>3, <2>3
<1> HIDE DEF below
<1>6. \A x, y \in S : rank(x) = rank(y) => x = y
  <2> TAKE x, y \in S
  <2> HAVE rank(x) = rank(y)
  <2>1. rank(x) \in 1..n /\ rank(y) \in 1..n
    <3> HIDE DEF rank
    <3> QED
      BY <1>5
  <2>2. ~ (x < y) /\ ~ (y < x)
    <3> HIDE DEF rank, n
    <3> QED
      BY <1>2, <1>4, <2>1
  <2> HIDE DEF rank, n
  <2> QED
    BY <1>2, <2>2
<1> DEFINE rk == [x \in S |-> rank(x)]
<1>7. rk \in Surjection(S, 1..n)
  <2>1. rk \in Injection(S, 1..n)
    <3> HIDE DEF rank, n
    <3> QED
      BY <1>5, <1>6 DEF Injection, IsInjective
  <2>2. IsFiniteSet(1..n) /\ Cardinality(1..n) = n
    <3>1. 1 \in Int /\ n \in Int
      BY <1>2
    <3>2. IsFiniteSet(1..n) /\ Cardinality(1..n) = IF 1 > n THEN 0 ELSE n - 1 + 1
      <4> HIDE DEF n
      <4> QED
        BY <3>1, FS_Interval
    <3> HIDE DEF n
    <3> QED
      BY <1>2, <3>2
  <2>3. Cardinality(S) = Cardinality(1..n)
    BY <2>2
  <2> HIDE DEF rk, n
  <2> QED
    BY <2>1, <2>2, <2>3, FS_Injection
<1>8. \A r \in 1..n : \E x \in S : rank(x) = r
  <2> HIDE DEF rank, n
  <2> QED
    BY <1>7 DEF Surjection
<1>9. \A r \in 1..n : at(r) \in S /\ rank(at(r)) = r
  <2> TAKE r \in 1..n
  <2>1. \E x \in S : Cardinality(below(x)) = r - 1
    <3> PICK x \in S : rank(x) = r
      BY <1>8
    <3> Cardinality(below(x)) \in Nat
      BY <1>3
    <3> HIDE DEF n
    <3> QED
      OBVIOUS
  <2>2. at(r) \in S /\ Cardinality(below(at(r))) = r - 1
    BY <2>1
  <2> HIDE DEF at, n
  <2> QED
    BY <2>2
<1>10. \A i, j \in 1..n : at(i) = at(j) => i = j
  <2> HIDE DEF at, rank, n
  <2> QED
    BY <1>9
<1>11. \A x \in S : \E i \in 1..n : at(i) = x
  <2> TAKE x \in S
  <2>1. rank(x) \in 1..n
    <3> HIDE DEF rank
    <3> QED
      BY <1>5
  <2>2. at(rank(x)) \in S /\ rank(at(rank(x))) = rank(x)
    <3> HIDE DEF at, rank, n
    <3> QED
      BY <1>9, <2>1
  <2>3. at(rank(x)) = x
    <3> HIDE DEF at, rank, n
    <3> QED
      BY <1>6, <2>2
  <2> HIDE DEF at, rank, n
  <2> QED
    BY <2>1, <2>3
<1> DEFINE o == [r \in 1..n |-> at(r)]
<1>12. /\ o \in [1..n -> S]
       /\ \A i, j \in 1..n : o[i] = o[j] => i = j
       /\ \A x \in S : \E i \in 1..n : o[i] = x
  <2> HIDE DEF at, n
  <2> QED
    BY <1>9, <1>10, <1>11
<1>13. InOrder(S) = o
  BY <1>1
<1> HIDE DEF o, n
<1> QED
  BY <1>2, <1>12, <1>13 DEF n

\* What is picked comes from the places.
LEMMA PickedFacts ==
  ASSUME NEW places \in SUBSET Nat, IsFiniteSet(places), NEW T, NEW s,
         \A i \in places : s[i] \in T
  PROVE  Picked(s, places) \in Seq(T)
<1> DEFINE o == InOrder(places)
           n == Cardinality(places)
           p == [i \in 1..n |-> s[o[i]]]
<1>1. n \in Nat /\ o \in [1..n -> places]
  BY InOrderFacts
<1>2. Picked(s, places) = p
  BY DEF Picked
<1> HIDE DEF o, n
<1>3. p \in [1..n -> T]
  BY <1>1
<1> HIDE DEF p
<1> QED
  BY <1>1, <1>2, <1>3

\* Nothing of the places is forgotten.
LEMMA PickedContents ==
  ASSUME NEW places \in SUBSET Nat, IsFiniteSet(places), NEW s
  PROVE  Contents(Picked(s, places)) = {Content(s[j]) : j \in places}
<1> DEFINE o == InOrder(places)
           n == Cardinality(places)
           p == [i \in 1..n |-> s[o[i]]]
<1>1. /\ o \in [1..n -> places]
      /\ \A x \in places : \E i \in 1..n : o[i] = x
  BY InOrderFacts
<1>2. Picked(s, places) = p
  BY DEF Picked
<1> HIDE DEF o, n
<1>3. DOMAIN p = 1..n /\ \A i \in 1..n : o[i] \in places /\ Content(p[i]) = Content(s[o[i]])
  BY <1>1
<1> HIDE DEF p
<1>4. \A j \in places : \E i \in DOMAIN p : Content(p[i]) = Content(s[j])
  <2> TAKE j \in places
  <2> PICK i \in 1..n : o[i] = j
    BY <1>1
  <2> QED
    BY <1>3
<1>5. \A i \in DOMAIN p : \E j \in places : Content(p[i]) = Content(s[j])
  BY <1>3
<1>6. Contents(p) = {Content(s[j]) : j \in places}
  <2> HIDE DEF Content
  <2> QED
    BY ONLY <1>4, <1>5 DEF Contents
<1> QED
  BY <1>2, <1>6

\* What is picked of distinct elements is distinct.
LEMMA PickedDistinct ==
  ASSUME NEW places \in SUBSET Nat, IsFiniteSet(places), NEW s,
         \A i, j \in places : Content(s[i]) = Content(s[j]) => i = j
  PROVE  Distinct(Picked(s, places))
<1> DEFINE o == InOrder(places)
           n == Cardinality(places)
<1>1. /\ n \in Nat /\ o \in [1..n -> places]
      /\ \A i, j \in 1..n : o[i] = o[j] => i = j
  BY InOrderFacts
<1>2. Picked(s, places) = [i \in 1..n |-> s[o[i]]]
  BY DEF Picked
<1> HIDE DEF o, n
<1>3. \A i, j \in 1..n : Content(s[o[i]]) = Content(s[o[j]]) => i = j
  BY <1>1
<1> QED
  BY <1>2, <1>3 DEF Distinct
-----------------------------------------------------------------------------
(* Distinct sequences put together and cut. *)

\* Two sequences that share nothing make a distinct one.
LEMMA ConcatDistinct ==
  ASSUME NEW T, NEW a \in Seq(T), NEW b \in Seq(T)
  PROVE  /\ a \o b \in Seq(T) /\ Len(a \o b) = Len(a) + Len(b)
         /\ Contents(a \o b) = Contents(a) \cup Contents(b)
         /\ Distinct(a) /\ Distinct(b) /\ Contents(a) \cap Contents(b) = {} => Distinct(a \o b)
         /\ Distinct(a \o b) =>
              Distinct(a) /\ Distinct(b) /\ Contents(a) \cap Contents(b) = {}
<1> DEFINE c == a \o b
<1>1. Len(a) \in Nat /\ Len(b) \in Nat /\ DOMAIN a = 1..Len(a) /\ DOMAIN b = 1..Len(b)
  OBVIOUS
<1>2. c \in Seq(T) /\ Len(c) = Len(a) + Len(b) /\ DOMAIN c = 1..(Len(a) + Len(b))
  OBVIOUS
<1>3. \A i \in DOMAIN a : i \in DOMAIN c /\ c[i] = a[i]
  OBVIOUS
<1>4. \A i \in DOMAIN b : Len(a) + i \in DOMAIN c /\ c[Len(a) + i] = b[i]
  OBVIOUS
<1>5. \A i \in DOMAIN c : i \in DOMAIN a \/ \E j \in DOMAIN b : i = Len(a) + j
  <2> TAKE i \in DOMAIN c
  <2>1. CASE i <= Len(a)
    BY <1>1, <1>2, <2>1
  <2>2. CASE i > Len(a)
    <3>1. i - Len(a) \in DOMAIN b /\ i = Len(a) + (i - Len(a))
      BY <1>1, <1>2, <2>2
    <3> QED
      BY <3>1
  <2> QED
    BY <1>1, <1>2, <2>1, <2>2
<1> HIDE DEF c
<1>6. Contents(c) = Contents(a) \cup Contents(b)
  <2>1. Contents(c) \subseteq Contents(a) \cup Contents(b)
    BY <1>3, <1>4, <1>5 DEF Contents
  <2>2. Contents(a) \subseteq Contents(c)
    BY <1>3 DEF Contents
  <2>3. Contents(b) \subseteq Contents(c)
    BY <1>4 DEF Contents
  <2> QED
    BY <2>1, <2>2, <2>3
<1>7. ASSUME Distinct(a), Distinct(b), Contents(a) \cap Contents(b) = {}
      PROVE  Distinct(c)
  <2>1. \A i \in DOMAIN a : \A j \in DOMAIN b : Content(a[i]) # Content(b[j])
    BY <1>7 DEF Contents
  <2> SUFFICES ASSUME NEW i \in DOMAIN c, NEW j \in DOMAIN c, Content(c[i]) = Content(c[j])
               PROVE  i = j
    BY DEF Distinct
  <2>2. CASE i \in DOMAIN a /\ j \in DOMAIN a
    BY <1>3, <1>7, <2>2 DEF Distinct
  <2>3. CASE i \in DOMAIN a /\ j \notin DOMAIN a
    BY <1>3, <1>4, <1>5, <2>1, <2>3
  <2>4. CASE i \notin DOMAIN a /\ j \in DOMAIN a
    BY <1>3, <1>4, <1>5, <2>1, <2>4
  <2>5. CASE i \notin DOMAIN a /\ j \notin DOMAIN a
    BY <1>4, <1>5, <1>7, <2>5 DEF Distinct
  <2> QED
    BY <2>2, <2>3, <2>4, <2>5
<1>8. ASSUME Distinct(c)
      PROVE  Distinct(a) /\ Distinct(b) /\ Contents(a) \cap Contents(b) = {}
  <2>1. Distinct(a)
    BY <1>3, <1>8 DEF Distinct
  <2>2. Distinct(b)
    <3> SUFFICES ASSUME NEW i \in DOMAIN b, NEW j \in DOMAIN b, Content(b[i]) = Content(b[j])
                 PROVE  i = j
      BY DEF Distinct
    <3>1. Len(a) + i = Len(a) + j
      BY <1>4, <1>8 DEF Distinct
    <3> QED
      BY <1>1, <3>1
  <2>3. \A i \in DOMAIN a : \A j \in DOMAIN b : Content(a[i]) # Content(b[j])
    <3> TAKE i \in DOMAIN a
    <3> TAKE j \in DOMAIN b
    <3>1. i # Len(a) + j
      BY <1>1
    <3> QED
      BY <1>3, <1>4, <1>8, <3>1 DEF Distinct
  <2>4. Contents(a) \cap Contents(b) = {}
    BY <2>3 DEF Contents
  <2> QED
    BY <2>1, <2>2, <2>4
<1> QED
  BY <1>2, <1>6, <1>7, <1>8 DEF c

\* A sequence is its first n elements and the others.
LEMMA CutInTwo ==
  ASSUME NEW T, NEW s \in Seq(T), NEW n \in 0..Len(s)
  PROVE  /\ SubSeq(s, 1, n) \in Seq(T) /\ SubSeq(s, n + 1, Len(s)) \in Seq(T)
         /\ Len(SubSeq(s, 1, n)) = n /\ Len(SubSeq(s, n + 1, Len(s))) = Len(s) - n
         /\ \A i \in 1..n : SubSeq(s, 1, n)[i] = s[i]
         /\ \A i \in 1..(Len(s) - n) : SubSeq(s, n + 1, Len(s))[i] = s[n + i]
         /\ s = SubSeq(s, 1, n) \o SubSeq(s, n + 1, Len(s))
<1> DEFINE a == SubSeq(s, 1, n)
           b == SubSeq(s, n + 1, Len(s))
<1>1. Len(s) \in Nat /\ n \in Nat /\ n <= Len(s) /\ s \in [1..Len(s) -> T]
  OBVIOUS
<1>2. a \in Seq(T) /\ Len(a) = n /\ \A i \in 1..n : a[i] = s[i]
  <2>1. a = [i \in 1..n |-> s[i]]
    BY <1>1
  <2>2. \A i \in 1..n : s[i] \in T
    BY <1>1
  <2> HIDE DEF a
  <2> QED
    BY <1>1, <2>1, <2>2
<1>3. b \in Seq(T) /\ Len(b) = Len(s) - n /\ \A i \in 1..(Len(s) - n) : b[i] = s[n + i]
  <2> DEFINE k == Len(s) - n
             f == [i \in 1..k |-> s[n + i]]
  <2>1. k \in Nat /\ \A i \in 1..k : n + i \in 1..Len(s) /\ s[n + i] \in T
    BY <1>1
  <2>2. f \in [1..k -> T]
    BY <2>1
  <2>3. b = f
    <3>1. b = [i \in 1..(Len(s) - (n + 1) + 1) |-> s[i + (n + 1) - 1]]
      BY <1>1
    <3>2. Len(s) - (n + 1) + 1 = k /\ \A i \in 1..k : i + (n + 1) - 1 = n + i
      BY <1>1
    <3> QED
      BY <3>1, <3>2
  <2>4. f \in Seq(T) /\ Len(f) = k
    <3> HIDE DEF f, k
    <3> QED
      BY <2>1, <2>2
  <2> HIDE DEF b
  <2> QED
    BY <2>3, <2>4
<1> HIDE DEF a, b
<1> DEFINE c == a \o b
<1>4. /\ c \in Seq(T) /\ Len(c) = Len(a) + Len(b)
      /\ \A i \in 1..(Len(a) + Len(b)) : c[i] = IF i <= Len(a) THEN a[i] ELSE b[i - Len(a)]
  BY ONLY <1>2, <1>3, ConcatProperties
<1> HIDE DEF c
<1>5. Len(c) = Len(s)
  BY <1>1, <1>2, <1>3, <1>4
<1>6. \A i \in 1..Len(s) : c[i] = s[i]
  <2> TAKE i \in 1..Len(s)
  <2>1. CASE i <= n
    BY <1>1, <1>2, <1>4, <1>5, <2>1
  <2>2. CASE i > n
    <3>1. i - n \in 1..(Len(s) - n) /\ n + (i - n) = i
      BY <1>1, <2>2
    <3>2. c[i] = b[i - n]
      BY <1>1, <1>2, <1>4, <1>5, <2>2
    <3> QED
      BY <1>3, <3>1, <3>2
  <2> QED
    BY <1>1, <2>1, <2>2
<1>7. s = c
  BY <1>4, <1>5, <1>6, SeqEqual
<1> QED
  BY <1>2, <1>3, <1>7 DEF a, b, c
-----------------------------------------------------------------------------
(* A fold over a sequence is a run: where it starts, then a step per element. *)

\* The fold goes through seq with these steps, as long as it stays in V.
FoldedBy(it, n, T, seq, V, w, step) ==
  /\ seq \in [1..n -> T] /\ w \in V /\ step \in [V \X T -> V] /\ it[{}] = w
  /\ \A s \in SUBSET (1..n) :
       s # {} /\ it[s \ {Max(s)}] \in V => it[s] = step[<<it[s \ {Max(s)}], seq[Max(s)]>>]

Run(h, n, seq, V, w, step) ==
  /\ h \in [0..n -> V] /\ h[0] = w
  /\ \A k \in 1..n : h[k] = step[<<h[k - 1], seq[k]>>]

\* What the fold makes of the places up to k is the k-th state of the run.
LEMMA FoldRuns ==
  ASSUME NEW n \in Nat, NEW T, NEW seq, NEW V, NEW w, NEW step, NEW it,
         FoldedBy(it, n, T, seq, V, w, step)
  PROVE  \E h : Run(h, n, seq, V, w, step) /\ h[n] = it[1..n]
<1> USE DEF FoldedBy
<1> DEFINE h == [k \in 0..n |-> it[1..k]]
           G == {k \in Nat : k <= n => it[1..k] \in V}
<1>1. it[1..0] = w
  <2> 1..0 = {}
    OBVIOUS
  <2> QED
    OBVIOUS
<1>2. ASSUME NEW k \in 1..n, it[1..(k - 1)] \in V
      PROVE  it[1..k] = step[<<it[1..(k - 1)], seq[k]>>] /\ it[1..k] \in V
  <2>1. Max(1..k) = k /\ (1..k) \ {k} = 1..(k - 1) /\ 1..k # {} /\ 1..k \in SUBSET (1..n)
    BY MaxFacts
  <2>2. it[1..k] = step[<<it[1..(k - 1)], seq[k]>>]
    BY <1>2, <2>1
  <2>3. <<it[1..(k - 1)], seq[k]>> \in V \X T
    BY <1>2
  <2> QED
    BY <2>2, <2>3
<1>3. Nat \subseteq G
  <2>1. 0 \in G
    BY <1>1
  <2>2. ASSUME NEW k \in Nat, k \in G
        PROVE  k + 1 \in G
    <3> SUFFICES ASSUME k + 1 <= n
                 PROVE  it[1..(k + 1)] \in V
      OBVIOUS
    <3>1. k + 1 \in 1..n /\ (k + 1) - 1 = k /\ it[1..k] \in V
      BY <2>2
    <3> QED
      BY <1>2, <3>1
  <2> HIDE DEF G
  <2> QED
    BY <2>1, <2>2, NumberInduction
<1>4. \A k \in 0..n : it[1..k] \in V
  BY <1>3
<1>5. h \in [0..n -> V] /\ h[0] = w /\ h[n] = it[1..n]
  BY <1>1, <1>4
<1>6. \A k \in 1..n : h[k] = step[<<h[k - 1], seq[k]>>]
  <2> TAKE k \in 1..n
  <2>1. k - 1 \in 0..n /\ k \in 0..n
    OBVIOUS
  <2> QED
    BY <1>2, <1>4, <2>1
<1> HIDE DEF h
<1> QED
  BY <1>5, <1>6 DEF Run
-----------------------------------------------------------------------------
(* The contention window. *)

\* A packet given up leaves a window in the bounds, whatever it was.
LEMMA CwFacts ==
  ASSUME NEW n \in Nat, NEW w \in Nat
  PROVE  /\ CwAfter(n, w) \in Nat
         /\ n = 0 => CwAfter(n, w) = w
         /\ n > 0 => CwAfter(n, w) <= CwMax
<1> DEFINE seq == [i \in 1..n |-> i]
           step == [p \in Nat \X (1..n) |-> Wider(p[1], p[2])]
           F(it, s) == IF s = {} THEN w ELSE Wider(it[s \ {Max(s)}], seq[Max(s)])
<1>1. \A v \in Nat : \A i \in 1..n : Wider(v, i) \in Nat /\ Wider(v, i) <= CwMax
  <2> TAKE v \in Nat
  <2> DEFINE m == v * Multiple
  <2>1. m \in Nat /\ CwMax \in Nat
    BY CountsAssumption
  <2> HIDE DEF m
  <2> QED
    BY <2>1 DEF Wider, m
<1>2. step \in [Nat \X (1..n) -> Nat] /\ seq \in [1..n -> 1..n]
  BY <1>1
<1>3. PICK it \in [SUBSET (1..n) -> Nat] : SequenceRule(it, n, w, step, seq)
  <2> HIDE DEF step, seq
  <2> QED
    BY <1>2, SequenceFold
<1>4. \A s \in SUBSET (1..n) : s # {} => Max(s) \in s
  BY MaxFacts
<1>5. \A s \in SUBSET (1..n) : it[s] = F(it, s)
  <2> TAKE s \in SUBSET (1..n)
  <2>1. CASE s = {}
    BY <1>3, <2>1 DEF SequenceRule
  <2>2. CASE s # {}
    <3>1. <<it[s \ {Max(s)}], seq[Max(s)]>> \in Nat \X (1..n)
      BY <1>4, <2>2
    <3>2. it[s] = step[<<it[s \ {Max(s)}], seq[Max(s)]>>]
      <4> HIDE DEF step, seq
      <4> QED
        BY <1>3, <2>2 DEF SequenceRule
    <3> QED
      BY <2>2, <3>1, <3>2
  <2> QED
    BY <2>1, <2>2
<1>6. PICK chosen : /\ chosen = [s \in SUBSET (1..n) |-> F(chosen, s)]
                    /\ CwAfter(n, w) = chosen[1..n]
  <2> DEFINE result == CHOOSE x : x = [s \in SUBSET (1..n) |-> F(x, s)]
  <2>1. it = [s \in SUBSET (1..n) |-> F(it, s)]
    <3> HIDE DEF F
    <3> QED
      BY <1>5
  <2>2. result = [s \in SUBSET (1..n) |-> F(result, s)]
    <3> HIDE DEF F
    <3> QED
      BY <2>1
  <2>3. CwAfter(n, w) = result[1..n]
    BY DEF CwAfter, FoldLeft, MapThenFoldSet
  <2> HIDE DEF result
  <2> QED
    BY <2>2, <2>3
<1>7. \A s \in SUBSET (1..n) : chosen[s] = F(chosen, s)
  <2> HIDE DEF F
  <2> QED
    BY <1>6
<1>8. \A s \in SUBSET (1..n) :
        s # {} /\ chosen[s \ {Max(s)}] \in Nat =>
          chosen[s] = step[<<chosen[s \ {Max(s)}], seq[Max(s)]>>]
  <2> TAKE s \in SUBSET (1..n)
  <2> HAVE s # {} /\ chosen[s \ {Max(s)}] \in Nat
  <2> <<chosen[s \ {Max(s)}], seq[Max(s)]>> \in Nat \X (1..n)
    BY <1>4
  <2> QED
    BY <1>7
<1>9. chosen[{}] = w
  BY <1>7
<1>10. PICK h : Run(h, n, seq, Nat, w, step) /\ h[n] = chosen[1..n]
  <2> HIDE DEF step, seq
  <2>1. FoldedBy(chosen, n, 1..n, seq, Nat, w, step)
    BY <1>2, <1>8, <1>9 DEF FoldedBy
  <2> QED
    BY <2>1, FoldRuns
<1>11. n > 0 => h[n] <= CwMax
  <2> HAVE n > 0
  <2>1. n \in 1..n /\ n - 1 \in 0..n /\ h[n - 1] \in Nat
    BY <1>10 DEF Run
  <2>2. h[n] = Wider(h[n - 1], n)
    BY <1>10, <2>1 DEF Run
  <2> QED
    BY <1>1, <2>1, <2>2
<1>12. h[n] \in Nat /\ (n = 0 => h[n] = w)
  BY <1>10 DEF Run
<1> QED
  BY <1>6, <1>10, <1>11, <1>12
-----------------------------------------------------------------------------
(* What Dsa accepts. *)

\* The slots of a frame are numbered from 0.
IsFrame(frame, n) ==
  n \in Nat /\ frame = [k \in 0..(n - 1) |-> frame[k]]

\* The packets of a frame with the slots they are in.
Heard(frame) ==
  {a \in [slot : DOMAIN frame, pkt : UNION {frame[k] : k \in DOMAIN frame}] :
     a.pkt \in frame[a.slot]}
Alone(frame) == {a \in Heard(frame) : frame[a.slot] = {a.pkt}}

\* removeCollisions goes through the slots in their order.
LEMMA SlotsInOrder ==
  ASSUME NEW frame, NEW n, IsFrame(frame, n)
  PROVE  /\ DOMAIN frame = 0..(n - 1) /\ Cardinality(DOMAIN frame) = n
         /\ EachSlot(frame) = [k \in 1..n |-> k - 1]
         /\ EachSlot(frame) \in [1..n -> DOMAIN frame]
<1>1. n \in Nat /\ DOMAIN frame = 0..(n - 1)
  BY DEF IsFrame
<1>2. Cardinality(0..(n - 1)) = n
  <2>1. 0 \in Int /\ n - 1 \in Int
    BY <1>1
  <2>2. Cardinality(0..(n - 1)) = IF 0 > n - 1 THEN 0 ELSE n - 1 - 0 + 1
    BY <2>1, FS_Interval
  <2> QED
    BY <1>1, <2>2
<1>3. EachSlot(frame) = [k \in 1..n |-> k - 1]
  BY <1>1, <1>2 DEF EachSlot
<1>4. \A k \in 1..n : k - 1 \in 0..(n - 1)
  BY <1>1
<1> QED
  BY <1>1, <1>2, <1>3, <1>4

\* What Dsa accepts was alone in its slot.
LEMMA DsaAlone ==
  ASSUME NEW frame, NEW n, IsFrame(frame, n)
  PROVE  DsaAccepts(frame) \in SUBSET Alone(frame)
<1> DEFINE D == DOMAIN frame
           V == SUBSET Alone(frame)
           seq == EachSlot(frame)
           Op(accepted, k) == accepted \cup {[slot |-> k, pkt |-> p] : p \in
             {q \in frame[k] : frame[k] = {q} /\ Key(q) \notin Keys({a.pkt : a \in accepted})}}
           step == [p \in V \X D |-> Op(p[1], p[2])]
           F(it, s) == IF s = {} THEN {} ELSE Op(it[s \ {Max(s)}], seq[Max(s)])
<1>1. n \in Nat /\ seq \in [1..n -> D] /\ DOMAIN seq = 1..n /\ {} \in V
  BY SlotsInOrder DEF IsFrame
<1>2. \A v \in V : \A k \in D : Op(v, k) \in V
  <2> SUFFICES ASSUME NEW v \in V, NEW k \in D, NEW p \in frame[k], frame[k] = {p}
               PROVE  [slot |-> k, pkt |-> p] \in Alone(frame)
    BY Zenon
  <2> QED
    BY DEF Alone, Heard
<1> HIDE DEF V, D
<1>3. step \in [V \X D -> V]
  <2> HIDE DEF Op
  <2> QED
    BY <1>2
<1> HIDE DEF Op, seq
<1>4. PICK it \in [SUBSET (1..n) -> V] : SequenceRule(it, n, {}, step, seq)
  <2> HIDE DEF step
  <2> QED
    BY <1>1, <1>3, SequenceFold
<1>5. \A s \in SUBSET (1..n) : s # {} => Max(s) \in s
  BY <1>1, MaxFacts
<1>6. \A s \in SUBSET (1..n) : it[s] = F(it, s)
  <2> TAKE s \in SUBSET (1..n)
  <2>1. CASE s = {}
    BY <1>4, <2>1 DEF SequenceRule
  <2>2. CASE s # {}
    <3>1. <<it[s \ {Max(s)}], seq[Max(s)]>> \in V \X D
      BY <1>1, <1>5, <2>2
    <3>2. it[s] = step[<<it[s \ {Max(s)}], seq[Max(s)]>>]
      <4> HIDE DEF step
      <4> QED
        BY <1>4, <2>2 DEF SequenceRule
    <3> QED
      BY <2>2, <3>1, <3>2
  <2> QED
    BY <2>1, <2>2
<1>7. PICK chosen : /\ chosen = [s \in SUBSET (1..n) |-> F(chosen, s)]
                    /\ DsaAccepts(frame) = chosen[1..n]
  <2> DEFINE result == CHOOSE x : x = [s \in SUBSET (1..n) |-> F(x, s)]
  <2>1. it = [s \in SUBSET (1..n) |-> F(it, s)]
    <3> HIDE DEF F
    <3> QED
      BY <1>6
  <2>2. result = [s \in SUBSET (1..n) |-> F(result, s)]
    <3> HIDE DEF F
    <3> QED
      BY <2>1
  <2>3. DsaAccepts(frame) = result[1..n]
    <3>1. FoldLeft(Op, {}, seq) = result[1..n]
      BY <1>1 DEF FoldLeft, MapThenFoldSet
    <3>2. DsaAccepts(frame) = FoldLeft(Op, {}, seq)
      BY DEF DsaAccepts, Op, seq
    <3> QED
      BY <3>1, <3>2
  <2> HIDE DEF result
  <2> QED
    BY <2>2, <2>3
<1>8. \A s \in SUBSET (1..n) : chosen[s] = F(chosen, s)
  <2> HIDE DEF F
  <2> QED
    BY <1>7
<1>9. FoldedBy(chosen, n, D, seq, V, {}, step)
  <2>1. \A s \in SUBSET (1..n) :
          s # {} /\ chosen[s \ {Max(s)}] \in V =>
            chosen[s] = step[<<chosen[s \ {Max(s)}], seq[Max(s)]>>]
    <3> TAKE s \in SUBSET (1..n)
    <3> HAVE s # {} /\ chosen[s \ {Max(s)}] \in V
    <3> <<chosen[s \ {Max(s)}], seq[Max(s)]>> \in V \X D
      BY <1>1, <1>5
    <3> QED
      BY <1>8
  <2>2. chosen[{}] = {}
    BY <1>8
  <2> HIDE DEF step
  <2> QED
    BY <1>1, <1>3, <2>1, <2>2 DEF FoldedBy
<1>10. PICK h : Run(h, n, seq, V, {}, step) /\ h[n] = chosen[1..n]
  <2> HIDE DEF step
  <2> QED
    BY <1>1, <1>9, FoldRuns
<1>11. h[n] \in V
  BY <1>1, <1>10 DEF Run
<1> QED
  BY <1>7, <1>10, <1>11 DEF V
-----------------------------------------------------------------------------
(* What Crdsa decodes. *)

KeysOf(acc) == Keys({a.pkt : a \in acc})
AllKeys(frame) == UNION {Keys(frame[k]) : k \in DOMAIN frame}

\* The packets of a slot that are not decoded when these are accepted.
Undecoded(frame, acc, k) == {p \in frame[k] : Key(p) \notin KeysOf(acc)}

\* No packet of X is ever alone.
Hidden(X, frame) ==
  \A k \in DOMAIN frame : \A p \in frame[k] :
    Key(p) \in X => \E q \in frame[k] : q # p /\ Key(q) \in X

\* Where the algorithm may be: only decoded packets left their slots, a slot in
\* which one was accepted holds nothing else, and what is hidden stays so.
Decodings(frame) ==
  {st \in [left : [DOMAIN frame -> SUBSET UNION {frame[k] : k \in DOMAIN frame}],
           accepted : SUBSET Heard(frame)] :
     /\ \A k \in DOMAIN frame : /\ st.left[k] \subseteq frame[k]
                                /\ Undecoded(frame, st.accepted, k) \subseteq st.left[k]
     /\ \A a \in st.accepted : Undecoded(frame, st.accepted, a.slot) = {}
     /\ \A X \in SUBSET AllKeys(frame) : Hidden(X, frame) => X \cap KeysOf(st.accepted) = {}}

\* The packet that is alone once the decoded ones are taken away, if there is one.
Revealed(frame, acc, k) ==
  {[slot |-> k, pkt |-> p] : p \in {q \in Undecoded(frame, acc, k) : Undecoded(frame, acc, k) = {q}}}

\* removeCollisions (Crdsa) on one slot: the interferences of what is decoded leave
\* it, and the packet that is then alone is accepted.
LEMMA SuppressStep ==
  ASSUME NEW frame, NEW st \in Decodings(frame), NEW k \in DOMAIN frame
  PROVE  /\ SuppressAndAccept(st, k) \in Decodings(frame)
         /\ SuppressAndAccept(st, k).accepted = st.accepted \cup Revealed(frame, st.accepted, k)
<1> DEFINE D == DOMAIN frame
           U == UNION {frame[j] : j \in DOMAIN frame}
           acc == st.accepted
           left == {p \in st.left[k] : Key(p) \notin Keys({a.pkt : a \in st.accepted})}
           new == {[slot |-> k, pkt |-> p] : p \in {q \in left : left = {q}}}
           st2 == [left |-> [st.left EXCEPT ![k] = left], accepted |-> acc \cup new]
<1>1. /\ st.left \in [D -> SUBSET U] /\ acc \in SUBSET Heard(frame)
      /\ st = [left |-> st.left, accepted |-> acc]
      /\ \A j \in D : st.left[j] \subseteq frame[j] /\ Undecoded(frame, acc, j) \subseteq st.left[j]
      /\ \A a \in acc : Undecoded(frame, acc, a.slot) = {}
      /\ \A X \in SUBSET AllKeys(frame) : Hidden(X, frame) => X \cap KeysOf(acc) = {}
  BY DEF Decodings
<1>2. SuppressAndAccept(st, k) = st2
  BY DEF SuppressAndAccept
<1>3. left = Undecoded(frame, acc, k)
  BY <1>1 DEF Undecoded, KeysOf
<1> HIDE DEF left, acc
<1>4. new = Revealed(frame, acc, k)
  BY <1>3 DEF Revealed
<1>5. \A a \in new : /\ a.slot = k /\ a.pkt \in frame[k] /\ a.pkt \in U
                     /\ Undecoded(frame, acc, k) = {a.pkt}
                     /\ a = [slot |-> k, pkt |-> a.pkt]
  BY <1>3 DEF Undecoded
<1>6. new \in SUBSET Heard(frame)
  BY <1>5 DEF Heard
<1>7. st2 \in [left : [D -> SUBSET U], accepted : SUBSET Heard(frame)]
  <2>1. left \in SUBSET U
    BY <1>1, <1>3 DEF Undecoded
  <2>2. [st.left EXCEPT ![k] = left] \in [D -> SUBSET U]
    BY <1>1, <2>1
  <2>3. acc \cup new \in SUBSET Heard(frame)
    BY <1>1, <1>6
  <2> HIDE DEF new, D, U
  <2> QED
    BY <2>2, <2>3
<1>8. KeysOf(acc) \subseteq KeysOf(acc \cup new) /\ \A a \in new : Key(a.pkt) \in KeysOf(acc \cup new)
  BY DEF KeysOf, Keys
<1>9. \A j \in D : Undecoded(frame, acc \cup new, j) \subseteq Undecoded(frame, acc, j)
  BY <1>8 DEF Undecoded
<1>10. \A j \in D : /\ st2.left[j] \subseteq frame[j]
                    /\ Undecoded(frame, acc \cup new, j) \subseteq st2.left[j]
  <2> TAKE j \in D
  <2>1. st2.left[j] = IF j = k THEN left ELSE st.left[j]
    BY <1>1
  <2>2. Undecoded(frame, acc, k) \subseteq frame[k]
    BY DEF Undecoded
  <2>3. /\ st.left[j] \subseteq frame[j] /\ Undecoded(frame, acc, j) \subseteq st.left[j]
        /\ Undecoded(frame, acc \cup new, j) \subseteq Undecoded(frame, acc, j)
    BY <1>1, <1>9
  <2> HIDE DEF st2, new
  <2>4. CASE j = k
    BY <1>3, <2>1, <2>2, <2>3, <2>4
  <2>5. CASE j # k
    BY <2>1, <2>3, <2>5
  <2> QED
    BY <2>4, <2>5
<1>11. \A a \in acc \cup new : Undecoded(frame, acc \cup new, a.slot) = {}
  <2> TAKE a \in acc \cup new
  <2>1. CASE a \in acc
    <3>1. a.slot \in D
      BY <1>1, <2>1 DEF Heard
    <3> QED
      BY <1>1, <1>9, <2>1, <3>1
  <2>2. CASE a \in new
    <3>1. a.slot = k /\ Undecoded(frame, acc, k) = {a.pkt}
      BY <1>5, <2>2
    <3>2. Undecoded(frame, acc \cup new, k) \subseteq {a.pkt}
      BY <1>9, <3>1
    <3>3. a.pkt \notin Undecoded(frame, acc \cup new, k)
      BY <1>8, <2>2 DEF Undecoded
    <3> QED
      BY <3>1, <3>2, <3>3
  <2> QED
    BY <2>1, <2>2
<1>12. ASSUME NEW X \in SUBSET AllKeys(frame), Hidden(X, frame)
       PROVE  X \cap KeysOf(acc \cup new) = {}
  <2>1. X \cap KeysOf(acc) = {}
    BY <1>1, <1>12
  <2>2. ASSUME NEW a \in new, Key(a.pkt) \in X
        PROVE  FALSE
    <3>1. a.pkt \in frame[k] /\ Undecoded(frame, acc, k) = {a.pkt}
      BY <1>5
    <3>2. PICK q \in frame[k] : q # a.pkt /\ Key(q) \in X
      BY <1>12, <2>2, <3>1 DEF Hidden
    <3>3. q \in Undecoded(frame, acc, k)
      BY <2>1, <3>2 DEF Undecoded
    <3> QED
      BY <3>1, <3>2, <3>3
  <2>3. \A x \in KeysOf(acc \cup new) : x \in KeysOf(acc) \/ \E a \in new : x = Key(a.pkt)
    BY DEF KeysOf, Keys
  <2> QED
    BY <2>1, <2>2, <2>3
<1>13. st2 \in Decodings(frame)
  <2>1. st2.accepted = acc \cup new
    OBVIOUS
  <2> HIDE DEF st2, new
  <2> QED
    BY <1>7, <1>10, <1>11, <1>12, <2>1 DEF Decodings
<1> QED
  BY <1>2, <1>4, <1>13 DEF acc

\* The algorithm starts from the whole frame.
LEMMA DecodingStart ==
  ASSUME NEW frame, NEW n, IsFrame(frame, n)
  PROVE  [left |-> frame, accepted |-> {}] \in Decodings(frame)
<1> DEFINE U == UNION {frame[j] : j \in DOMAIN frame}
<1>1. frame \in [DOMAIN frame -> SUBSET U]
  <2>1. \A j \in DOMAIN frame : frame[j] \in SUBSET U
    OBVIOUS
  <2>2. frame = [j \in DOMAIN frame |-> frame[j]]
    BY DEF IsFrame
  <2> HIDE DEF U
  <2> QED
    BY <2>1, <2>2
<1>2. KeysOf({}) = {} /\ \A k \in DOMAIN frame : Undecoded(frame, {}, k) \subseteq frame[k]
  BY DEF KeysOf, Keys, Undecoded
<1> DEFINE st == [left |-> frame, accepted |-> {}]
<1>3. /\ st \in [left : [DOMAIN frame -> SUBSET U], accepted : SUBSET Heard(frame)]
      /\ st.left = frame /\ st.accepted = {}
  <2> HIDE DEF U
  <2> QED
    BY <1>1
<1> HIDE DEF st
<1>4. st \in Decodings(frame)
  BY <1>2, <1>3 DEF Decodings
<1> QED
  BY <1>4 DEF st
\* A pass goes through the slots in their order.
LEMMA PassRuns ==
  ASSUME NEW frame, NEW n, IsFrame(frame, n), NEW st \in Decodings(frame), NEW x
  PROVE  \E h \in [0..n -> Decodings(frame)] :
           /\ h[0] = st /\ CrdsaPass(st, x) = h[n]
           /\ \A k \in 1..n : h[k] = SuppressAndAccept(h[k - 1], k - 1)
<1> DEFINE D == DOMAIN frame
           V == Decodings(frame)
           seq == EachSlot(frame)
           step == [p \in V \X D |-> SuppressAndAccept(p[1], p[2])]
           F(it, s) == IF s = {} THEN st ELSE SuppressAndAccept(it[s \ {Max(s)}], seq[Max(s)])
<1>1. n \in Nat /\ seq \in [1..n -> D] /\ DOMAIN seq = 1..n /\ seq = [k \in 1..n |-> k - 1]
  BY SlotsInOrder DEF IsFrame
<1>2. EachSlot(st.left) = seq
  <2> DOMAIN st.left = D
    BY DEF Decodings
  <2> QED
    BY DEF EachSlot
<1>3. step \in [V \X D -> V]
  BY SuppressStep
<1> HIDE DEF V, D, seq
<1>4. PICK it \in [SUBSET (1..n) -> V] : SequenceRule(it, n, st, step, seq)
  <2> st \in V
    BY DEF V
  <2> HIDE DEF step
  <2> QED
    BY <1>1, <1>3, SequenceFold
<1>5. \A s \in SUBSET (1..n) : s # {} => Max(s) \in s
  BY <1>1, MaxFacts
<1>6. \A s \in SUBSET (1..n) : it[s] = F(it, s)
  <2> TAKE s \in SUBSET (1..n)
  <2>1. CASE s = {}
    BY <1>4, <2>1 DEF SequenceRule
  <2>2. CASE s # {}
    <3>1. <<it[s \ {Max(s)}], seq[Max(s)]>> \in V \X D
      BY <1>1, <1>5, <2>2
    <3>2. it[s] = step[<<it[s \ {Max(s)}], seq[Max(s)]>>]
      <4> HIDE DEF step
      <4> QED
        BY <1>4, <2>2 DEF SequenceRule
    <3> QED
      BY <2>2, <3>1, <3>2
  <2> QED
    BY <2>1, <2>2
<1>7. PICK chosen : /\ chosen = [s \in SUBSET (1..n) |-> F(chosen, s)]
                    /\ CrdsaPass(st, x) = chosen[1..n]
  <2> DEFINE result == CHOOSE y : y = [s \in SUBSET (1..n) |-> F(y, s)]
  <2>1. it = [s \in SUBSET (1..n) |-> F(it, s)]
    <3> HIDE DEF F
    <3> QED
      BY <1>6
  <2>2. result = [s \in SUBSET (1..n) |-> F(result, s)]
    <3> HIDE DEF F
    <3> QED
      BY <2>1
  <2>3. CrdsaPass(st, x) = result[1..n]
    <3>1. FoldLeft(SuppressAndAccept, st, seq) = result[1..n]
      BY <1>1 DEF FoldLeft, MapThenFoldSet
    <3>2. CrdsaPass(st, x) = FoldLeft(SuppressAndAccept, st, seq)
      BY <1>2 DEF CrdsaPass
    <3> QED
      BY <3>1, <3>2
  <2> HIDE DEF result
  <2> QED
    BY <2>2, <2>3
<1>8. \A s \in SUBSET (1..n) : chosen[s] = F(chosen, s)
  <2> HIDE DEF F
  <2> QED
    BY <1>7
<1>9. FoldedBy(chosen, n, D, seq, V, st, step)
  <2>1. \A s \in SUBSET (1..n) :
          s # {} /\ chosen[s \ {Max(s)}] \in V =>
            chosen[s] = step[<<chosen[s \ {Max(s)}], seq[Max(s)]>>]
    <3> TAKE s \in SUBSET (1..n)
    <3> HAVE s # {} /\ chosen[s \ {Max(s)}] \in V
    <3> <<chosen[s \ {Max(s)}], seq[Max(s)]>> \in V \X D
      BY <1>1, <1>5
    <3> QED
      BY <1>8
  <2>2. chosen[{}] = st /\ st \in V
    BY <1>8 DEF V
  <2> HIDE DEF step
  <2> QED
    BY <1>1, <1>3, <2>1, <2>2 DEF FoldedBy
<1>10. PICK h : Run(h, n, seq, V, st, step) /\ h[n] = chosen[1..n]
  <2> HIDE DEF step
  <2> QED
    BY <1>1, <1>9, FoldRuns
<1>11. h \in [0..n -> V] /\ h[0] = st
  BY <1>10 DEF Run
<1>12. \A k \in 1..n : h[k] = SuppressAndAccept(h[k - 1], k - 1)
  <2> TAKE k \in 1..n
  <2>1. h[k] = step[<<h[k - 1], seq[k]>>]
    BY <1>10 DEF Run
  <2>2. h[k - 1] \in V /\ seq[k] \in D /\ seq[k] = k - 1
    BY <1>1, <1>11
  <2> QED
    BY <2>1, <2>2
<1> QED
  BY <1>7, <1>10, <1>11, <1>12 DEF V

\* Nothing is alone any more.
Closed(frame, acc) == \A k \in DOMAIN frame : Revealed(frame, acc, k) = {}

SlotsOf(acc) == {a.slot : a \in acc}

\* A pass that finds nothing new was the last; another takes a packet of a slot
\* from which none was taken.
LEMMA PassStep ==
  ASSUME NEW frame, NEW n, IsFrame(frame, n), NEW st \in Decodings(frame), NEW x
  PROVE  /\ CrdsaPass(st, x) \in Decodings(frame)
         /\ st.accepted \subseteq CrdsaPass(st, x).accepted
         /\ Closed(frame, st.accepted) => CrdsaPass(st, x).accepted = st.accepted
         /\ \/ Closed(frame, st.accepted)
            \/ \E k \in SlotsOf(CrdsaPass(st, x).accepted) : k \notin SlotsOf(st.accepted)
<1> DEFINE acc == st.accepted
<1>1. PICK h \in [0..n -> Decodings(frame)] :
        /\ h[0] = st /\ CrdsaPass(st, x) = h[n]
        /\ \A k \in 1..n : h[k] = SuppressAndAccept(h[k - 1], k - 1)
  BY PassRuns
<1>2. n \in Nat /\ DOMAIN frame = 0..(n - 1)
  BY SlotsInOrder DEF IsFrame
<1>3. \A a \in acc : Undecoded(frame, acc, a.slot) = {}
  BY DEF Decodings
<1> HIDE DEF acc
<1> DEFINE Same(j) == h[j].accepted = acc /\ \A k \in 0..(j - 1) : Revealed(frame, acc, k) = {}
           More(j) == \E k \in SlotsOf(h[j].accepted) : k \notin SlotsOf(acc)
           Fine(j) == /\ acc \subseteq h[j].accepted
                      /\ Closed(frame, acc) => h[j].accepted = acc
                      /\ Same(j) \/ More(j)
           G == {j \in Nat : j <= n => Fine(j)}
<1>4. 0 \in G
  <2> h[0].accepted = acc /\ 0..(0 - 1) = {}
    BY <1>1 DEF acc
  <2> QED
    OBVIOUS
<1>5. ASSUME NEW j \in Nat, j \in G
      PROVE  j + 1 \in G
  <2> SUFFICES ASSUME j + 1 <= n
               PROVE  /\ acc \subseteq h[j + 1].accepted
                      /\ Closed(frame, acc) => h[j + 1].accepted = acc
                      /\ Same(j + 1) \/ More(j + 1)
    OBVIOUS
  <2>1. j + 1 \in 1..n /\ (j + 1) - 1 = j /\ j \in 0..n /\ j \in DOMAIN frame
    BY <1>2
  <2>2. /\ acc \subseteq h[j].accepted /\ (Same(j) \/ More(j))
        /\ Closed(frame, acc) => h[j].accepted = acc
    BY <1>5, <2>1
  <2>3. h[j + 1] = SuppressAndAccept(h[j], j)
    BY <1>1, <2>1
  <2>4. h[j + 1].accepted = h[j].accepted \cup Revealed(frame, h[j].accepted, j)
    <3> h[j] \in Decodings(frame)
      BY <2>1
    <3> QED
      BY <2>1, <2>3, SuppressStep
  <2>5. acc \subseteq h[j + 1].accepted /\ (Closed(frame, acc) => h[j + 1].accepted = acc)
    BY <2>1, <2>2, <2>4 DEF Closed
  <2>6. CASE More(j)
    BY <2>4, <2>5, <2>6 DEF SlotsOf
  <2>7. CASE Same(j) /\ Revealed(frame, acc, j) = {}
    <3> \A k \in 0..((j + 1) - 1) : k = j \/ k \in 0..(j - 1)
      OBVIOUS
    <3> QED
      BY <2>4, <2>5, <2>7
  <2>8. CASE Same(j) /\ Revealed(frame, acc, j) # {}
    <3>1. PICK a \in Revealed(frame, acc, j) : TRUE
      BY <2>8
    <3>2. a.slot = j /\ Undecoded(frame, acc, j) # {}
      BY DEF Revealed
    <3>3. j \notin SlotsOf(acc)
      BY <1>3, <3>2 DEF SlotsOf
    <3>4. j \in SlotsOf(h[j + 1].accepted)
      BY <2>4, <2>8, <3>2 DEF SlotsOf
    <3> QED
      BY <2>5, <3>3, <3>4
  <2> QED
    BY <2>2, <2>6, <2>7, <2>8
<1>6. n \in G
  <2> HIDE DEF G
  <2> QED
    BY <1>2, <1>4, <1>5, NumberInduction
<1>7. /\ acc \subseteq h[n].accepted /\ (Same(n) \/ More(n))
      /\ Closed(frame, acc) => h[n].accepted = acc
  BY <1>2, <1>6
<1>8. Same(n) => Closed(frame, acc)
  BY <1>2 DEF Closed
<1>9. h[n] \in Decodings(frame)
  BY <1>2
<1> QED
  BY <1>1, <1>7, <1>8, <1>9 DEF acc
\* There are as many passes as slots.
LEMMA CrdsaRuns ==
  ASSUME NEW frame, NEW n, IsFrame(frame, n)
  PROVE  \E h \in [0..n -> Decodings(frame)] :
           /\ CrdsaAccepts(frame) = h[n].accepted
           /\ \A k \in 1..n : h[k] = CrdsaPass(h[k - 1], k - 1)
<1> DEFINE D == DOMAIN frame
           V == Decodings(frame)
           seq == EachSlot(frame)
           w == [left |-> frame, accepted |-> {}]
           step == [p \in V \X D |-> CrdsaPass(p[1], p[2])]
           F(it, s) == IF s = {} THEN w ELSE CrdsaPass(it[s \ {Max(s)}], seq[Max(s)])
<1>1. n \in Nat /\ seq \in [1..n -> D] /\ DOMAIN seq = 1..n /\ seq = [k \in 1..n |-> k - 1]
  BY SlotsInOrder DEF IsFrame
<1>2. w \in V
  BY DecodingStart
<1>3. step \in [V \X D -> V]
  BY PassStep
<1> HIDE DEF V, D, seq, w
<1>4. PICK it \in [SUBSET (1..n) -> V] : SequenceRule(it, n, w, step, seq)
  <2> HIDE DEF step
  <2> QED
    BY <1>1, <1>2, <1>3, SequenceFold
<1>5. \A s \in SUBSET (1..n) : s # {} => Max(s) \in s
  BY <1>1, MaxFacts
<1>6. \A s \in SUBSET (1..n) : it[s] = F(it, s)
  <2> TAKE s \in SUBSET (1..n)
  <2>1. CASE s = {}
    BY <1>4, <2>1 DEF SequenceRule
  <2>2. CASE s # {}
    <3>1. <<it[s \ {Max(s)}], seq[Max(s)]>> \in V \X D
      BY <1>1, <1>5, <2>2
    <3>2. it[s] = step[<<it[s \ {Max(s)}], seq[Max(s)]>>]
      <4> HIDE DEF step
      <4> QED
        BY <1>4, <2>2 DEF SequenceRule
    <3> QED
      BY <2>2, <3>1, <3>2
  <2> QED
    BY <2>1, <2>2
<1>7. PICK chosen : /\ chosen = [s \in SUBSET (1..n) |-> F(chosen, s)]
                    /\ CrdsaAccepts(frame) = chosen[1..n].accepted
  <2> DEFINE result == CHOOSE y : y = [s \in SUBSET (1..n) |-> F(y, s)]
  <2>1. it = [s \in SUBSET (1..n) |-> F(it, s)]
    <3> HIDE DEF F
    <3> QED
      BY <1>6
  <2>2. result = [s \in SUBSET (1..n) |-> F(result, s)]
    <3> HIDE DEF F
    <3> QED
      BY <2>1
  <2>3. CrdsaAccepts(frame) = result[1..n].accepted
    <3>1. FoldLeft(CrdsaPass, w, seq) = result[1..n]
      BY <1>1 DEF FoldLeft, MapThenFoldSet
    <3>2. CrdsaAccepts(frame) = FoldLeft(CrdsaPass, w, seq).accepted
      BY DEF CrdsaAccepts, w, seq
    <3> QED
      BY <3>1, <3>2
  <2> HIDE DEF result
  <2> QED
    BY <2>2, <2>3
<1>8. \A s \in SUBSET (1..n) : chosen[s] = F(chosen, s)
  <2> HIDE DEF F
  <2> QED
    BY <1>7
<1>9. FoldedBy(chosen, n, D, seq, V, w, step)
  <2>1. \A s \in SUBSET (1..n) :
          s # {} /\ chosen[s \ {Max(s)}] \in V =>
            chosen[s] = step[<<chosen[s \ {Max(s)}], seq[Max(s)]>>]
    <3> TAKE s \in SUBSET (1..n)
    <3> HAVE s # {} /\ chosen[s \ {Max(s)}] \in V
    <3> <<chosen[s \ {Max(s)}], seq[Max(s)]>> \in V \X D
      BY <1>1, <1>5
    <3> QED
      BY <1>8
  <2>2. chosen[{}] = w
    BY <1>8
  <2> HIDE DEF step
  <2> QED
    BY <1>1, <1>2, <1>3, <2>1, <2>2 DEF FoldedBy
<1>10. PICK h : Run(h, n, seq, V, w, step) /\ h[n] = chosen[1..n]
  <2> HIDE DEF step
  <2> QED
    BY <1>1, <1>9, FoldRuns
<1>11. h \in [0..n -> V]
  BY <1>10 DEF Run
<1>12. \A k \in 1..n : h[k] = CrdsaPass(h[k - 1], k - 1)
  <2> TAKE k \in 1..n
  <2>1. h[k] = step[<<h[k - 1], seq[k]>>]
    BY <1>10 DEF Run
  <2>2. h[k - 1] \in V /\ seq[k] \in D /\ seq[k] = k - 1
    BY <1>1, <1>11
  <2> QED
    BY <2>1, <2>2
<1> QED
  BY <1>7, <1>10, <1>11, <1>12 DEF V

\* As many passes as slots are enough.
LEMMA CrdsaCloses ==
  ASSUME NEW frame, NEW n, IsFrame(frame, n)
  PROVE  /\ Closed(frame, CrdsaAccepts(frame))
         /\ \E st \in Decodings(frame) : CrdsaAccepts(frame) = st.accepted
<1>1. PICK h \in [0..n -> Decodings(frame)] :
        /\ CrdsaAccepts(frame) = h[n].accepted
        /\ \A k \in 1..n : h[k] = CrdsaPass(h[k - 1], k - 1)
  BY CrdsaRuns
<1>2. n \in Nat /\ DOMAIN frame = 0..(n - 1) /\ Cardinality(0..(n - 1)) = n
      /\ IsFiniteSet(0..(n - 1))
  <2>1. n \in Nat /\ DOMAIN frame = 0..(n - 1) /\ Cardinality(0..(n - 1)) = n
    <3>1. DOMAIN frame = 0..(n - 1) /\ Cardinality(DOMAIN frame) = n
      BY SlotsInOrder
    <3>2. n \in Nat
      BY DEF IsFrame
    <3> QED
      BY ONLY <3>1, <3>2
  <2>2. 0 \in Int /\ n - 1 \in Int
    BY <2>1
  <2> QED
    BY <2>1, <2>2, FS_Interval
<1>3. \A j \in 0..n : /\ h[j] \in Decodings(frame)
                      /\ SlotsOf(h[j].accepted) \in SUBSET (0..(n - 1))
                      /\ IsFiniteSet(SlotsOf(h[j].accepted))
                      /\ Cardinality(SlotsOf(h[j].accepted)) \in Nat
                      /\ Cardinality(SlotsOf(h[j].accepted)) <= n
  <2> TAKE j \in 0..n
  <2>1. h[j].accepted \in SUBSET Heard(frame)
    BY DEF Decodings
  <2>2. SlotsOf(h[j].accepted) \in SUBSET (0..(n - 1))
    BY <1>2, <2>1 DEF SlotsOf, Heard
  <2> QED
    BY <1>2, <2>2, FS_Subset, FS_CardinalityType
<1> DEFINE G == {j \in Nat : j <= n => \/ Closed(frame, h[j].accepted)
                                       \/ Cardinality(SlotsOf(h[j].accepted)) >= j}
<1>4. 0 \in G
  BY <1>2, <1>3
<1>5. ASSUME NEW j \in Nat, j \in G
      PROVE  j + 1 \in G
  <2> SUFFICES ASSUME j + 1 <= n
               PROVE  \/ Closed(frame, h[j + 1].accepted)
                      \/ Cardinality(SlotsOf(h[j + 1].accepted)) >= j + 1
    OBVIOUS
  <2>1. j + 1 \in 1..n /\ (j + 1) - 1 = j /\ j \in 0..n /\ j + 1 \in 0..n
    BY <1>2
  <2>2. h[j + 1] = CrdsaPass(h[j], j)
    BY <1>1, <2>1
  <2> DEFINE a == SlotsOf(h[j].accepted)
             b == SlotsOf(h[j + 1].accepted)
  <2>3. /\ h[j].accepted \subseteq h[j + 1].accepted
        /\ Closed(frame, h[j].accepted) => h[j + 1].accepted = h[j].accepted
        /\ Closed(frame, h[j].accepted) \/ \E k \in b : k \notin a
    <3> h[j] \in Decodings(frame)
      BY <2>1
    <3> QED
      BY <2>2, PassStep
  <2>4. CASE Closed(frame, h[j].accepted)
    BY <2>3, <2>4
  <2>5. CASE ~Closed(frame, h[j].accepted)
    <3>1. Cardinality(a) >= j
      BY <1>5, <2>1, <2>5
    <3>2. PICK k \in b : k \notin a
      BY <2>3, <2>5
    <3>3. a \subseteq b
      BY <2>3 DEF SlotsOf
    <3>4. IsFiniteSet(b) /\ Cardinality(b) \in Nat /\ Cardinality(a) \in Nat
      BY <1>3, <2>1
    <3> HIDE DEF a, b
    <3>5. a \in SUBSET (b \ {k})
      BY <3>2, <3>3
    <3>6. IsFiniteSet(b \ {k}) /\ Cardinality(b \ {k}) = Cardinality(b) - 1
      BY <3>2, <3>4, FS_RemoveElement
    <3>7. Cardinality(a) <= Cardinality(b \ {k})
      BY <3>5, <3>6, FS_Subset
    <3> QED
      BY <3>1, <3>4, <3>6, <3>7 DEF b
  <2> QED
    BY <2>4, <2>5
<1>6. n \in G
  <2> HIDE DEF G
  <2> QED
    BY <1>2, <1>4, <1>5, NumberInduction
<1>7. CASE Cardinality(SlotsOf(h[n].accepted)) >= n
  <2>1. n \in 0..n
    BY <1>2
  <2>2. SlotsOf(h[n].accepted) = 0..(n - 1)
    <3> DEFINE a == SlotsOf(h[n].accepted)
    <3>1. a \in SUBSET (0..(n - 1)) /\ Cardinality(a) <= n /\ Cardinality(a) \in Nat
      BY <1>3, <2>1
    <3>2. Cardinality(a) = Cardinality(0..(n - 1))
      BY <1>2, <1>7, <3>1
    <3> HIDE DEF a
    <3>3. a = 0..(n - 1)
      BY <1>2, <3>1, <3>2, FS_Subset
    <3> QED
      BY <3>3 DEF a
  <2>3. \A k \in DOMAIN frame : Undecoded(frame, h[n].accepted, k) = {}
    <3> TAKE k \in DOMAIN frame
    <3>1. PICK a \in h[n].accepted : a.slot = k
      BY <1>2, <2>2 DEF SlotsOf
    <3> QED
      BY <1>3, <2>1, <3>1 DEF Decodings
  <2>4. Closed(frame, h[n].accepted)
    BY <2>3 DEF Closed, Revealed
  <2> QED
    BY <1>1, <1>2, <2>1, <2>4
<1>8. CASE Closed(frame, h[n].accepted)
  BY <1>1, <1>2, <1>8
<1> QED
  BY <1>2, <1>6, <1>7, <1>8

\* A set has two elements when it has two that differ.
LEMMA TwoElements ==
  ASSUME NEW S, IsFiniteSet(S)
  PROVE  Cardinality(S) >= 2 <=> \E p, q \in S : p # q
<1>1. ASSUME Cardinality(S) >= 2
      PROVE  \E p, q \in S : p # q
  <2>1. Cardinality(S) \in Nat /\ S # {}
    BY <1>1, FS_CardinalityType, FS_EmptySet
  <2>2. PICK p \in S : TRUE
    BY <2>1
  <2>3. IsFiniteSet(S \ {p}) /\ Cardinality(S \ {p}) = Cardinality(S) - 1
    BY FS_RemoveElement
  <2>4. S \ {p} # {}
    BY <1>1, <2>1, <2>3, FS_EmptySet
  <2> QED
    BY <2>4
<1>2. ASSUME NEW p \in S, NEW q \in S, p # q
      PROVE  Cardinality(S) >= 2
  <2>1. /\ IsFiniteSet(S \ {p}) /\ Cardinality(S \ {p}) = Cardinality(S) - 1
        /\ Cardinality(S) \in Nat
    BY FS_RemoveElement, FS_CardinalityType
  <2>2. S \ {p} # {} /\ Cardinality(S \ {p}) \in Nat
    BY <1>2, <2>1, FS_CardinalityType
  <2>3. Cardinality(S \ {p}) # 0
    BY <2>1, <2>2, FS_EmptySet
  <2> QED
    BY <2>1, <2>2, <2>3
<1> QED
  BY <1>1, <1>2

\* Packets that hide one another are never alone.
LEMMA HidingIsHidden ==
  ASSUME NEW frame, \A k \in DOMAIN frame : IsFiniteSet(frame[k]), NEW X
  PROVE  HideOneAnother(X, frame) <=> Hidden(X, frame)
<1> DEFINE in(k) == {q \in frame[k] : Key(q) \in X}
<1>1. ASSUME NEW k \in DOMAIN frame
      PROVE  Cardinality(in(k)) >= 2 <=> \E p, q \in in(k) : p # q
  <2>1. in(k) \in SUBSET frame[k]
    OBVIOUS
  <2> HIDE DEF in
  <2>2. IsFiniteSet(in(k))
    BY <2>1, FS_Subset
  <2> QED
    BY <2>2, TwoElements
<1>2. \A k \in DOMAIN frame : Keys(frame[k]) \cap X # {} <=> in(k) # {}
  BY DEF Keys
<1>3. ASSUME HideOneAnother(X, frame), NEW k \in DOMAIN frame, NEW p \in frame[k], Key(p) \in X
      PROVE  \E q \in frame[k] : q # p /\ Key(q) \in X
  <2>1. Cardinality(in(k)) >= 2
    BY <1>2, <1>3 DEF HideOneAnother
  <2> QED
    BY <1>1, <2>1
<1>4. ASSUME Hidden(X, frame), NEW k \in DOMAIN frame, Keys(frame[k]) \cap X # {}
      PROVE  Cardinality(in(k)) >= 2
  <2>1. PICK p \in in(k) : TRUE
    BY <1>2, <1>4
  <2>2. PICK q \in frame[k] : q # p /\ Key(q) \in X
    BY <1>4, <2>1 DEF Hidden
  <2> QED
    BY <1>1, <2>1, <2>2
<1> QED
  BY <1>3, <1>4 DEF HideOneAnother, Hidden

\* Interference cancellation goes as far as it can, for every frame: any number
\* of slots, any packets in each of them.  What removeCollisions (Crdsa) leaves is
\* a set of packets that hide one another, nothing it decodes is in one, and it
\* decodes all that removeCollisions (Dsa) accepts.
THEOREM CrdsaGoesAsFarAsItCan ==
  ASSUME NEW frame, NEW n, IsFrame(frame, n), \A k \in DOMAIN frame : IsFiniteSet(frame[k])
  PROVE  LET decoded == Keys({a.pkt : a \in CrdsaAccepts(frame)})
         IN  /\ HideOneAnother(AllKeys(frame) \ decoded, frame)
             /\ \A X \in SUBSET AllKeys(frame) : HideOneAnother(X, frame) => X \cap decoded = {}
             /\ Keys({a.pkt : a \in DsaAccepts(frame)}) \subseteq decoded
<1> DEFINE acc == CrdsaAccepts(frame)
           decoded == KeysOf(acc)
           others == AllKeys(frame) \ decoded
<1>1. decoded = Keys({a.pkt : a \in CrdsaAccepts(frame)})
  BY DEF KeysOf
<1>2. PICK st \in Decodings(frame) : Closed(frame, acc) /\ acc = st.accepted
  BY CrdsaCloses
<1> HIDE DEF acc
<1>3. \A X \in SUBSET AllKeys(frame) : Hidden(X, frame) => X \cap decoded = {}
  BY <1>2 DEF Decodings
<1>4. \A k \in DOMAIN frame : \A p \in frame[k] : Key(p) \in others <=> p \in Undecoded(frame, acc, k)
  BY DEF AllKeys, Keys, Undecoded
<1>5. Hidden(others, frame)
  <2> SUFFICES ASSUME NEW k \in DOMAIN frame, NEW p \in frame[k], Key(p) \in others
               PROVE  \E q \in frame[k] : q # p /\ Key(q) \in others
    BY DEF Hidden
  <2>1. p \in Undecoded(frame, acc, k)
    BY <1>4
  <2>2. Undecoded(frame, acc, k) # {p}
    <3>1. Revealed(frame, acc, k) = {}
      BY <1>2 DEF Closed
    <3> HIDE DEF others
    <3> QED
      BY ONLY <2>1, <3>1 DEF Revealed
  <2>3. PICK q \in Undecoded(frame, acc, k) : q # p
    BY <2>1, <2>2
  <2>4. q \in frame[k]
    BY DEF Undecoded
  <2> QED
    BY <1>4, <2>3, <2>4
<1>6. Keys({a.pkt : a \in DsaAccepts(frame)}) \subseteq decoded
  <2> SUFFICES ASSUME NEW a \in DsaAccepts(frame), Key(a.pkt) \notin decoded
               PROVE  FALSE
    BY DEF Keys
  <2>1. a \in Alone(frame)
    BY DsaAlone
  <2>2. a.slot \in DOMAIN frame /\ frame[a.slot] = {a.pkt}
    BY <2>1 DEF Alone, Heard
  <2>3. Key(a.pkt) \in others
    BY <2>2 DEF AllKeys, Keys
  <2> HIDE DEF others
  <2> QED
    BY <1>5, <2>2, <2>3 DEF Hidden
<1>7. HideOneAnother(others, frame)
  BY <1>5, HidingIsHidden
<1>8. \A X \in SUBSET AllKeys(frame) : HideOneAnother(X, frame) => X \cap decoded = {}
  BY <1>3, HidingIsHidden
<1> HIDE DEF decoded
<1> QED
  BY <1>1, <1>6, <1>7, <1>8 DEF others

\* In particular for four packets, twice each, in four slots.
THEOREM CrdsaCompleteHolds == Spec => []CrdsaIsComplete
<1>1. CrdsaIsComplete
  <2> SUFFICES ASSUME NEW where \in Placements
               PROVE  LET frame == [k \in 0..3 |-> {NoiseFrom(x) : x \in {y \in 1..4 : k \in where[y]}}]
                          all == {Key(NoiseFrom(x)) : x \in 1..4}
                          decoded == Keys({a.pkt : a \in CrdsaAccepts(frame)})
                      IN  /\ HideOneAnother(all \ decoded, frame)
                          /\ \A X \in SUBSET all : HideOneAnother(X, frame) => X \cap decoded = {}
                          /\ Keys({a.pkt : a \in DsaAccepts(frame)}) \subseteq decoded
    BY DEF CrdsaIsComplete
  <2> DEFINE In(k) == {y \in 1..4 : k \in where[y]}
             Noise(k) == {NoiseFrom(x) : x \in In(k)}
             frame == [k \in 0..3 |-> Noise(k)]
             all == {Key(NoiseFrom(x)) : x \in 1..4}
  <2>1. ASSUME NEW k \in 0..3
        PROVE  IsFiniteSet(Noise(k))
    <3>1. In(k) \in SUBSET (1..4) /\ IsFiniteSet(1..4)
      <4> 1 \in Int /\ 4 \in Int
        OBVIOUS
      <4> QED
        BY FS_Interval
    <3>2. IsFiniteSet(In(k))
      BY <3>1, FS_Subset
    <3> DEFINE f == [x \in In(k) |-> NoiseFrom(x)]
    <3> HIDE DEF In
    <3>3. f \in Surjection(In(k), Noise(k))
      BY DEF Surjection
    <3> HIDE DEF f, Noise
    <3> QED
      BY <3>2, <3>3, FS_Surjection
  <2>2. \A x \in 1..4 : \E k \in 0..3 : k \in where[x]
    <3> TAKE x \in 1..4
    <3>1. where[x] \in SUBSET (0..3) /\ Cardinality(where[x]) = 2
      BY DEF Placements
    <3>2. where[x] # {}
      BY <3>1, FS_EmptySet
    <3> QED
      BY <3>1, <3>2
  <2>3. AllKeys(frame) = all
    <3>1. DOMAIN frame = 0..3 /\ \A k \in 0..3 : frame[k] = Noise(k)
      OBVIOUS
    <3>2. AllKeys(frame) = UNION {Keys(Noise(k)) : k \in 0..3}
      <4> HIDE DEF frame, Noise
      <4> QED
        BY <3>1 DEF AllKeys
    <3>3. \A k \in 0..3 : Keys(Noise(k)) \subseteq all
      BY DEF Keys
    <3>4. \A x \in 1..4 : \E k \in 0..3 : Key(NoiseFrom(x)) \in Keys(Noise(k))
      BY <2>2 DEF Keys
    <3>5. all \subseteq UNION {Keys(Noise(k)) : k \in 0..3}
      <4> HIDE DEF Noise
      <4> SUFFICES ASSUME NEW x \in 1..4
                   PROVE  Key(NoiseFrom(x)) \in UNION {Keys(Noise(k)) : k \in 0..3}
        OBVIOUS
      <4>1. PICK k \in 0..3 : Key(NoiseFrom(x)) \in Keys(Noise(k))
        BY <3>4
      <4> QED
        BY ONLY <4>1
    <3> HIDE DEF Noise, all
    <3> QED
      BY <3>2, <3>3, <3>5
  <2>4. IsFrame(frame, 4) /\ \A k \in DOMAIN frame : IsFiniteSet(frame[k])
    <3> HIDE DEF Noise
    <3> 4 \in Nat /\ 4 - 1 = 3
      OBVIOUS
    <3> QED
      BY <2>1 DEF IsFrame
  <2> HIDE DEF frame, all
  <2>5. LET decoded == Keys({a.pkt : a \in CrdsaAccepts(frame)})
        IN  /\ HideOneAnother(all \ decoded, frame)
            /\ \A X \in SUBSET all : HideOneAnother(X, frame) => X \cap decoded = {}
            /\ Keys({a.pkt : a \in DsaAccepts(frame)}) \subseteq decoded
    BY <2>3, <2>4, CrdsaGoesAsFarAsItCan
  <2> QED
    BY <2>5 DEF frame, all
<1> QED
  BY <1>1, PTL
-----------------------------------------------------------------------------
(* The packets of a frame that the NCC accepts. *)

\* removeCollisions only gives packets it heard.
LEMMA AcceptedHeard ==
  ASSUME NEW frame, NEW n, IsFrame(frame, n)
  PROVE  Accepted(frame) \in Seq(UNION {frame[k] : k \in DOMAIN frame})
<1> DEFINE set == IF algo = "CRDSA" THEN CrdsaAccepts(frame) ELSE DsaAccepts(frame)
           S == {a.slot : a \in set}
           order == InOrder(S)
           T == UNION {frame[k] : k \in DOMAIN frame}
           result == [i \in DOMAIN order |-> (CHOOSE a \in set : a.slot = order[i]).pkt]
<1>1. set \in SUBSET Heard(frame)
  <2>1. DsaAccepts(frame) \in SUBSET Heard(frame)
    BY DsaAlone DEF Alone
  <2>2. CrdsaAccepts(frame) \in SUBSET Heard(frame)
    BY CrdsaCloses DEF Decodings
  <2> QED
    BY <2>1, <2>2
<1>2. Accepted(frame) = result
  BY DEF Accepted
<1> HIDE DEF set
<1>3. \A a \in set : a.slot \in 0..(n - 1) /\ a.pkt \in T
  BY <1>1, SlotsInOrder DEF Heard
<1>4. S \in SUBSET Nat /\ IsFiniteSet(S)
  <2>1. n \in Nat
    BY DEF IsFrame
  <2>2. S \in SUBSET (0..(n - 1))
    BY <1>3
  <2>3. IsFiniteSet(0..(n - 1))
    <3> 0 \in Int /\ n - 1 \in Int
      BY <2>1
    <3> QED
      BY FS_Interval
  <2>4. 0..(n - 1) \in SUBSET Nat
    BY <2>1
  <2> HIDE DEF S
  <2>5. IsFiniteSet(S)
    BY <2>2, <2>3, FS_Subset
  <2> QED
    BY <2>2, <2>4, <2>5
<1>5. Cardinality(S) \in Nat /\ order \in [1..Cardinality(S) -> S]
  <2> HIDE DEF S
  <2> QED
    BY <1>4, InOrderFacts
<1> HIDE DEF order
<1>6. \A i \in 1..Cardinality(S) : (CHOOSE a \in set : a.slot = order[i]).pkt \in T
  <2> TAKE i \in 1..Cardinality(S)
  <2>1. order[i] \in S
    <3> HIDE DEF S
    <3> QED
      BY <1>5
  <2>2. \E a \in set : a.slot = order[i]
    BY <2>1
  <2> HIDE DEF T
  <2> QED
    BY <1>3, <2>2
<1>7. result \in [1..Cardinality(S) -> T]
  <2>1. DOMAIN order = 1..Cardinality(S)
    <3> HIDE DEF S
    <3> QED
      BY <1>5
  <2> HIDE DEF S, T
  <2> QED
    BY <1>6, <2>1
<1>8. result \in Seq(T)
  <2> HIDE DEF S, T, result
  <2> QED
    BY <1>5, <1>7
<1> HIDE DEF result
<1> QED
  BY <1>2, <1>8 DEF T

-----------------------------------------------------------------------------
(* The PDUs. *)

\* The packets of terminals that the NCC received.
Received == UNION {slots[k] : k \in SlotIds}

\* addPacket loses nothing it kept.
Keeps(wait, given) ==
  \A t \in Terminals : waitProp[t] \cup UNION handed[t] \subseteq wait[t] \cup UNION given[t]

NccStates ==
  {st \in [wait : [Terminals -> SUBSET Transmission],
           handed : [Terminals -> SUBSET SUBSET Transmission],
           acks : [Terminals -> SUBSET (Nat \X Nat \X Nat)]] :
     NccOK(st.wait, st.handed, st.acks) /\ Keeps(st.wait, st.handed)}

\* A packet is kept, or completes a PDU that goes up; then it is acknowledged.
LEMMA AddPacketStep ==
  ASSUME NEW st \in NccStates, NEW p \in Transmission, Genuine(p.tal, p)
  PROVE  AddPacket(st, p) \in NccStates
<1> DEFINE t == p.tal
           before == {q \in st.wait[t] : q.id = p.id}
           pdu == before \cup {p}
           complete == Cardinality(pdu) = p.pduNb
           wait2 == [st.wait EXCEPT ![t] = IF complete THEN @ \ pdu ELSE @ \cup {p}]
           handed2 == [st.handed EXCEPT ![t] = IF complete THEN @ \cup {pdu} ELSE @]
           acks2 == [st.acks EXCEPT ![t] = @ \cup {UniqueId(p)}]
<1>1. AddPacket(st, p) = [wait |-> wait2, handed |-> handed2, acks |-> acks2]
  BY DEF AddPacket
<1>2. /\ st.wait \in [Terminals -> SUBSET Transmission]
      /\ st.handed \in [Terminals -> SUBSET SUBSET Transmission]
      /\ st.acks \in [Terminals -> SUBSET (Nat \X Nat \X Nat)]
      /\ NccOK(st.wait, st.handed, st.acks) /\ Keeps(st.wait, st.handed)
  BY DEF NccStates
<1>3. t \in Terminals /\ UniqueId(p) \in Nat \X Nat \X Nat
  BY CountsAssumption DEF Transmission, UniqueId
<1>4. before \in SUBSET st.wait[t] /\ pdu \in SUBSET Transmission
  BY <1>2, <1>3
<1>5. Full(pdu) \/ ~complete
  <2>1. IsFiniteSet(before)
    <3> IsFiniteSet(st.wait[t])
      BY <1>2, <1>3 DEF NccOK
    <3> HIDE DEF before
    <3> QED
      BY <1>4, FS_Subset
  <2>2. IsFiniteSet(pdu)
    <3> HIDE DEF before
    <3> QED
      BY <2>1, FS_AddElement
  <2> QED
    BY <2>2 DEF Full
<1> HIDE DEF complete
<1>6. wait2 \in [Terminals -> SUBSET Transmission]
  BY <1>2, <1>3, <1>4
<1>7. handed2 \in [Terminals -> SUBSET SUBSET Transmission]
  BY <1>2, <1>3, <1>4
<1>8. acks2 \in [Terminals -> SUBSET (Nat \X Nat \X Nat)]
  BY <1>2, <1>3
<1>9. \A u \in Terminals : u # t => /\ wait2[u] = st.wait[u] /\ handed2[u] = st.handed[u]
                                    /\ acks2[u] = st.acks[u]
  BY <1>2
<1>10. /\ wait2[t] = IF complete THEN st.wait[t] \ pdu ELSE st.wait[t] \cup {p}
       /\ handed2[t] = IF complete THEN st.handed[t] \cup {pdu} ELSE st.handed[t]
       /\ acks2[t] = st.acks[t] \cup {UniqueId(p)}
  BY <1>2, <1>3
<1>11. wait2[t] \cup UNION handed2[t] = (st.wait[t] \cup UNION st.handed[t]) \cup {p}
  <2>1. CASE complete
    <3>1. wait2[t] = st.wait[t] \ pdu /\ handed2[t] = st.handed[t] \cup {pdu}
      BY <1>10, <2>1
    <3>2. pdu \subseteq st.wait[t] \cup {p} /\ p \in pdu
      BY <1>4
    <3> HIDE DEF pdu, wait2, handed2, before, t
    <3> QED
      BY <3>1, <3>2
  <2>2. CASE ~complete
    <3>1. wait2[t] = st.wait[t] \cup {p} /\ handed2[t] = st.handed[t]
      BY <1>10, <2>2
    <3> HIDE DEF pdu, wait2, handed2, before, t
    <3> QED
      BY <3>1
  <2> QED
    BY <2>1, <2>2
<1>12. \A u \in Terminals :
         /\ IsFiniteSet(st.wait[u])
         /\ \A q \in st.wait[u] \cup UNION st.handed[u] : q.tal = u /\ Genuine(u, q)
         /\ \A d \in st.handed[u] : Full(d)
         /\ \A id \in st.acks[u] :
              \E q \in st.wait[u] \cup UNION st.handed[u] : UniqueId(q) = id
  BY <1>2 DEF NccOK
<1>13. IsFiniteSet(wait2[t])
  <2>1. IsFiniteSet(st.wait[t]) /\ IsFiniteSet(st.wait[t] \cup {p})
    BY <1>3, <1>12, FS_AddElement
  <2>2. st.wait[t] \ pdu \in SUBSET st.wait[t]
    OBVIOUS
  <2> HIDE DEF pdu, before, t
  <2>3. IsFiniteSet(st.wait[t] \ pdu)
    BY <2>1, <2>2, FS_Subset
  <2> QED
    BY <1>10, <2>1, <2>3
<1>14. \A d \in handed2[t] : Full(d)
  <2> \A d \in st.handed[t] : Full(d)
    BY <1>3, <1>12
  <2> HIDE DEF handed2, pdu, t
  <2> QED
    BY <1>5, <1>10
<1> HIDE DEF wait2, handed2, acks2, pdu, before
<1>15. \A q \in wait2[t] \cup UNION handed2[t] : q.tal = t /\ Genuine(t, q)
  BY <1>3, <1>11, <1>12
<1>16. \A id \in acks2[t] : \E q \in wait2[t] \cup UNION handed2[t] : UniqueId(q) = id
  <2> TAKE id \in acks2[t]
  <2>1. CASE id = UniqueId(p)
    BY <1>11, <2>1
  <2>2. CASE id \in st.acks[t]
    BY <1>3, <1>11, <1>12, <2>2
  <2> QED
    BY <1>10, <2>1, <2>2
<1>17. NccOK(wait2, handed2, acks2)
  <2> SUFFICES ASSUME NEW u \in Terminals
               PROVE  /\ IsFiniteSet(wait2[u])
                      /\ \A q \in wait2[u] \cup UNION handed2[u] : q.tal = u /\ Genuine(u, q)
                      /\ \A d \in handed2[u] : Full(d)
                      /\ \A id \in acks2[u] :
                           \E q \in wait2[u] \cup UNION handed2[u] : UniqueId(q) = id
    BY <1>6, <1>7, <1>8 DEF NccOK
  <2>1. CASE u = t
    BY <1>13, <1>14, <1>15, <1>16, <2>1
  <2>2. CASE u # t
    BY <1>9, <1>12, <2>2
  <2> QED
    BY <2>1, <2>2
<1>18. Keeps(wait2, handed2)
  <2> SUFFICES ASSUME NEW u \in Terminals
               PROVE  waitProp[u] \cup UNION handed[u] \subseteq wait2[u] \cup UNION handed2[u]
    BY DEF Keeps
  <2>1. waitProp[u] \cup UNION handed[u] \subseteq st.wait[u] \cup UNION st.handed[u]
    BY <1>2 DEF Keeps
  <2>2. CASE u = t
    BY <1>11, <2>1, <2>2
  <2>3. CASE u # t
    BY <1>9, <2>1, <2>3
  <2> QED
    BY <2>2, <2>3
<1> DEFINE new == [wait |-> wait2, handed |-> handed2, acks |-> acks2]
<1>19. /\ new \in [wait : [Terminals -> SUBSET Transmission],
                   handed : [Terminals -> SUBSET SUBSET Transmission],
                   acks : [Terminals -> SUBSET (Nat \X Nat \X Nat)]]
       /\ new.wait = wait2 /\ new.handed = handed2 /\ new.acks = acks2
  BY <1>6, <1>7, <1>8
<1> HIDE DEF new
<1>20. new \in NccStates
  BY <1>17, <1>18, <1>19 DEF NccStates
<1> QED
  BY <1>1, <1>20 DEF new
\* So does a frame of them.
LEMMA AddPacketRuns ==
  ASSUME NEW w \in NccStates, NEW seq \in Seq({p \in Transmission : Genuine(p.tal, p)})
  PROVE  FoldLeft(AddPacket, w, seq) \in NccStates
<1> DEFINE n == Len(seq)
           T == {p \in Transmission : Genuine(p.tal, p)}
           V == NccStates
           step == [p \in V \X T |-> AddPacket(p[1], p[2])]
           F(it, s) == IF s = {} THEN w ELSE AddPacket(it[s \ {Max(s)}], seq[Max(s)])
<1>1. n \in Nat /\ seq \in [1..n -> T] /\ DOMAIN seq = 1..n
  OBVIOUS
<1>2. step \in [V \X T -> V]
  BY AddPacketStep
<1>3. w \in V
  OBVIOUS
<1> HIDE DEF V, T, n
<1>4. PICK it \in [SUBSET (1..n) -> V] : SequenceRule(it, n, w, step, seq)
  <2> HIDE DEF step
  <2> QED
    BY <1>1, <1>2, <1>3, SequenceFold
<1>5. \A s \in SUBSET (1..n) : s # {} => Max(s) \in s
  BY <1>1, MaxFacts
<1>6. \A s \in SUBSET (1..n) : it[s] = F(it, s)
  <2> TAKE s \in SUBSET (1..n)
  <2>1. CASE s = {}
    BY <1>4, <2>1 DEF SequenceRule
  <2>2. CASE s # {}
    <3>1. <<it[s \ {Max(s)}], seq[Max(s)]>> \in V \X T
      BY <1>1, <1>5, <2>2
    <3>2. it[s] = step[<<it[s \ {Max(s)}], seq[Max(s)]>>]
      <4> HIDE DEF step
      <4> QED
        BY <1>4, <2>2 DEF SequenceRule
    <3> QED
      BY <2>2, <3>1, <3>2
  <2> QED
    BY <2>1, <2>2
<1>7. PICK chosen : /\ chosen = [s \in SUBSET (1..n) |-> F(chosen, s)]
                    /\ FoldLeft(AddPacket, w, seq) = chosen[1..n]
  <2> DEFINE result == CHOOSE y : y = [s \in SUBSET (1..n) |-> F(y, s)]
  <2>1. it = [s \in SUBSET (1..n) |-> F(it, s)]
    <3> HIDE DEF F
    <3> QED
      BY <1>6
  <2>2. result = [s \in SUBSET (1..n) |-> F(result, s)]
    <3> HIDE DEF F
    <3> QED
      BY <2>1
  <2>3. FoldLeft(AddPacket, w, seq) = result[1..n]
    BY <1>1 DEF FoldLeft, MapThenFoldSet
  <2> HIDE DEF result
  <2> QED
    BY <2>2, <2>3
<1>8. \A s \in SUBSET (1..n) : chosen[s] = F(chosen, s)
  <2> HIDE DEF F
  <2> QED
    BY <1>7
<1>9. FoldedBy(chosen, n, T, seq, V, w, step)
  <2>1. \A s \in SUBSET (1..n) :
          s # {} /\ chosen[s \ {Max(s)}] \in V =>
            chosen[s] = step[<<chosen[s \ {Max(s)}], seq[Max(s)]>>]
    <3> TAKE s \in SUBSET (1..n)
    <3> HAVE s # {} /\ chosen[s \ {Max(s)}] \in V
    <3> <<chosen[s \ {Max(s)}], seq[Max(s)]>> \in V \X T
      BY <1>1, <1>5
    <3> QED
      BY <1>8
  <2>2. chosen[{}] = w
    BY <1>8
  <2> HIDE DEF step
  <2> QED
    BY <1>1, <1>2, <1>3, <2>1, <2>2 DEF FoldedBy
<1>10. PICK h : Run(h, n, seq, V, w, step) /\ h[n] = chosen[1..n]
  <2> HIDE DEF step
  <2> QED
    BY <1>1, <1>9, FoldRuns
<1>11. h[n] \in V
  BY <1>1, <1>10 DEF Run
<1> QED
  BY <1>7, <1>10, <1>11 DEF V

-----------------------------------------------------------------------------
(* The invariant holds at the start and every action keeps it. *)

\* The received slots with the simulated traffic are a frame.
LEMMA FrameOfNoise ==
  ASSUME NEW noise
  PROVE  IsFrame(WithNoise(noise), Slots)
BY SlotsAssumption DEF IsFrame, WithNoise, SlotIds

\* The packets that are kept of a frame with the simulated traffic were received.
LEMMA RealReceived ==
  ASSUME Shapes, SentGenuine, NEW noise \in Noises
  PROVE  LET all == Accepted(WithNoise(noise))
         IN  Picked(all, {i \in DOMAIN all : all[i].tal \in Terminals})
               \in Seq({p \in Transmission : Genuine(p.tal, p)})
<1> DEFINE frame == WithNoise(noise)
           T == UNION {frame[k] : k \in DOMAIN frame}
           all == Accepted(frame)
           places == {i \in DOMAIN all : all[i].tal \in Terminals}
           R == {p \in Transmission : Genuine(p.tal, p)}
<1>1. all \in Seq(T)
  BY FrameOfNoise, AcceptedHeard
<1>2. ASSUME NEW p \in T, p.tal \in Terminals
      PROVE  p \in R
  <2>1. PICK k \in SlotIds : p \in slots[k] \cup {NoiseFrom(x) : x \in {y \in Simulated : k \in noise[y]}}
    BY DEF WithNoise
  <2>2. \A x \in Simulated : NoiseFrom(x).tal \notin Terminals
    BY NamesAssumption DEF NoiseFrom
  <2>3. p \in slots[k]
    BY <1>2, <2>1, <2>2
  <2> QED
    BY <2>3 DEF Shapes, SentGenuine
<1> HIDE DEF frame, T, R
<1>3. places \in SUBSET Nat /\ IsFiniteSet(places)
  <2>1. places \in SUBSET (1..Len(all)) /\ Len(all) \in Nat
    <3> HIDE DEF all
    <3> QED
      BY <1>1
  <2> HIDE DEF all
  <2>2. IsFiniteSet(1..Len(all))
    <3> 1 \in Int /\ Len(all) \in Int
      BY <2>1
    <3> QED
      BY FS_Interval
  <2> HIDE DEF places
  <2>3. IsFiniteSet(places)
    BY <2>1, <2>2, FS_Subset
  <2> QED
    BY <2>1, <2>3
<1>4. \A i \in places : all[i] \in R
  <2> TAKE i \in places
  <2> all[i] \in T
    <3> HIDE DEF all
    <3> QED
      BY <1>1
  <2> QED
    BY <1>2
<1> HIDE DEF all
<1>5. Picked(all, places) \in Seq(R)
  <2> HIDE DEF places
  <2> QED
    BY <1>3, <1>4, PickedFacts
<1> QED
  BY <1>5 DEF all, frame, R

\* The tick of the NCC: every packet it accepts is one that was received, and it
\* adds them one by one.
LEMMA NccTickKeeps ==
  ASSUME AlohaInv, NccTick
  PROVE  AlohaInv'
<1> USE DEF AlohaInv
<1>1. PICK noise \in Noises :
        LET all == Accepted(WithNoise(noise))
            real == Picked(all, {i \in DOMAIN all : all[i].tal \in Terminals})
            st == FoldLeft(AddPacket, [wait |-> waitProp, handed |-> handed, acks |-> acks], real)
        IN  waitProp' = st.wait /\ handed' = st.handed /\ acks' = st.acks
  BY DEF NccTick
<1> DEFINE all == Accepted(WithNoise(noise))
           real == Picked(all, {i \in DOMAIN all : all[i].tal \in Terminals})
           w == [wait |-> waitProp, handed |-> handed, acks |-> acks]
           st == FoldLeft(AddPacket, w, real)
<1>2. w \in NccStates
  <2>1. /\ w \in [wait : [Terminals -> SUBSET Transmission],
                  handed : [Terminals -> SUBSET SUBSET Transmission],
                  acks : [Terminals -> SUBSET (Nat \X Nat \X Nat)]]
        /\ w.wait = waitProp /\ w.handed = handed /\ w.acks = acks
    BY DEF NccOK
  <2>2. Keeps(waitProp, handed)
    BY DEF Keeps
  <2> HIDE DEF w
  <2> QED
    BY <2>1, <2>2 DEF NccStates
<1>3. real \in Seq({p \in Transmission : Genuine(p.tal, p)})
  BY RealReceived
<1> HIDE DEF w, real, all
<1>4. st \in NccStates
  BY <1>2, <1>3, AddPacketRuns
<1>5. waitProp' = st.wait /\ handed' = st.handed /\ acks' = st.acks
  BY <1>1 DEF w, real, all
<1> HIDE DEF st
<1>6. UNCHANGED <<talVars, bursts, acked, restarts, algo>> /\ slots' = [k \in SlotIds |-> {}]
  BY DEF NccTick
<1>7. Shapes' /\ Bounds'
  BY <1>6 DEF Shapes, Bounds, talVars
<1>8. SentGenuine' /\ OnePlace'
  <2>1. /\ fifo' = fifo /\ retrans' = retrans /\ waitAck' = waitAck
        /\ acked' = acked /\ bursts' = bursts
    BY <1>6 DEF talVars
  <2>2. \A k \in SlotIds : slots'[k] = {}
    BY <1>6
  <2>3. SentGenuine'
    BY <2>2 DEF SentGenuine
  <2>4. OnePlace'
    BY <2>1 DEF OnePlace
  <2> QED
    BY <2>3, <2>4
<1>9. NccOK(st.wait, st.handed, st.acks) /\ Keeps(st.wait, st.handed)
  BY <1>4 DEF NccStates
<1>10. NccOK(waitProp, handed, acks)'
  BY <1>5, <1>6, <1>9 DEF NccOK, Genuine
<1>11. AckedWasTaken'
  <2>1. \A t \in Terminals : waitProp[t] \cup UNION handed[t] \subseteq waitProp'[t] \cup UNION handed'[t]
    BY <1>5, <1>9 DEF Keeps
  <2>2. \A t \in Terminals : Taken(t) \subseteq Taken(t)'
    BY <2>1 DEF Taken
  <2> QED
    BY <1>6, <2>2 DEF AckedWasTaken, Reused
<1> QED
  BY <1>7, <1>8, <1>10, <1>11

\* At the start nothing is held.
LEMMA InitAlohaInv == Init => AlohaInv
<1> SUFFICES ASSUME Init PROVE AlohaInv
  OBVIOUS
<1> USE DEF Init
<1>1. Shapes
  <2>1. backoff \in [Terminals -> Nat]
    <3> 0..1 \subseteq Nat
      OBVIOUS
    <3> QED
      OBVIOUS
  <2> QED
    BY <2>1 DEF Shapes
<1>2. Bounds
  <2> SUFFICES ASSUME NEW t \in Terminals
               PROVE  baseId[t] <= Len(bursts[t]) /\ (cw[t] <= CwMax \/ cw[t] = 1) /\ backoff[t] <= cw[t]
    BY DEF Bounds
  <2>1. backoff[t] \in 0..1
    OBVIOUS
  <2> QED
    BY <2>1
<1>3. OnePlace
  <2> SUFFICES ASSUME NEW t \in Terminals
               PROVE  Held(<<>>, <<>>, <<>>, {}, <<>>)
    BY DEF OnePlace
  <2>1. /\ <<>> \in Seq(Fresh(<<>>)) /\ <<>> \in Seq(Resent(<<>>)) /\ <<>> \in Seq(Of(<<>>))
        /\ <<>> \in Seq([id : Nat, size : BurstSizes])
        /\ Len(<<>>) = 0 /\ DOMAIN <<>> = {}
    OBVIOUS
  <2>2. Distinct(<<>>) /\ Contents(<<>>) = {}
    BY <2>1 DEF Distinct, Contents
  <2>3. 0 <= FifoSize /\ 0 <= MaxBursts
    BY CountsAssumption
  <2> QED
    BY <2>1, <2>2, <2>3 DEF Held
<1>4. SentGenuine
  BY DEF SentGenuine
<1>5. NccOK(waitProp, handed, acks)
  <2>1. IsFiniteSet({})
    BY FS_EmptySet
  <2> QED
    BY <2>1 DEF NccOK
<1>6. AckedWasTaken
  BY DEF AckedWasTaken
<1> QED
  BY <1>1, <1>2, <1>3, <1>4, <1>5, <1>6 DEF AlohaInv

\* What is genuine stays so when a burst comes.
LEMMA GenuineStays ==
  ASSUME NEW B, NEW given \in Seq(B), NEW e \in B, NEW q, GenuineIn(given, q)
  PROVE  GenuineIn(Append(given, e), q)
<1>1. q.burst \in 1..Len(given) /\ q.burst \in DOMAIN Append(given, e)
  BY DEF GenuineIn
<1>2. Append(given, e)[q.burst] = given[q.burst]
  BY <1>1
<1> QED
  BY <1>1, <1>2 DEF GenuineIn

\* So the places of a terminal keep their packets.
LEMMA HeldStays ==
  ASSUME NEW f, NEW r, NEW w, NEW a, NEW given, Held(f, r, w, a, given),
         NEW e \in [id : Nat, size : BurstSizes], Len(given) < MaxBursts
  PROVE  Held(f, r, w, a, Append(given, e))
<1> DEFINE more == Append(given, e)
<1>1. /\ more \in Seq([id : Nat, size : BurstSizes]) /\ Len(more) = Len(given) + 1
      /\ DOMAIN given \subseteq DOMAIN more /\ Len(given) \in Nat
  BY DEF Held
<1>2. Of(given) \subseteq Of(more)
  BY GenuineStays DEF Of, Held
<1> HIDE DEF more
<1>3. Fresh(given) \subseteq Fresh(more) /\ Resent(given) \subseteq Resent(more)
  BY <1>2 DEF Fresh, Resent
<1>4. Len(more) <= MaxBursts
  BY <1>1, CountsAssumption
<1>5. f \in Seq(Fresh(more)) /\ r \in Seq(Resent(more)) /\ w \in Seq(Of(more))
  <2>1. \A S, T : S \subseteq T => Seq(S) \subseteq Seq(T)
    OBVIOUS
  <2> QED
    BY <1>2, <1>3, <2>1 DEF Held
<1>6. Held(f, r, w, a, more)
  BY <1>1, <1>4, <1>5 DEF Held
<1> QED
  BY <1>6 DEF more

\* The packets of a new burst are none of those held before.
LEMMA BurstHeld ==
  ASSUME NEW f, NEW r, NEW w, NEW a, NEW given, Held(f, r, w, a, given),
         Len(given) < MaxBursts, NEW id \in Nat, NEW n \in BurstSizes, NEW stored \in 0..n,
         Len(f) + stored <= FifoSize
  PROVE  LET p == [i \in 1..stored |->
                     [burst |-> Len(given) + 1, id |-> id, seq |-> i - 1,
                      pduNb |-> n, nbr |-> 0, timeout |-> TimeoutSaf]]
         IN  Held(f \o p, r, w, a, Append(given, [id |-> id, size |-> n]))
<1> DEFINE e == [id |-> id, size |-> n]
           more == Append(given, e)
           last == Len(given) + 1
           x(i) == [burst |-> last, id |-> id, seq |-> i - 1,
                    pduNb |-> n, nbr |-> 0, timeout |-> TimeoutSaf]
           p == [i \in 1..stored |-> x(i)]
           T == Fresh(more)
<1>1. /\ n \in Nat /\ stored \in Nat /\ stored <= n /\ Len(given) \in Nat
      /\ last \in 1..MaxBursts /\ TimeoutSaf \in 0..TimeoutSaf /\ 0 \in 0..MaxRetransmissions
  BY CountsAssumption DEF Held
<1>2. Held(f, r, w, a, more)
  <2> e \in [id : Nat, size : BurstSizes]
    OBVIOUS
  <2> HIDE DEF e
  <2> QED
    BY HeldStays
<1>3. last \in DOMAIN more /\ more[last] = e /\ e.id = id /\ e.size = n
  BY DEF Held
<1>4. \A i \in 1..stored : x(i) \in T
  <2> TAKE i \in 1..stored
  <2>1. i - 1 \in 0..(n - 1) /\ i - 1 \in Nat
    BY <1>1
  <2>2. x(i) \in Packet
    BY <1>1, <2>1 DEF Packet
  <2>3. /\ x(i).burst = last /\ x(i).id = id /\ x(i).pduNb = n /\ x(i).seq = i - 1
        /\ x(i).nbr = 0
    OBVIOUS
  <2> HIDE DEF x, more, e, last
  <2>4. GenuineIn(more, x(i))
    BY <1>3, <2>1, <2>3 DEF GenuineIn
  <2> QED
    BY <2>2, <2>3, <2>4 DEF Fresh, Of
<1>5. \A i \in 1..stored : Content(x(i)) = <<last, i - 1>>
  BY DEF Content
<1>6. p \in Seq(T) /\ Len(p) = stored /\ DOMAIN p = 1..stored /\ \A i \in 1..stored : p[i] = x(i)
  <2> HIDE DEF x, T
  <2> p \in [1..stored -> T]
    BY <1>4
  <2> QED
    BY <1>1
<1> HIDE DEF p, x, T, more, last
<1>7. Distinct(p)
  <2> SUFFICES ASSUME NEW i \in 1..stored, NEW j \in 1..stored, Content(p[i]) = Content(p[j])
               PROVE  i = j
    BY <1>6 DEF Distinct
  <2>1. <<last, i - 1>> = <<last, j - 1>>
    BY <1>5, <1>6
  <2>2. i - 1 = j - 1
    BY <2>1
  <2> QED
    BY <2>2
<1>8. \A c \in Contents(p) : c[1] = last
  <2>1. \A i \in 1..stored : Content(p[i])[1] = last
    BY <1>5, <1>6
  <2> QED
    BY <1>6, <2>1 DEF Contents
<1>9. last \notin DOMAIN given
  BY DEF last, Held
<1>10. \A c \in Contents(f) \cup Contents(r) \cup Contents(w) \cup a : c[1] \in DOMAIN given
  <2>1. \A s : s \in Seq(Of(given)) => \A c \in Contents(s) : c[1] \in DOMAIN given
    <3> SUFFICES ASSUME NEW s \in Seq(Of(given)), NEW i \in DOMAIN s
                 PROVE  Content(s[i])[1] \in DOMAIN given
      BY DEF Contents
    <3> s[i] \in Of(given)
      OBVIOUS
    <3> QED
      BY DEF Of, GenuineIn, Content
  <2>2. f \in Seq(Of(given)) /\ r \in Seq(Of(given)) /\ w \in Seq(Of(given))
    <3>1. Fresh(given) \subseteq Of(given) /\ Resent(given) \subseteq Of(given)
      BY DEF Fresh, Resent
    <3>2. \A S, U : S \subseteq U => Seq(S) \subseteq Seq(U)
      OBVIOUS
    <3> QED
      BY <3>1, <3>2 DEF Held
  <2>3. \A c \in a : c[1] \in DOMAIN given
    BY DEF Held
  <2> QED
    BY <2>1, <2>2, <2>3
<1>11. Contents(p) \cap (Contents(f) \cup Contents(r) \cup Contents(w) \cup a) = {}
  BY <1>8, <1>9, <1>10
<1> DEFINE c == f \o p
<1>12. /\ c \in Seq(T) /\ Len(c) = Len(f) + stored
       /\ Contents(c) = Contents(f) \cup Contents(p) /\ Distinct(c)
  <2> f \in Seq(T) /\ Distinct(f)
    BY <1>2 DEF Held, T
  <2> QED
    BY <1>6, <1>7, <1>11, ConcatDistinct
<1> HIDE DEF c
<1>13. Held(c, r, w, a, more)
  BY <1>2, <1>11, <1>12 DEF Held, T
<1> QED
  BY <1>13 DEF c, p, x, more, last, e

\* A burst comes from the encapsulation.
LEMMA NewBurstKeeps ==
  ASSUME AlohaInv, NEW t \in Terminals, NEW n \in BurstSizes, NewBurst(t, n)
  PROVE  AlohaInv'
<1> USE DEF AlohaInv
<1> DEFINE room == FifoSize - Len(fifo[t])
           stored == IF n <= room THEN n ELSE room
           p == [i \in 1..stored |->
                  [burst |-> Len(bursts[t]) + 1, id |-> baseId[t], seq |-> i - 1,
                   pduNb |-> n, nbr |-> 0, timeout |-> TimeoutSaf]]
           e == [id |-> baseId[t], size |-> n]
<1>1. /\ Len(bursts[t]) < MaxBursts
      /\ fifo' = [fifo EXCEPT ![t] = fifo[t] \o p]
      /\ baseId' = [baseId EXCEPT ![t] = IF stored >= n - 1 THEN baseId[t] + 1 ELSE baseId[t]]
      /\ bursts' = [bursts EXCEPT ![t] = Append(bursts[t], e)]
      /\ UNCHANGED <<waitAck, retrans, cw, backoff, acks, nccVars, acked, restarts, algo>>
  BY DEF NewBurst
<1>2. Held(fifo[t], retrans[t], waitAck[t], acked[t], bursts[t])
  BY DEF OnePlace
<1>3. /\ n \in Nat /\ Len(fifo[t]) \in Nat /\ room \in Nat /\ Len(fifo[t]) <= FifoSize
      /\ baseId[t] \in Nat /\ baseId[t] <= Len(bursts[t]) /\ Len(bursts[t]) \in Nat
  BY <1>2, CountsAssumption DEF Held, Shapes, Bounds
<1>4. stored \in 0..n /\ Len(fifo[t]) + stored <= FifoSize
  <2>1. ASSUME NEW l \in Nat, FifoSize \in Nat, l <= FifoSize, n \in Nat
        PROVE  LET m == IF n <= FifoSize - l THEN n ELSE FifoSize - l
               IN  m \in 0..n /\ l + m <= FifoSize
    BY <2>1
  <2> QED
    BY <1>3, <2>1, CountsAssumption
<1>5. e \in [id : Nat, size : BurstSizes]
  BY <1>3
<1> HIDE DEF room, stored
<1>6. Held(fifo[t] \o p, retrans[t], waitAck[t], acked[t], Append(bursts[t], e))
  <2>1. Len(bursts[t]) < MaxBursts
    BY <1>1
  <2> QED
    BY ONLY <1>2, <1>3, <1>4, <2>1, n \in BurstSizes, BurstHeld
<1> DEFINE f == fifo[t] \o p
           more == Append(bursts[t], e)
<1>7. more \in Seq([id : Nat, size : BurstSizes]) /\ Len(more) = Len(bursts[t]) + 1
  <2> bursts[t] \in Seq([id : Nat, size : BurstSizes])
    BY DEF Shapes
  <2> HIDE DEF e
  <2> QED
    BY <1>5
<1>8. f \in Seq(Packet)
  <2>1. f \in Seq(Fresh(more))
    BY <1>6 DEF Held
  <2>2. Fresh(more) \subseteq Packet
    BY DEF Fresh, Of
  <2> HIDE DEF f, more
  <2> QED
    BY <2>1, <2>2
<1>9. \A q : GenuineIn(bursts[t], q) => GenuineIn(more, q)
  BY <1>5, GenuineStays DEF Shapes
<1>10. \A i \in DOMAIN bursts[t] : i \in DOMAIN more /\ more[i] = bursts[t][i]
  BY <1>5 DEF Shapes
<1> HIDE DEF p, e, f, more
<1>11. /\ fifo' = [fifo EXCEPT ![t] = f] /\ bursts' = [bursts EXCEPT ![t] = more]
       /\ waitAck' = waitAck /\ retrans' = retrans /\ cw' = cw /\ backoff' = backoff
       /\ acks' = acks /\ slots' = slots /\ waitProp' = waitProp /\ handed' = handed
       /\ acked' = acked /\ restarts' = restarts
  BY <1>1 DEF nccVars, f, more
<1>12. baseId'[t] \in Nat /\ baseId'[t] <= Len(more) /\ \A u \in Terminals \ {t} : baseId'[u] = baseId[u]
  BY <1>1, <1>3, <1>7 DEF Shapes
<1>13. baseId' \in [Terminals -> Nat]
  BY <1>1, <1>3 DEF Shapes
<1>14. Shapes'
  BY <1>7, <1>8, <1>11, <1>13 DEF Shapes
<1>15. Bounds'
  <2> SUFFICES ASSUME NEW u \in Terminals
               PROVE  /\ baseId'[u] <= Len(bursts'[u])
                      /\ cw'[u] <= CwMax \/ cw'[u] = 1
                      /\ backoff'[u] <= cw'[u]
    BY DEF Bounds
  <2>1. (cw'[u] <= CwMax \/ cw'[u] = 1) /\ backoff'[u] <= cw'[u]
    BY <1>11 DEF Bounds
  <2>2. CASE u = t
    BY <1>11, <1>12, <2>1, <2>2 DEF Shapes
  <2>3. CASE u # t
    BY <1>11, <1>12, <2>1, <2>3 DEF Shapes, Bounds
  <2> QED
    BY <2>2, <2>3
<1>16. OnePlace'
  <2> SUFFICES ASSUME NEW u \in Terminals
               PROVE  Held(fifo'[u], retrans'[u], waitAck'[u], acked'[u], bursts'[u])
    BY DEF OnePlace
  <2>1. CASE u = t
    BY <1>6, <1>11, <2>1 DEF Shapes, f, more
  <2>2. CASE u # t
    BY <1>11, <2>2 DEF OnePlace, Shapes
  <2> QED
    BY <2>1, <2>2
<1>17. \A u \in Terminals : \A q : GenuineIn(bursts[u], q) => GenuineIn(bursts'[u], q)
  BY <1>9, <1>11 DEF Shapes
<1>18. SentGenuine'
  <2>1. \A k \in SlotIds : \A q \in slots[k] : q.tal \in Terminals
    BY DEF Shapes, Transmission
  <2> QED
    BY <1>11, <1>17, <2>1 DEF SentGenuine, Genuine
<1>19. NccOK(waitProp, handed, acks)'
  BY <1>11, <1>17 DEF NccOK, Genuine
<1>20. AckedWasTaken'
  <2> SUFFICES ASSUME NEW u \in Terminals, NEW c \in acked[u],
                      Reused(u, bursts[u][c[1]].id)
               PROVE  Reused(u, bursts[u][c[1]].id)'
    BY <1>11 DEF AckedWasTaken, Taken
  <2>1. \A i \in DOMAIN bursts[u] : i \in DOMAIN bursts'[u] /\ bursts'[u][i] = bursts[u][i]
    BY <1>10, <1>11 DEF Shapes
  <2>2. c[1] \in DOMAIN bursts[u]
    BY DEF OnePlace, Held
  <2>3. PICK i, j \in DOMAIN bursts[u] :
          i # j /\ bursts[u][i].id = bursts[u][c[1]].id /\ bursts[u][j].id = bursts[u][c[1]].id
    BY DEF Reused
  <2> QED
    BY <2>1, <2>2, <2>3 DEF Reused
<1> QED
  BY <1>14, <1>15, <1>16, <1>18, <1>19, <1>20

-----------------------------------------------------------------------------
(* A tick of a terminal, place by place. *)

\* The timeouts go down, nothing else changes.
LEMMA AgedFacts ==
  ASSUME NEW given, NEW w \in Seq(Of(given))
  PROVE  /\ Aged(w) \in Seq(Of(given)) /\ DOMAIN Aged(w) = DOMAIN w
         /\ \A i \in DOMAIN w : Content(Aged(w)[i]) = Content(w[i])
<1> DEFINE less(p) == [p EXCEPT !.timeout = IF @ > 0 THEN @ - 1 ELSE 0]
<1>1. Aged(w) = [i \in DOMAIN w |-> less(w[i])]
  BY DEF Aged
<1>2. ASSUME NEW p \in Of(given)
      PROVE  less(p) \in Of(given) /\ Content(less(p)) = Content(p)
  <2> DEFINE d == IF p.timeout > 0 THEN p.timeout - 1 ELSE 0
  <2>1. p \in Packet /\ GenuineIn(given, p)
    BY DEF Of
  <2>2. d \in 0..TimeoutSaf
    <3> p.timeout \in 0..TimeoutSaf /\ TimeoutSaf \in Nat
      BY <2>1, CountsAssumption DEF Packet
    <3> QED
      OBVIOUS
  <2> HIDE DEF d
  <2> DEFINE q == [p EXCEPT !.timeout = d]
  <2>3. /\ q \in Packet /\ q.burst = p.burst /\ q.seq = p.seq /\ q.id = p.id
        /\ q.pduNb = p.pduNb
    BY <2>1, <2>2 DEF Packet
  <2>4. less(p) = q
    BY <2>1 DEF Packet, d
  <2> HIDE DEF q, less
  <2>5. GenuineIn(given, q)
    BY <2>1, <2>3 DEF GenuineIn
  <2> QED
    BY <2>3, <2>4, <2>5 DEF Of, Content
<1> HIDE DEF less
<1>3. Len(w) \in Nat /\ DOMAIN w = 1..Len(w) /\ \A i \in DOMAIN w : w[i] \in Of(given)
  OBVIOUS
<1>4. [i \in DOMAIN w |-> less(w[i])] \in Seq(Of(given))
  BY <1>2, <1>3
<1> QED
  BY <1>1, <1>2, <1>3, <1>4

\* What is sent again is the same packet, counted once more.
LEMMA AgainFacts ==
  ASSUME NEW given, NEW p \in Of(given), CanBeRetransmitted(p)
  PROVE  Again(p) \in Resent(given) /\ Content(Again(p)) = Content(p)
<1> DEFINE q == [p EXCEPT !.nbr = p.nbr + 1, !.timeout = TimeoutSaf]
<1>1. p \in Packet /\ GenuineIn(given, p)
  BY DEF Of
<1>2. p.nbr + 1 \in 0..MaxRetransmissions /\ p.nbr + 1 > 0 /\ TimeoutSaf \in 0..TimeoutSaf
  <2> p.nbr \in 0..MaxRetransmissions /\ p.nbr < MaxRetransmissions
    BY <1>1 DEF Packet, CanBeRetransmitted
  <2> QED
    BY CountsAssumption
<1>3. /\ q \in Packet /\ q.burst = p.burst /\ q.seq = p.seq /\ q.id = p.id
      /\ q.pduNb = p.pduNb /\ q.nbr > 0
  BY <1>1, <1>2 DEF Packet
<1>4. Again(p) = q
  BY DEF Again
<1> HIDE DEF q
<1>5. GenuineIn(given, q)
  BY <1>1, <1>3 DEF GenuineIn
<1> QED
  BY <1>3, <1>4, <1>5 DEF Resent, Of, Content

\* The first n of a queue made of r and then f, and what stays of r and of f: no
\* packet is in two of the three.
CutInPlaces(T, U, V, r, f, n) ==
  LET first == IF n <= Len(r) THEN n ELSE Len(r)
      front == SubSeq(r \o f, 1, n)
      r2 == SubSeq(r, first + 1, Len(r))
      f2 == SubSeq(f, n - first + 1, Len(f))
  IN  /\ front \in Seq(T) /\ r2 \in Seq(U) /\ f2 \in Seq(V)
      /\ Len(front) = n /\ \A i \in 1..n : front[i] = (r \o f)[i]
      /\ Len(f2) <= Len(f)
      /\ Distinct(front) /\ Distinct(r2) /\ Distinct(f2)
      /\ Contents(front) \cap Contents(r2) = {}
      /\ Contents(front) \cap Contents(f2) = {}
      /\ Contents(f2) \cap Contents(r2) = {}
      /\ Contents(front) \cup Contents(r2) \cup Contents(f2)
           \subseteq Contents(r) \cup Contents(f)

\* The first n leave the two sequences: what stays of them is in no other place.
LEMMA CutQueue ==
  ASSUME NEW T, NEW U, NEW V, U \subseteq T, V \subseteq T,
         NEW r \in Seq(U), NEW f \in Seq(V), Distinct(r \o f), NEW n \in 0..Len(r \o f)
  PROVE  CutInPlaces(T, U, V, r, f, n)
<1> DEFINE queue == r \o f
           a == Len(r)
           b == Len(f)
           first == IF n <= a THEN n ELSE a
           front == SubSeq(queue, 1, n)
           r2 == SubSeq(r, first + 1, Len(r))
           f2 == SubSeq(f, n - first + 1, Len(f))
<1>1. /\ a \in Nat /\ b \in Nat /\ Len(queue) = a + b /\ DOMAIN queue = 1..(a + b)
      /\ n \in Nat /\ n <= a + b /\ n \in 0..Len(queue)
  OBVIOUS
<1>2. r \in Seq(T) /\ f \in Seq(T) /\ queue \in Seq(T)
  <2>1. r \in Seq(T) /\ f \in Seq(T)
    <3>1. \A S, W : S \subseteq W => Seq(S) \subseteq Seq(W)
      OBVIOUS
    <3> QED
      BY <3>1
  <2> QED
    BY <2>1
<1>3. /\ \A i \in 1..a : queue[i] = r[i]
      /\ \A i \in 1..b : queue[a + i] = f[i]
  OBVIOUS
<1>4. Contents(queue) = Contents(r) \cup Contents(f) /\ Distinct(queue)
  BY <1>2, ConcatDistinct
<1>5. first \in 0..Len(r) /\ n - first \in 0..Len(f) /\ first <= n /\ (n = first \/ first = a)
  BY <1>1
<1>6. /\ first \in Nat /\ first <= a /\ a - first \in Nat
       /\ n - first \in Nat /\ n - first <= b
  <2> HIDE DEF queue
  <2> QED
    BY <1>1, <1>5
<1> HIDE DEF queue
<1>7. front \in Seq(T) /\ Len(front) = n /\ \A i \in 1..n : front[i] = queue[i]
  BY <1>1, <1>2, CutInTwo
<1> HIDE DEF first, front
<1>8. /\ r2 \in Seq(U) /\ Len(r2) = a - first
      /\ \A i \in 1..(a - first) : r2[i] = r[first + i]
  BY <1>5, CutInTwo
<1>9. /\ f2 \in Seq(V) /\ Len(f2) = b - (n - first)
      /\ \A i \in 1..(b - (n - first)) : f2[i] = f[n - first + i]
  <2> DEFINE m == n - first
  <2> m \in 0..Len(f)
    BY <1>5
  <2> HIDE DEF m
  <2> SubSeq(f, m + 1, Len(f)) \in Seq(V) /\ Len(SubSeq(f, m + 1, Len(f))) = Len(f) - m
      /\ \A i \in 1..(Len(f) - m) : SubSeq(f, m + 1, Len(f))[i] = f[m + i]
    BY CutInTwo
  <2> QED
    BY DEF m
<1> HIDE DEF r2, f2, a, b
<1>10. \A i \in DOMAIN front : i \in 1..n /\ i \in DOMAIN queue /\ front[i] = queue[i]
  BY <1>1, <1>7
<1>11. \A i \in DOMAIN r2 :
         /\ first + i \in DOMAIN queue /\ first + i > n /\ first + i <= a
         /\ r2[i] = queue[first + i]
  <2> TAKE i \in DOMAIN r2
  <2>1. i \in 1..(a - first) /\ i \in Nat
    <3>1. DOMAIN r2 = 1..(a - first)
      <4> r2 \in Seq(U) /\ Len(r2) = a - first
        BY <1>8
      <4> QED
        OBVIOUS
    <3> QED
      BY <1>6, <3>1
  <2>2. first + i \in 1..a
    BY <1>1, <1>6, <2>1
  <2>3. n = first
    BY <1>1, <1>5, <1>6, <2>1
  <2> QED
    BY <1>1, <1>3, <1>8, <1>6, <2>1, <2>2, <2>3
<1>12. \A i \in DOMAIN f2 :
         /\ a + (n - first + i) \in DOMAIN queue /\ a + (n - first + i) > n
         /\ a + (n - first + i) > a
         /\ f2[i] = queue[a + (n - first + i)]
  <2> TAKE i \in DOMAIN f2
  <2>1. i \in 1..(b - (n - first)) /\ i \in Nat
    <3>1. DOMAIN f2 = 1..(b - (n - first))
      <4> f2 \in Seq(V) /\ Len(f2) = b - (n - first)
        BY <1>9
      <4> QED
        OBVIOUS
    <3> QED
      BY <1>1, <1>6, <3>1
  <2>2. n - first + i \in 1..b
    BY <1>1, <1>6, <2>1
  <2>3. a + (n - first + i) \in DOMAIN queue /\ queue[a + (n - first + i)] = f[n - first + i]
    BY <1>1, <1>3, <2>2
  <2>4. a + (n - first + i) > n /\ a + (n - first + i) > a
    BY <1>1, <1>6, <2>1
  <2> QED
    BY <1>9, <2>1, <2>3, <2>4
<1>13. \A i, j \in DOMAIN queue : Content(queue[i]) = Content(queue[j]) => i = j
  BY <1>4 DEF Distinct
<1>15. \A i \in DOMAIN front \cup DOMAIN r2 \cup DOMAIN f2 : i \in Nat
  BY <1>7, <1>8, <1>9
<1>16. Distinct(front)
  BY <1>10, <1>13 DEF Distinct
<1>17. Distinct(r2)
  <2> SUFFICES ASSUME NEW i \in DOMAIN r2, NEW j \in DOMAIN r2, Content(r2[i]) = Content(r2[j])
               PROVE  i = j
    BY DEF Distinct
  <2>1. first + i = first + j
    BY <1>11, <1>13
  <2> QED
    BY <1>6, <1>15, <2>1
<1>18. Distinct(f2)
  <2> SUFFICES ASSUME NEW i \in DOMAIN f2, NEW j \in DOMAIN f2, Content(f2[i]) = Content(f2[j])
               PROVE  i = j
    BY DEF Distinct
  <2>1. a + (n - first + i) = a + (n - first + j)
    BY <1>12, <1>13
  <2> QED
    BY <1>1, <1>6, <1>15, <2>1
<1>19. Contents(front) \cap Contents(r2) = {}
  <2>1. \A i \in DOMAIN front : \A j \in DOMAIN r2 : Content(front[i]) # Content(r2[j])
    <3> SUFFICES ASSUME NEW i \in DOMAIN front, NEW j \in DOMAIN r2,
                        Content(front[i]) = Content(r2[j])
                 PROVE  FALSE
      OBVIOUS
    <3>1. i = first + j
      BY <1>10, <1>11, <1>13
    <3> QED
      BY <1>1, <1>10, <1>11, <3>1
  <2> QED
    BY <2>1 DEF Contents
<1>20. Contents(front) \cap Contents(f2) = {}
  <2>1. \A i \in DOMAIN front : \A j \in DOMAIN f2 : Content(front[i]) # Content(f2[j])
    <3> SUFFICES ASSUME NEW i \in DOMAIN front, NEW j \in DOMAIN f2,
                        Content(front[i]) = Content(f2[j])
                 PROVE  FALSE
      OBVIOUS
    <3>1. i = a + (n - first + j)
      BY <1>10, <1>12, <1>13
    <3> QED
      BY <1>1, <1>10, <1>12, <3>1
  <2> QED
    BY <2>1 DEF Contents
<1>21. Contents(f2) \cap Contents(r2) = {}
  <2>1. \A i \in DOMAIN r2 : \A j \in DOMAIN f2 : Content(r2[i]) # Content(f2[j])
    <3> SUFFICES ASSUME NEW i \in DOMAIN r2, NEW j \in DOMAIN f2,
                        Content(r2[i]) = Content(f2[j])
                 PROVE  FALSE
      OBVIOUS
    <3>1. first + i = a + (n - first + j)
      BY <1>11, <1>12, <1>13
    <3>2. first + i <= a /\ a + (n - first + j) > a /\ first + i \in Nat
      BY <1>11, <1>12, <1>6, <1>15
    <3> QED
      BY <1>1, <3>1, <3>2
  <2> QED
    BY <2>1 DEF Contents
<1>22. Contents(front) \cup Contents(r2) \cup Contents(f2) \subseteq Contents(queue)
  BY <1>10, <1>11, <1>12 DEF Contents
<1>23. Len(f2) <= Len(f)
  <2>1. b = Len(f)
    BY DEF b
  <2> QED
    BY <1>1, <1>9, <1>6, <2>1
<1> QED
  BY <1>4, <1>7, <1>8, <1>9, <1>16, <1>17, <1>18, <1>19, <1>20, <1>21, <1>22, <1>23
     DEF CutInPlaces, queue, front, r2, f2, first, a

\* What schedule makes of the places: the queue, what is sent of it and of its
\* first part, and what the places hold in the end.
QueueOf(f, r, w) == Resend(w, r) \o f
SentOf(f, r, w) == Smaller(Len(QueueOf(f, r, w)), NbMaxPackets)
FirstOf(f, r, w) == Smaller(SentOf(f, r, w), Len(Resend(w, r)))
FifoAfter(f, r, w) == SubSeq(f, SentOf(f, r, w) - FirstOf(f, r, w) + 1, Len(f))
RetransAfter(f, r, w) == SubSeq(Resend(w, r), FirstOf(f, r, w) + 1, Len(Resend(w, r)))
WaitAfter(f, r, w) ==
  Picked(Aged(w), DOMAIN Aged(w) \ Over(w)) \o SubSeq(QueueOf(f, r, w), 1, SentOf(f, r, w))
TickInPlaces(f, r, w, a, given) ==
  /\ Held(f, r, Aged(w), a, given)
  /\ Cardinality(Over(w) \ Repeated(w)) \in Nat
  /\ \A i \in 1..SentOf(f, r, w) : QueueOf(f, r, w)[i] \in Of(given)
  /\ Held(FifoAfter(f, r, w), RetransAfter(f, r, w), WaitAfter(f, r, w), a, given)

\* A packet that is sent is another copy of a stored one: what a tick puts in the
\* places is what it took from them.
LEMMA TickHeld ==
  ASSUME NEW f, NEW r, NEW w, NEW a, NEW given, Held(f, r, w, a, given)
  PROVE  TickInPlaces(f, r, w, a, given)
<1> DEFINE T == Of(given)
           aged == Aged(w)
           over == Over(w)
           again == Repeated(w)
           stay == DOMAIN aged \ over
           copies == [i \in again |-> Again(w[i])]
           x == Picked(copies, again)
           y == Picked(aged, stay)
           resend == x \o r
           queue == resend \o f
           n == Smaller(Len(queue), NbMaxPackets)
           first == Smaller(n, Len(resend))
           front == SubSeq(queue, 1, n)
           r2 == SubSeq(resend, first + 1, Len(resend))
           f2 == SubSeq(f, n - first + 1, Len(f))
<1>1. /\ f \in Seq(Fresh(given)) /\ r \in Seq(Resent(given)) /\ w \in Seq(T)
      /\ Distinct(f) /\ Distinct(r) /\ Distinct(w)
      /\ Contents(f) \cap Contents(r) = {}
      /\ Contents(f) \cap Contents(w) = {}
      /\ Contents(r) \cap Contents(w) = {}
      /\ (Contents(f) \cup Contents(r) \cup Contents(w)) \cap a = {}
      /\ Len(f) <= FifoSize
  BY DEF Held
<1>2. Fresh(given) \subseteq T /\ Resent(given) \subseteq T
  BY DEF Fresh, Resent
<1> HIDE DEF T
<1>3. /\ aged \in Seq(T) /\ DOMAIN aged = DOMAIN w
      /\ \A i \in DOMAIN w : Content(aged[i]) = Content(w[i])
  BY <1>1, AgedFacts DEF T
<1> HIDE DEF aged
<1>4. Distinct(aged) /\ Contents(aged) = Contents(w)
  BY <1>1, <1>3 DEF Distinct, Contents
<1>5. Held(f, r, aged, a, given)
  BY <1>3, <1>4 DEF Held, T
<1>6. /\ over \in SUBSET Nat /\ again \in SUBSET Nat /\ stay \in SUBSET Nat
      /\ IsFiniteSet(over) /\ IsFiniteSet(again) /\ IsFiniteSet(stay)
      /\ IsFiniteSet(over \ again)
      /\ over \subseteq DOMAIN w /\ again \subseteq DOMAIN w /\ stay \subseteq DOMAIN w
      /\ again \cap stay = {}
  <2>1. DOMAIN w \in SUBSET Nat /\ IsFiniteSet(DOMAIN w)
    <3>1. DOMAIN w = 1..Len(w) /\ Len(w) \in Nat
      BY <1>1
    <3>2. IsFiniteSet(1..Len(w))
      <4> 1 \in Int /\ Len(w) \in Int
        BY <3>1
      <4> QED
        BY FS_Interval
    <3> QED
      BY <3>1, <3>2
  <2>2. over \in SUBSET DOMAIN w /\ again \in SUBSET DOMAIN w /\ stay \in SUBSET DOMAIN w
    BY <1>3 DEF Over, Repeated
  <2>3. again \cap stay = {} /\ over \ again \in SUBSET DOMAIN w
    BY <1>3 DEF Over, Repeated
  <2> HIDE DEF over, again, stay
  <2>4. IsFiniteSet(over) /\ IsFiniteSet(again) /\ IsFiniteSet(stay)
    BY <2>1, <2>2, FS_Subset
  <2>5. IsFiniteSet(over \ again)
    BY <2>1, <2>3, FS_Subset
  <2> QED
    BY <2>1, <2>2, <2>3, <2>4, <2>5
<1>7. Cardinality(over \ again) \in Nat
  <2> HIDE DEF over, again
  <2> QED
    BY <1>6, FS_CardinalityType
<1>8. \A i \in again : copies[i] \in Resent(given) /\ Content(copies[i]) = Content(w[i])
  <2> TAKE i \in again
  <2>1. w[i] \in T /\ CanBeRetransmitted(w[i])
    BY <1>1, <1>6 DEF Repeated
  <2> HIDE DEF again
  <2> QED
    BY <2>1, AgainFacts DEF T
<1> HIDE DEF over, again, stay, copies
<1>9. \A i, j \in DOMAIN w : Content(w[i]) = Content(w[j]) => i = j
  BY <1>1 DEF Distinct
<1>10. /\ x \in Seq(Resent(given)) /\ Contents(x) = {Content(w[j]) : j \in again}
       /\ Distinct(x)
  <2>1. x \in Seq(Resent(given)) /\ Contents(x) = {Content(copies[j]) : j \in again}
    <3> DEFINE R == Resent(given)
    <3> HIDE DEF R
    <3>1. again \in SUBSET Nat /\ IsFiniteSet(again) /\ \A i \in again : copies[i] \in R
      BY <1>6, <1>8 DEF R
    <3>2. Picked(copies, again) \in Seq(R)
      BY ONLY <3>1, PickedFacts
    <3>3. Contents(Picked(copies, again)) = {Content(copies[j]) : j \in again}
      BY ONLY <3>1, PickedContents
    <3> QED
      BY <3>2, <3>3 DEF R
  <2>2. \A i, j \in again : Content(copies[i]) = Content(copies[j]) => i = j
    BY <1>6, <1>8, <1>9
  <2>3. Distinct(x)
    BY <1>6, <2>2, PickedDistinct
  <2>4. {Content(copies[j]) : j \in again} = {Content(w[j]) : j \in again}
    BY <1>8
  <2> HIDE DEF x
  <2> QED
    BY <2>1, <2>3, <2>4
<1>11. /\ y \in Seq(T) /\ Contents(y) = {Content(w[j]) : j \in stay} /\ Distinct(y)
  <2>1. \A i \in stay : aged[i] \in T /\ Content(aged[i]) = Content(w[i])
    BY <1>3, <1>6
  <2>2. y \in Seq(T) /\ Contents(y) = {Content(aged[j]) : j \in stay}
    <3>1. stay \in SUBSET Nat /\ IsFiniteSet(stay) /\ \A i \in stay : aged[i] \in T
      BY <1>6, <2>1
    <3>2. Picked(aged, stay) \in Seq(T)
      BY ONLY <3>1, PickedFacts
    <3>3. Contents(Picked(aged, stay)) = {Content(aged[j]) : j \in stay}
      BY ONLY <3>1, PickedContents
    <3> QED
      BY <3>2, <3>3
  <2>3. \A i, j \in stay : Content(aged[i]) = Content(aged[j]) => i = j
    BY <1>6, <1>9, <2>1
  <2>4. Distinct(y)
    BY <1>6, <2>3, PickedDistinct
  <2>5. {Content(aged[j]) : j \in stay} = {Content(w[j]) : j \in stay}
    BY <2>1
  <2> HIDE DEF y
  <2> QED
    BY <2>2, <2>4, <2>5
<1> HIDE DEF x, y
<1>12. /\ Contents(x) \subseteq Contents(w) /\ Contents(y) \subseteq Contents(w)
       /\ Contents(x) \cap Contents(y) = {}
  <2>1. Contents(w) = {Content(w[j]) : j \in DOMAIN w}
    BY DEF Contents
  <2>2. \A i \in again : \A j \in stay : Content(w[i]) # Content(w[j])
    BY <1>6, <1>9
  <2> QED
    BY <1>6, <1>10, <1>11, <2>1, <2>2
<1>13. /\ resend \in Seq(Resent(given)) /\ Contents(resend) = Contents(x) \cup Contents(r)
       /\ Distinct(resend)
  BY <1>1, <1>10, <1>12, ConcatDistinct
<1> HIDE DEF resend
<1>14. /\ queue \in Seq(T) /\ Contents(queue) = Contents(resend) \cup Contents(f)
       /\ Distinct(queue)
  <2>1. resend \in Seq(T) /\ f \in Seq(T)
    <3>1. \A S, W : S \subseteq W => Seq(S) \subseteq Seq(W)
      OBVIOUS
    <3> QED
      BY <1>1, <1>2, <1>13, <3>1
  <2>2. Contents(resend) \cap Contents(f) = {}
    BY <1>1, <1>12, <1>13
  <2> QED
    BY <1>1, <1>13, <2>1, <2>2, ConcatDistinct
<1>15. n \in 0..Len(queue) /\ n \in Nat
  <2> HIDE DEF queue
  <2> QED
    BY <1>14, SlotsAssumption DEF Smaller
<1> HIDE DEF n
<1>16. /\ front \in Seq(T) /\ r2 \in Seq(Resent(given)) /\ f2 \in Seq(Fresh(given))
       /\ Len(front) = n /\ \A i \in 1..n : front[i] = queue[i]
       /\ Len(f2) <= Len(f)
       /\ Distinct(front) /\ Distinct(r2) /\ Distinct(f2)
       /\ Contents(front) \cap Contents(r2) = {}
       /\ Contents(front) \cap Contents(f2) = {}
       /\ Contents(f2) \cap Contents(r2) = {}
       /\ Contents(front) \cup Contents(r2) \cup Contents(f2)
            \subseteq Contents(resend) \cup Contents(f)
  <2> DEFINE U == Resent(given)
             V == Fresh(given)
  <2> HIDE DEF U, V
  <2>1. resend \in Seq(U) /\ f \in Seq(V) /\ U \subseteq T /\ V \subseteq T
    BY <1>1, <1>2, <1>13 DEF U, V
  <2>2. Distinct(resend \o f) /\ n \in 0..Len(resend \o f)
    BY <1>14, <1>15
  <2>3. /\ front \in Seq(T) /\ r2 \in Seq(U) /\ f2 \in Seq(V)
        /\ Len(front) = n /\ \A i \in 1..n : front[i] = queue[i]
        /\ Len(f2) <= Len(f)
        /\ Distinct(front) /\ Distinct(r2) /\ Distinct(f2)
        /\ Contents(front) \cap Contents(r2) = {}
        /\ Contents(front) \cap Contents(f2) = {}
        /\ Contents(f2) \cap Contents(r2) = {}
        /\ Contents(front) \cup Contents(r2) \cup Contents(f2)
             \subseteq Contents(resend) \cup Contents(f)
    <3>1. CutInPlaces(T, U, V, resend, f, n)
      BY ONLY <2>1, <2>2, CutQueue
    <3> QED
      BY ONLY <3>1 DEF CutInPlaces, Smaller
  <2> QED
    BY <2>3 DEF U, V
<1>17. \A i \in 1..n : queue[i] \in T
  <2> HIDE DEF queue
  <2> QED
    BY <1>14, <1>15
<1> HIDE DEF front, r2, f2, first, queue
<1> DEFINE w2 == y \o front
<1>18. Contents(front) \cup Contents(r2) \cup Contents(f2)
         \subseteq Contents(x) \cup Contents(r) \cup Contents(f)
  BY <1>13, <1>16
<1>19. Contents(y) \cap (Contents(front) \cup Contents(r2) \cup Contents(f2)) = {}
  BY <1>1, <1>12, <1>18
<1>20. w2 \in Seq(T) /\ Contents(w2) = Contents(y) \cup Contents(front) /\ Distinct(w2)
  BY <1>11, <1>16, <1>19, ConcatDistinct
<1> HIDE DEF w2
<1>21. Len(f2) <= FifoSize
  <2> Len(f2) \in Nat /\ Len(f) \in Nat
    BY <1>1, <1>16
  <2> QED
    BY <1>1, <1>16, CountsAssumption
<1>22. /\ Contents(f2) \cap Contents(w2) = {} /\ Contents(r2) \cap Contents(w2) = {}
       /\ (Contents(f2) \cup Contents(r2) \cup Contents(w2)) \cap a = {}
  BY <1>1, <1>12, <1>16, <1>18, <1>19, <1>20
<1>23. Held(f2, r2, w2, a, given)
  BY <1>16, <1>20, <1>21, <1>22 DEF Held, T
<1> QED
  <2>1. resend = Resend(w, r)
    BY DEF resend, x, copies, again, Resend
  <2>2. queue = QueueOf(f, r, w) /\ n = SentOf(f, r, w) /\ first = FirstOf(f, r, w)
    BY <2>1 DEF queue, n, first, QueueOf, SentOf, FirstOf
  <2>3. f2 = FifoAfter(f, r, w) /\ r2 = RetransAfter(f, r, w) /\ w2 = WaitAfter(f, r, w)
    BY <2>1, <2>2 DEF f2, r2, w2, y, stay, over, aged, front, FifoAfter, RetransAfter, WaitAfter
  <2> QED
    BY <1>5, <1>7, <1>17, <1>23, <2>2, <2>3 DEF T, over, again, aged, TickInPlaces

-----------------------------------------------------------------------------
(* The actions of the terminals keep the invariant. *)

\* What an action of terminal t leaves in its state.
TalChange(t, id, f, r, w, a, c, d) ==
  /\ baseId' = [baseId EXCEPT ![t] = id]
  /\ fifo' = [fifo EXCEPT ![t] = f]
  /\ retrans' = [retrans EXCEPT ![t] = r]
  /\ waitAck' = [waitAck EXCEPT ![t] = w]
  /\ acked' = [acked EXCEPT ![t] = a]
  /\ cw' = [cw EXCEPT ![t] = c]
  /\ backoff' = [backoff EXCEPT ![t] = d]
  /\ bursts' = bursts
  /\ Held(f, r, w, a, bursts[t])
  /\ id \in Nat /\ id <= Len(bursts[t])
  /\ c \in Nat /\ d \in Nat /\ (c <= CwMax \/ c = 1) /\ d <= c

\* Good values leave a good state.
LEMMA TalKeeps ==
  ASSUME AlohaInv, NEW t \in Terminals,
         NEW id, NEW f, NEW r, NEW w, NEW a, NEW c, NEW d,
         TalChange(t, id, f, r, w, a, c, d),
         slots' \in [SlotIds -> SUBSET Transmission], restarts' \in Nat
  PROVE  Shapes' /\ Bounds' /\ OnePlace'
<1>1. Shapes /\ Bounds /\ OnePlace
  BY DEF AlohaInv
<1>2. f \in Seq(Packet) /\ r \in Seq(Packet) /\ w \in Seq(Packet) /\ a \in SUBSET (Nat \X Nat)
  <2>1. /\ f \in Seq(Fresh(bursts[t])) /\ r \in Seq(Resent(bursts[t]))
        /\ w \in Seq(Of(bursts[t])) /\ a \in SUBSET (Nat \X Nat)
    BY DEF TalChange, Held
  <2>2. /\ Of(bursts[t]) \subseteq Packet /\ Fresh(bursts[t]) \subseteq Packet
        /\ Resent(bursts[t]) \subseteq Packet
    BY DEF Of, Fresh, Resent
  <2>3. \A S, T : S \subseteq T => Seq(S) \subseteq Seq(T)
    OBVIOUS
  <2> QED
    BY <2>1, <2>2, <2>3
<1>3. Shapes'
  <2>1. /\ baseId' \in [Terminals -> Nat] /\ cw' \in [Terminals -> Nat]
        /\ backoff' \in [Terminals -> Nat]
    BY <1>1 DEF TalChange, Shapes
  <2>2. /\ fifo' \in [Terminals -> Seq(Packet)] /\ retrans' \in [Terminals -> Seq(Packet)]
        /\ waitAck' \in [Terminals -> Seq(Packet)]
    BY <1>1, <1>2 DEF TalChange, Shapes
  <2>3. acked' \in [Terminals -> SUBSET (Nat \X Nat)]
    BY <1>1, <1>2 DEF TalChange, Shapes
  <2>4. bursts' \in [Terminals -> Seq([id : Nat, size : BurstSizes])]
    BY <1>1 DEF TalChange, Shapes
  <2> QED
    BY <2>1, <2>2, <2>3, <2>4 DEF Shapes
<1>4. /\ fifo'[t] = f /\ retrans'[t] = r /\ waitAck'[t] = w /\ acked'[t] = a
      /\ baseId'[t] = id /\ cw'[t] = c /\ backoff'[t] = d /\ bursts' = bursts
      /\ Held(f, r, w, a, bursts[t])
      /\ id <= Len(bursts[t]) /\ (c <= CwMax \/ c = 1) /\ d <= c
  BY <1>1 DEF TalChange, Shapes
<1>5. \A u \in Terminals \ {t} :
        /\ fifo'[u] = fifo[u] /\ retrans'[u] = retrans[u] /\ waitAck'[u] = waitAck[u]
        /\ acked'[u] = acked[u] /\ baseId'[u] = baseId[u] /\ cw'[u] = cw[u]
        /\ backoff'[u] = backoff[u]
  BY <1>1 DEF TalChange, Shapes
<1>6. Bounds'
  <2> SUFFICES ASSUME NEW u \in Terminals
               PROVE  /\ baseId'[u] <= Len(bursts'[u])
                      /\ cw'[u] <= CwMax \/ cw'[u] = 1
                      /\ backoff'[u] <= cw'[u]
    BY DEF Bounds
  <2>1. CASE u = t
    BY <1>4, <2>1
  <2>2. CASE u # t
    BY <1>1, <1>4, <1>5, <2>2 DEF Bounds
  <2> QED
    BY <2>1, <2>2
<1>7. OnePlace'
  <2> SUFFICES ASSUME NEW u \in Terminals
               PROVE  Held(fifo'[u], retrans'[u], waitAck'[u], acked'[u], bursts'[u])
    BY DEF OnePlace
  <2>1. CASE u = t
    BY <1>4, <2>1
  <2>2. CASE u # t
    BY <1>1, <1>4, <1>5, <2>2 DEF OnePlace
  <2> QED
    BY <2>1, <2>2
<1> QED
  BY <1>3, <1>6, <1>7

\* The packets that a terminal sends are genuine transmissions.
LEMMA OnAirFacts ==
  ASSUME NEW t \in Terminals, NEW p \in Of(bursts[t])
  PROVE  /\ OnAir(t, p) \in Transmission /\ OnAir(t, p).tal = t
         /\ Genuine(t, OnAir(t, p))
<1>1. p \in Packet /\ GenuineIn(bursts[t], p)
  BY DEF Of
<1>2. /\ OnAir(t, p) \in Transmission /\ OnAir(t, p).tal = t
      /\ OnAir(t, p).burst = p.burst /\ OnAir(t, p).id = p.id
      /\ OnAir(t, p).seq = p.seq /\ OnAir(t, p).pduNb = p.pduNb
  BY <1>1 DEF OnAir, Transmission, Packet
<1> QED
  BY <1>1, <1>2 DEF Genuine, GenuineIn

\* A tick of a terminal.
LEMMA TalTickKeeps ==
  ASSUME AlohaInv, NEW t \in Terminals, TalTick(t)
  PROVE  AlohaInv'
<1> DEFINE given == bursts[t]
           aged == Aged(waitAck[t])
           lost == Cardinality(Over(waitAck[t]) \ Repeated(waitAck[t]))
           queue == QueueOf(fifo[t], retrans[t], waitAck[t])
           n == SentOf(fifo[t], retrans[t], waitAck[t])
           f2 == FifoAfter(fifo[t], retrans[t], waitAck[t])
           r2 == RetransAfter(fifo[t], retrans[t], waitAck[t])
           w2 == WaitAfter(fifo[t], retrans[t], waitAck[t])
<1>1. Shapes /\ Bounds /\ OnePlace /\ SentGenuine /\ NccOK(waitProp, handed, acks) /\ AckedWasTaken
  BY DEF AlohaInv
<1>2. Held(fifo[t], retrans[t], waitAck[t], acked[t], given)
  BY <1>1 DEF OnePlace
<1>3. /\ Held(fifo[t], retrans[t], aged, acked[t], given)
      /\ lost \in Nat
      /\ \A i \in 1..n : queue[i] \in Of(given)
      /\ Held(f2, r2, w2, acked[t], given)
  <2>1. TickInPlaces(fifo[t], retrans[t], waitAck[t], acked[t], given)
    BY <1>2, TickHeld
  <2> QED
    BY <2>1 DEF TickInPlaces
<1>4. \/ /\ ~ (backoff[t] <= 1)
         /\ backoff' = [backoff EXCEPT ![t] = backoff[t] - 1]
         /\ waitAck' = [waitAck EXCEPT ![t] = aged]
         /\ UNCHANGED <<fifo, retrans, cw, slots>>
      \/ /\ cw' = [cw EXCEPT ![t] = CwAfter(lost, cw[t])]
         /\ \E b \in 0..(IF lost > 0 THEN cw'[t] ELSE 0) : backoff' = [backoff EXCEPT ![t] = b]
         /\ waitAck' = [waitAck EXCEPT ![t] = w2]
         /\ retrans' = [retrans EXCEPT ![t] = r2]
         /\ fifo' = [fifo EXCEPT ![t] = f2]
         /\ \E chosen : Transmit(Placed(t, queue, n, chosen))
  BY DEF TalTick, FifoAfter, RetransAfter, WaitAfter, FirstOf, SentOf, QueueOf
<1>5. UNCHANGED <<baseId, acks, waitProp, handed, bursts, acked, restarts, algo>>
  BY DEF TalTick
<1> HIDE DEF aged, f2, r2, w2, queue, n, lost
<1>6. /\ baseId[t] \in Nat /\ cw[t] \in Nat /\ backoff[t] \in Nat
      /\ baseId[t] <= Len(given) /\ backoff[t] <= cw[t] /\ (cw[t] <= CwMax \/ cw[t] = 1)
      /\ baseId' = [baseId EXCEPT ![t] = baseId[t]]
      /\ acked' = [acked EXCEPT ![t] = acked[t]]
      /\ restarts' \in Nat
  BY <1>1, <1>5 DEF Shapes, Bounds
<1>7. slots' \in [SlotIds -> SUBSET Transmission] /\ SentGenuine'
  <2>1. CASE slots' = slots
    BY <1>1, <1>5, <2>1 DEF Shapes, SentGenuine, Genuine
  <2>2. CASE \E chosen : Transmit(Placed(t, queue, n, chosen))
    <3>1. PICK chosen : Transmit(Placed(t, queue, n, chosen))
      BY <2>2
    <3> DEFINE placed == Placed(t, queue, n, chosen)
    <3>2. ASSUME NEW k \in SlotIds, NEW q \in placed[k]
          PROVE  q \in Transmission /\ q.tal = t /\ Genuine(t, q)
      <4>1. PICK i \in 1..n : q = OnAir(t, queue[i])
        BY DEF Placed
      <4>2. queue[i] \in Of(bursts[t])
        BY <1>3
      <4> QED
        BY <4>1, <4>2, OnAirFacts
    <3>3. slots' = [k \in SlotIds |-> slots[k] \cup placed[k]] \/ slots' = slots
      BY <3>1 DEF Transmit
    <3> HIDE DEF placed
    <3>4. CASE slots' = [k \in SlotIds |-> slots[k] \cup placed[k]]
      <4>1. slots' \in [SlotIds -> SUBSET Transmission]
        BY <1>1, <3>2, <3>4 DEF Shapes
      <4>2. \A k \in SlotIds : \A q \in slots'[k] : Genuine(q.tal, q)
        BY <1>1, <3>2, <3>4 DEF SentGenuine
      <4> QED
        BY <1>5, <4>1, <4>2 DEF SentGenuine, Genuine
    <3> QED
      BY <2>1, <3>3, <3>4
  <2> QED
    BY <1>4, <2>1, <2>2
<1>8. Shapes' /\ Bounds' /\ OnePlace'
  <2>1. CASE /\ ~ (backoff[t] <= 1)
             /\ backoff' = [backoff EXCEPT ![t] = backoff[t] - 1]
             /\ waitAck' = [waitAck EXCEPT ![t] = aged]
             /\ UNCHANGED <<fifo, retrans, cw, slots>>
    <3>1. backoff[t] - 1 \in Nat /\ backoff[t] - 1 <= cw[t]
      BY <1>6, <2>1
    <3>2. /\ fifo' = [fifo EXCEPT ![t] = fifo[t]] /\ retrans' = [retrans EXCEPT ![t] = retrans[t]]
          /\ cw' = [cw EXCEPT ![t] = cw[t]]
      BY <1>1, <2>1 DEF Shapes
    <3>3. TalChange(t, baseId[t], fifo[t], retrans[t], aged, acked[t], cw[t], backoff[t] - 1)
      BY <1>3, <1>5, <1>6, <2>1, <3>1, <3>2 DEF TalChange
    <3> QED
      BY <1>6, <1>7, <3>3, TalKeeps
  <2>2. CASE /\ cw' = [cw EXCEPT ![t] = CwAfter(lost, cw[t])]
             /\ \E b \in 0..(IF lost > 0 THEN cw'[t] ELSE 0) : backoff' = [backoff EXCEPT ![t] = b]
             /\ waitAck' = [waitAck EXCEPT ![t] = w2]
             /\ retrans' = [retrans EXCEPT ![t] = r2]
             /\ fifo' = [fifo EXCEPT ![t] = f2]
    <3> DEFINE c == CwAfter(lost, cw[t])
    <3>1. c \in Nat /\ (lost = 0 => c = cw[t]) /\ (lost > 0 => c <= CwMax)
      BY <1>3, <1>6, CwFacts
    <3>2. cw' = [cw EXCEPT ![t] = c] /\ cw'[t] = c
      BY <1>1, <2>2 DEF Shapes
    <3> HIDE DEF c
    <3>3. PICK b \in 0..(IF lost > 0 THEN c ELSE 0) : backoff' = [backoff EXCEPT ![t] = b]
      BY <2>2, <3>2
    <3>4. b \in Nat /\ b <= c /\ (c <= CwMax \/ c = 1)
      BY <1>3, <1>6, <3>1, <3>3
    <3>5. TalChange(t, baseId[t], f2, r2, w2, acked[t], c, b)
      BY <1>3, <1>5, <1>6, <2>2, <3>1, <3>2, <3>3, <3>4 DEF TalChange
    <3> QED
      BY <1>6, <1>7, <3>5, TalKeeps
  <2> QED
    BY <1>4, <2>1, <2>2
<1>9. NccOK(waitProp, handed, acks)'
  BY <1>1, <1>5 DEF NccOK, Genuine
<1>10. AckedWasTaken'
  BY <1>1, <1>5 DEF AckedWasTaken, Taken, Reused
<1> QED
  BY <1>7, <1>8, <1>9, <1>10 DEF AlohaInv

\* The acknowledged packet leaves its place, and no other holds it.
LEMMA RemoveHeld ==
  ASSUME NEW f, NEW r, NEW w, NEW a, NEW given, Held(f, r, w, a, given), NEW i \in DOMAIN w
  PROVE  Held(f, r, RemoveAt(w, i), a \cup {Content(w[i])}, given)
<1> DEFINE T == Of(given)
           m == i - 1
           x == SubSeq(w, 1, m)
           y == SubSeq(w, i + 1, Len(w))
           c == Content(w[i])
           w2 == x \o y
<1>1. /\ w \in Seq(T) /\ Distinct(w)
      /\ Contents(f) \cap Contents(w) = {} /\ Contents(r) \cap Contents(w) = {}
      /\ (Contents(f) \cup Contents(r) \cup Contents(w)) \cap a = {}
  BY DEF Held
<1>2. /\ Len(w) \in Nat /\ DOMAIN w = 1..Len(w) /\ i \in Nat /\ 1 <= i /\ i <= Len(w)
      /\ i \in 0..Len(w) /\ m \in 0..Len(w) /\ m \in Nat /\ w[i] \in T
  <2> HIDE DEF T
  <2> QED
    BY <1>1
<1>3. c \in Nat \X Nat /\ c[1] \in DOMAIN given /\ c \in Contents(w)
  <2>1. w[i] \in Packet /\ GenuineIn(given, w[i])
    BY <1>2 DEF Of
  <2>2. w[i].burst \in Nat /\ w[i].seq \in Nat
    BY <2>1, CountsAssumption DEF Packet
  <2>3. w[i].burst \in DOMAIN given
    BY <2>1 DEF GenuineIn
  <2>4. c \in Contents(w)
    BY DEF Contents
  <2> QED
    BY <2>2, <2>3, <2>4 DEF Content
<1>4. RemoveAt(w, i) = w2
  BY DEF RemoveAt
<1> HIDE DEF T, m
<1>5. x \in Seq(T) /\ Len(x) = m /\ \A j \in 1..m : x[j] = w[j]
  BY <1>1, <1>2, CutInTwo
<1>6. /\ y \in Seq(T) /\ Len(y) = Len(w) - i
      /\ \A j \in 1..(Len(w) - i) : y[j] = w[i + j]
  BY <1>1, <1>2, CutInTwo
<1> HIDE DEF x, y
<1>7. \A j \in DOMAIN x : j \in DOMAIN w /\ j < i /\ x[j] = w[j]
  <2>1. DOMAIN x = 1..m
    BY <1>2, <1>5
  <2> QED
    BY <1>2, <1>5, <2>1 DEF m
<1>8. \A j \in DOMAIN y : i + j \in DOMAIN w /\ i + j > i /\ y[j] = w[i + j] /\ j \in Nat
  <2>1. DOMAIN y = 1..(Len(w) - i)
    BY <1>2, <1>6
  <2> QED
    BY <1>2, <1>6, <2>1
<1>9. \A j, k \in DOMAIN w : Content(w[j]) = Content(w[k]) => j = k
  BY <1>1 DEF Distinct
<1>10. Distinct(x)
  BY <1>7, <1>9 DEF Distinct
<1>11. Distinct(y)
  <2> SUFFICES ASSUME NEW j \in DOMAIN y, NEW k \in DOMAIN y, Content(y[j]) = Content(y[k])
               PROVE  j = k
    BY DEF Distinct
  <2>1. i + j = i + k
    BY <1>8, <1>9
  <2> QED
    BY <1>2, <1>8, <2>1
<1>12. Contents(x) \cap Contents(y) = {}
  <2>1. \A j \in DOMAIN x : \A k \in DOMAIN y : Content(x[j]) # Content(y[k])
    <3> SUFFICES ASSUME NEW j \in DOMAIN x, NEW k \in DOMAIN y, Content(x[j]) = Content(y[k])
                 PROVE  FALSE
      OBVIOUS
    <3>1. j = i + k
      BY <1>7, <1>8, <1>9
    <3> QED
      BY <1>2, <1>7, <1>8, <3>1
  <2> QED
    BY <2>1 DEF Contents
<1>13. c \notin Contents(x) /\ c \notin Contents(y)
  <2>1. \A j \in DOMAIN x : Content(x[j]) # c
    BY <1>2, <1>7, <1>9
  <2>2. \A j \in DOMAIN y : Content(y[j]) # c
    BY <1>2, <1>8, <1>9
  <2> QED
    BY <2>1, <2>2 DEF Contents
<1>14. Contents(x) \subseteq Contents(w) /\ Contents(y) \subseteq Contents(w)
  BY <1>7, <1>8 DEF Contents
<1> HIDE DEF c
<1>15. w2 \in Seq(T) /\ Contents(w2) = Contents(x) \cup Contents(y) /\ Distinct(w2)
  BY <1>5, <1>6, <1>10, <1>11, <1>12, ConcatDistinct
<1> HIDE DEF w2
<1>16. a \cup {c} \subseteq Nat \X Nat /\ \A d \in a \cup {c} : d[1] \in DOMAIN given
  BY <1>3 DEF Held
<1>17. /\ Contents(f) \cap Contents(w2) = {} /\ Contents(r) \cap Contents(w2) = {}
       /\ (Contents(f) \cup Contents(r) \cup Contents(w2)) \cap (a \cup {c}) = {}
  BY <1>1, <1>3, <1>13, <1>14, <1>15
<1>18. Held(f, r, w2, a \cup {c}, given)
  BY <1>15, <1>16, <1>17 DEF Held, T
<1> QED
  BY <1>4, <1>18 DEF c

\* An acknowledgement that comes or is lost leaves those on their way.
LEMMA FewerAcks ==
  ASSUME NccOK(waitProp, handed, acks), NEW t \in Terminals, NEW id,
         acks' = [acks EXCEPT ![t] = @ \ {id}],
         waitProp' = waitProp, handed' = handed, bursts' = bursts
  PROVE  NccOK(waitProp, handed, acks)'
<1>1. acks' \in [Terminals -> SUBSET (Nat \X Nat \X Nat)]
  BY DEF NccOK
<1>2. \A u \in Terminals : acks'[u] \subseteq acks[u]
  BY DEF NccOK
<1> QED
  BY <1>1, <1>2 DEF NccOK, Genuine

\* An acknowledgement comes.
LEMMA ReceiveAckStep ==
  ASSUME AlohaInv, NEW t \in Terminals, NEW id, ReceiveAck(t, id)
  PROVE  AlohaInv'
<1> DEFINE found == {j \in DOMAIN waitAck[t] : UniqueId(waitAck[t][j]) = id}
           i == CHOOSE j \in found : \A k \in found : j <= k
           c == Content(waitAck[t][i])
<1>1. Shapes /\ Bounds /\ OnePlace /\ SentGenuine /\ NccOK(waitProp, handed, acks) /\ AckedWasTaken
  BY DEF AlohaInv
<1>2. /\ id \in acks[t] /\ acks' = [acks EXCEPT ![t] = @ \ {id}]
      /\ UNCHANGED <<baseId, fifo, retrans, nccVars, bursts, restarts, algo>>
  BY DEF ReceiveAck
<1>3. \/ /\ found # {}
         /\ waitAck' = [waitAck EXCEPT ![t] = RemoveAt(waitAck[t], i)]
         /\ acked' = [acked EXCEPT ![t] = acked[t] \cup {c}]
         /\ cw' = [cw EXCEPT ![t] = 1]
         /\ \E b \in 0..1 : backoff' = [backoff EXCEPT ![t] = b]
      \/ UNCHANGED <<waitAck, acked, cw, backoff>>
  BY DEF ReceiveAck
<1>4. slots' = slots /\ waitProp' = waitProp /\ handed' = handed /\ bursts' = bursts
  BY <1>2 DEF nccVars
<1>5. SentGenuine'
  BY <1>1, <1>4 DEF SentGenuine, Genuine
<1>6. NccOK(waitProp, handed, acks)'
  BY <1>1, <1>2, <1>4, FewerAcks
<1>7. CASE UNCHANGED <<waitAck, acked, cw, backoff>>
  <2>1. Shapes' /\ Bounds' /\ OnePlace'
    BY <1>1, <1>2, <1>4, <1>7 DEF Shapes, Bounds, OnePlace
  <2>2. AckedWasTaken'
    BY <1>1, <1>4, <1>7 DEF AckedWasTaken, Taken, Reused
  <2> QED
    BY <1>5, <1>6, <2>1, <2>2 DEF AlohaInv
<1>8. CASE /\ found # {}
           /\ waitAck' = [waitAck EXCEPT ![t] = RemoveAt(waitAck[t], i)]
           /\ acked' = [acked EXCEPT ![t] = acked[t] \cup {c}]
           /\ cw' = [cw EXCEPT ![t] = 1]
           /\ \E b \in 0..1 : backoff' = [backoff EXCEPT ![t] = b]
  <2>1. Held(fifo[t], retrans[t], waitAck[t], acked[t], bursts[t])
    BY <1>1 DEF OnePlace
  <2>2. i \in found
    <3>1. found \subseteq Nat /\ found # {}
      <4> waitAck[t] \in Seq(Packet)
        BY <1>1 DEF Shapes
      <4> QED
        BY <1>8
    <3>2. \E j \in found : \A k \in found : j <= k
      <4> HIDE DEF found
      <4> QED
        BY <3>1, LeastNatural
    <3> QED
      BY <3>2
  <2> HIDE DEF i
  <2>3. i \in DOMAIN waitAck[t] /\ UniqueId(waitAck[t][i]) = id
    BY <2>2
  <2>4. Held(fifo[t], retrans[t], RemoveAt(waitAck[t], i), acked[t] \cup {c}, bursts[t])
    BY <2>1, <2>3, RemoveHeld
  <2>5. PICK b \in 0..1 : backoff' = [backoff EXCEPT ![t] = b]
    BY <1>8
  <2>6. /\ baseId[t] \in Nat /\ baseId[t] <= Len(bursts[t]) /\ b \in Nat /\ b <= 1
        /\ baseId' = [baseId EXCEPT ![t] = baseId[t]]
        /\ fifo' = [fifo EXCEPT ![t] = fifo[t]] /\ retrans' = [retrans EXCEPT ![t] = retrans[t]]
        /\ slots' \in [SlotIds -> SUBSET Transmission] /\ restarts' \in Nat
    BY <1>1, <1>2, <1>4, <2>5 DEF Shapes, Bounds
  <2>7. TalChange(t, baseId[t], fifo[t], retrans[t], RemoveAt(waitAck[t], i), acked[t] \cup {c}, 1, b)
    BY <1>4, <1>8, <2>4, <2>5, <2>6 DEF TalChange
  <2>8. Shapes' /\ Bounds' /\ OnePlace'
    BY <2>6, <2>7, TalKeeps
  <2>9. c \in Taken(t) \/ Reused(t, bursts[t][c[1]].id)
    <3> DEFINE p == waitAck[t][i]
    <3>1. PICK q \in waitProp[t] \cup UNION handed[t] : UniqueId(q) = id
      BY <1>1, <1>2 DEF NccOK
    <3>2. GenuineIn(bursts[t], q)
      BY <1>1 DEF NccOK, Genuine
    <3>3. GenuineIn(bursts[t], p)
      BY <2>1, <2>3 DEF Held, Of
    <3>4. UniqueId(p) = UniqueId(q)
      BY <2>3, <3>1
    <3>5. c = <<p.burst, p.seq>>
      BY DEF Content
    <3> HIDE DEF p, c
    <3>6. p.id = q.id /\ p.seq = q.seq
      BY <3>4 DEF UniqueId
    <3>7. CASE p.burst = q.burst
      <4>1. Content(q) = c
        BY <3>5, <3>6, <3>7 DEF Content
      <4> QED
        BY <3>1, <4>1 DEF Taken
    <3>8. CASE p.burst # q.burst
      <4>1. c[1] = p.burst
        BY <3>5
      <4> QED
        BY <3>2, <3>3, <3>6, <3>8, <4>1 DEF Reused, GenuineIn
    <3> QED
      BY <3>7, <3>8
  <2>10. AckedWasTaken'
    <3>1. \A u \in Terminals : \A d \in acked'[u] : d \in acked[u] \/ (u = t /\ d = c)
      BY <1>1, <1>8 DEF Shapes
    <3> HIDE DEF c
    <3> QED
      BY <1>1, <1>4, <2>9, <3>1 DEF AckedWasTaken, Taken, Reused
  <2> QED
    BY <1>5, <1>6, <2>8, <2>10 DEF AlohaInv
<1> QED
  BY <1>3, <1>7, <1>8

\* An acknowledgement is lost.
LEMMA LoseAckKeeps ==
  ASSUME AlohaInv, NEW t \in Terminals, NEW id, LoseAck(t, id)
  PROVE  AlohaInv'
<1>1. Shapes /\ Bounds /\ OnePlace /\ SentGenuine /\ NccOK(waitProp, handed, acks) /\ AckedWasTaken
  BY DEF AlohaInv
<1>2. /\ acks' = [acks EXCEPT ![t] = @ \ {id}]
      /\ UNCHANGED <<talVars, nccVars, bursts, acked, restarts, algo>>
  BY DEF LoseAck
<1>3. Shapes' /\ Bounds' /\ OnePlace'
  BY <1>1, <1>2 DEF Shapes, Bounds, OnePlace, talVars, nccVars
<1>4. SentGenuine'
  BY <1>1, <1>2 DEF SentGenuine, Genuine, nccVars
<1>5. AckedWasTaken'
  BY <1>1, <1>2 DEF AckedWasTaken, Taken, Reused, nccVars
<1>6. NccOK(waitProp, handed, acks)'
  BY <1>1, <1>2, FewerAcks DEF nccVars
<1> QED
  BY <1>3, <1>4, <1>5, <1>6 DEF AlohaInv

\* A terminal starts again with nothing.
LEMMA RestartKeeps ==
  ASSUME AlohaInv, NEW t \in Terminals, Restart(t)
  PROVE  AlohaInv'
<1>1. Shapes /\ Bounds /\ OnePlace /\ SentGenuine /\ NccOK(waitProp, handed, acks) /\ AckedWasTaken
  BY DEF AlohaInv
<1>2. PICK b \in 0..1 : backoff' = [backoff EXCEPT ![t] = b]
  BY DEF Restart
<1>3. /\ restarts' = restarts + 1
      /\ baseId' = [baseId EXCEPT ![t] = 0] /\ fifo' = [fifo EXCEPT ![t] = <<>>]
      /\ waitAck' = [waitAck EXCEPT ![t] = <<>>] /\ retrans' = [retrans EXCEPT ![t] = <<>>]
      /\ cw' = [cw EXCEPT ![t] = 1]
      /\ UNCHANGED <<acks, nccVars, bursts, acked, algo>>
  BY DEF Restart
<1>4. Held(<<>>, <<>>, <<>>, acked[t], bursts[t])
  <2>1. /\ <<>> \in Seq(Fresh(bursts[t])) /\ <<>> \in Seq(Resent(bursts[t]))
        /\ <<>> \in Seq(Of(bursts[t]))
        /\ Len(<<>>) = 0 /\ DOMAIN <<>> = {}
    OBVIOUS
  <2>2. Distinct(<<>>) /\ Contents(<<>>) = {}
    BY <2>1 DEF Distinct, Contents
  <2>3. 0 <= FifoSize
    BY CountsAssumption
  <2>4. Held(fifo[t], retrans[t], waitAck[t], acked[t], bursts[t])
    BY <1>1 DEF OnePlace
  <2> QED
    BY <2>1, <2>2, <2>3, <2>4 DEF Held
<1>5. /\ acked' = [acked EXCEPT ![t] = acked[t]] /\ bursts' = bursts /\ acks' = acks
      /\ slots' = slots /\ waitProp' = waitProp /\ handed' = handed
      /\ slots' \in [SlotIds -> SUBSET Transmission] /\ restarts' \in Nat
      /\ Len(bursts[t]) \in Nat /\ b \in Nat /\ b <= 1
  <2>1. bursts' = bursts /\ acks' = acks /\ slots' = slots /\ waitProp' = waitProp /\ handed' = handed
    BY <1>3 DEF nccVars
  <2>2. acked' = [acked EXCEPT ![t] = acked[t]] /\ restarts' \in Nat
    BY <1>1, <1>3 DEF Shapes
  <2>3. slots' \in [SlotIds -> SUBSET Transmission] /\ Len(bursts[t]) \in Nat
    BY <1>1, <2>1 DEF Shapes
  <2>4. b \in Nat /\ b <= 1
    OBVIOUS
  <2> QED
    BY <2>1, <2>2, <2>3, <2>4
<1>6. TalChange(t, 0, <<>>, <<>>, <<>>, acked[t], 1, b)
  <2>1. 0 \in Nat /\ 0 <= Len(bursts[t]) /\ 1 \in Nat /\ (1 <= CwMax \/ 1 = 1)
    BY <1>5
  <2> QED
    BY <1>2, <1>3, <1>4, <1>5, <2>1, Zenon DEF TalChange
<1>7. Shapes' /\ Bounds' /\ OnePlace'
  BY <1>5, <1>6, TalKeeps
<1>8. SentGenuine' /\ NccOK(waitProp, handed, acks)'
  BY <1>1, <1>5 DEF SentGenuine, Genuine, NccOK
<1>9. AckedWasTaken'
  BY <1>1, <1>3, <1>5 DEF AckedWasTaken, Taken, Reused
<1> QED
  BY <1>7, <1>8, <1>9 DEF AlohaInv

\* The inductive invariant: whatever the terminals, the NCC and the links do, every
\* packet is the one its burst was given, is in one place of its terminal, and is in
\* a PDU of the NCC when it was acknowledged.
THEOREM AlohaInvariant == Spec => []AlohaInv
<1>1. AlohaInv /\ [Next]_vars => AlohaInv'
  <2> SUFFICES ASSUME AlohaInv, [Next]_vars PROVE AlohaInv'
    OBVIOUS
  <2>1. CASE NccTick
    BY <2>1, NccTickKeeps
  <2>2. CASE \E t \in Terminals : \E n \in BurstSizes : NewBurst(t, n)
    BY <2>2, NewBurstKeeps
  <2>3. CASE \E t \in Terminals : TalTick(t)
    BY <2>3, TalTickKeeps
  <2>4. CASE \E t \in Terminals : \E id \in acks[t] : ReceiveAck(t, id) \/ LoseAck(t, id)
    BY <2>4, ReceiveAckStep, LoseAckKeeps
  <2>5. CASE \E t \in Terminals : Restart(t)
    BY <2>5, RestartKeeps
  <2>6. CASE UNCHANGED vars
    <3>1. /\ UNCHANGED <<talVars, acks, nccVars, bursts, acked, restarts, algo>>
          /\ Shapes /\ Bounds /\ OnePlace /\ SentGenuine
          /\ NccOK(waitProp, handed, acks) /\ AckedWasTaken
      BY <2>6 DEF vars, AlohaInv
    <3>2. Shapes' /\ Bounds' /\ OnePlace' /\ SentGenuine'
      BY <3>1 DEF Shapes, Bounds, OnePlace, SentGenuine, Genuine, talVars, nccVars
    <3>3. NccOK(waitProp, handed, acks)'
      BY <3>1 DEF NccOK, Genuine, nccVars
    <3>4. AckedWasTaken'
      BY <3>1 DEF AckedWasTaken, Taken, Reused, nccVars
    <3> QED
      BY <3>2, <3>3, <3>4 DEF AlohaInv
  <2> QED
    BY <2>1, <2>2, <2>3, <2>4, <2>5, <2>6 DEF Next
<1> QED
  BY <1>1, InitAlohaInv, PTL DEF Spec

-----------------------------------------------------------------------------
(* What the invariant says of the terminals, and of the PDUs. *)

\* A distinct sequence has as many contents as elements.
LEMMA DistinctCardinality ==
  ASSUME NEW T, NEW s \in Seq(T), Distinct(s)
  PROVE  Cardinality(Contents(s)) = Len(s)
<1> DEFINE n == Len(s)
           f == [i \in 1..n |-> Content(s[i])]
<1>1. n \in Nat /\ DOMAIN s = 1..n
  OBVIOUS
<1> HIDE DEF n
<1>2. f \in [1..n -> Contents(s)]
  BY <1>1 DEF Contents
<1>3. \A i, j \in 1..n : f[i] = f[j] => i = j
  BY <1>1 DEF Distinct
<1>4. \A c \in Contents(s) : \E i \in 1..n : f[i] = c
  BY <1>1 DEF Contents
<1> HIDE DEF f
<1>5. f \in Bijection(1..n, Contents(s))
  BY <1>2, <1>3, <1>4 DEF Bijection, Injection, Surjection, IsInjective
<1>6. ExistsBijection(1..n, Contents(s))
  BY <1>5 DEF ExistsBijection
<1> QED
  BY <1>1, <1>6, FS_CountingElements DEF n

\* A packet of the places is one IsPacket accepts.
LEMMA PlacesAreTyped ==
  ASSUME NEW given, NEW p \in Of(given)
  PROVE  IsPacket(p)
<1>1. p \in Packet /\ GenuineIn(given, p)
  BY DEF Of
<1> QED
  BY <1>1 DEF Packet, GenuineIn, IsPacket

\* Every packet a terminal holds is in one place, to be sent, to be sent again or
\* waiting, and no longer once it is acknowledged; the places keep their bounds:
\* for any number of terminals, any fifo and any frame.
THEOREM PacketInOnePlaceHolds == Spec => []PacketInOnePlace
<1>1. AlohaInv => PacketInOnePlace
  <2> SUFFICES ASSUME AlohaInv PROVE PacketInOnePlace
    OBVIOUS
  <2>1. Shapes /\ Bounds /\ OnePlace /\ NccOK(waitProp, handed, acks)
    BY DEF AlohaInv
  <2>2. ASSUME NEW t \in Terminals
        PROVE  /\ Len(fifo[t]) <= FifoSize
               /\ \A i \in DOMAIN fifo[t] : IsPacket(fifo[t][i]) /\ fifo[t][i].nbr = 0
               /\ \A i \in DOMAIN waitAck[t] : IsPacket(waitAck[t][i])
               /\ \A i \in DOMAIN retrans[t] : IsPacket(retrans[t][i]) /\ retrans[t][i].nbr > 0
               /\ baseId[t] \in 0..Len(bursts[t])
               /\ cw[t] <= CwMax \/ cw[t] = 1
               /\ backoff[t] \in 0..cw[t]
               /\ waitProp[t] \subseteq Transmission
               /\ \A pdu \in handed[t] : pdu \subseteq Transmission
               /\ Cardinality(Contents(Stored(t))) = Len(Stored(t))
               /\ Contents(Stored(t)) \cap acked[t] = {}
    <3> DEFINE f == fifo[t]
               r == retrans[t]
               w == waitAck[t]
               given == bursts[t]
               T == Of(given)
    <3>1. Held(f, r, w, acked[t], given)
      BY <2>1 DEF OnePlace
    <3> HIDE DEF f, r, w, given
    <3>2. /\ f \in Seq(Fresh(given)) /\ r \in Seq(Resent(given)) /\ w \in Seq(T)
          /\ Len(f) <= FifoSize
      BY <3>1 DEF Held
    <3>3. Fresh(given) \subseteq T /\ Resent(given) \subseteq T
      BY DEF Fresh, Resent
    <3>4. /\ \A i \in DOMAIN f : f[i] \in Fresh(given)
          /\ \A i \in DOMAIN r : r[i] \in Resent(given)
          /\ \A i \in DOMAIN w : w[i] \in T
      <4> HIDE DEF T
      <4> QED
        BY <3>2
    <3>5. /\ \A i \in DOMAIN f : IsPacket(f[i]) /\ f[i].nbr = 0
          /\ \A i \in DOMAIN r : IsPacket(r[i]) /\ r[i].nbr > 0
          /\ \A i \in DOMAIN w : IsPacket(w[i])
      BY <3>4, PlacesAreTyped DEF Fresh, Resent
    <3>6. /\ baseId[t] \in 0..Len(bursts[t]) /\ backoff[t] \in 0..cw[t]
          /\ (cw[t] <= CwMax \/ cw[t] = 1)
      BY <2>1 DEF Shapes, Bounds
    <3>7. waitProp[t] \subseteq Transmission /\ \A pdu \in handed[t] : pdu \subseteq Transmission
      BY <2>1 DEF NccOK
    <3>8. f \in Seq(T) /\ r \in Seq(T) /\ w \in Seq(T)
      <4>1. \A S, U : S \subseteq U => Seq(S) \subseteq Seq(U)
        OBVIOUS
      <4> QED
        BY <3>2, <3>3, <4>1
    <3> HIDE DEF T
    <3> DEFINE fr == f \o r
               s == fr \o w
    <3>9. fr \in Seq(T) /\ Contents(fr) = Contents(f) \cup Contents(r) /\ Distinct(fr)
      BY <3>1, <3>8, ConcatDistinct DEF Held
    <3> HIDE DEF fr
    <3>10. s \in Seq(T) /\ Contents(s) = Contents(fr) \cup Contents(w) /\ Distinct(s)
      BY <3>1, <3>8, <3>9, ConcatDistinct DEF Held
    <3> HIDE DEF s
    <3>11. Cardinality(Contents(s)) = Len(s)
      BY <3>10, DistinctCardinality
    <3>12. Contents(s) \cap acked[t] = {}
      BY <3>1, <3>9, <3>10 DEF Held
    <3>13. Stored(t) = s
      BY DEF Stored, s, fr, f, r, w
    <3>14. Len(fifo[t]) <= FifoSize
      BY <3>2 DEF f
    <3> QED
      BY <3>5, <3>6, <3>7, <3>11, <3>12, <3>13, <3>14 DEF f, r, w
  <2>3. \A k \in SlotIds : slots[k] \subseteq Transmission
    BY <2>1 DEF Shapes
  <2>4. TypeOK
    BY <2>2, <2>3 DEF TypeOK
  <2> QED
    BY <2>2, <2>4 DEF PacketInOnePlace
<1> QED
  BY <1>1, AlohaInvariant, PTL

\* The NCC took every acknowledged packet in a PDU, unless its identifier was given
\* out again.
THEOREM AckedWasTakenHolds == Spec => []AckedWasTaken
<1>1. AlohaInv => AckedWasTaken
  BY DEF AlohaInv
<1> QED
  BY <1>1, AlohaInvariant, PTL

\* SetToSeq forgets nothing.
LEMMA SetToSeqContents ==
  ASSUME NEW S, IsFiniteSet(S)
  PROVE  Contents(SetToSeq(S)) = {Content(q) : q \in S}
<1> DEFINE n == Cardinality(S)
           s == SetToSeq(S)
<1>1. n \in Nat /\ ExistsBijection(1..n, S)
  BY FS_CardinalityType
<1>2. \E f \in [1..n -> S] : IsInjective(f)
  BY <1>1 DEF ExistsBijection, Bijection, Injection
<1>3. s \in [1..n -> S] /\ IsInjective(s)
  BY <1>2 DEF SetToSeq
<1> HIDE DEF s, n
<1>4. s \in Injection(1..n, S)
  BY <1>3 DEF Injection
<1>5. IsFiniteSet(1..n) /\ Cardinality(1..n) = Cardinality(S)
  <2>1. 1 \in Int /\ n \in Int
    BY <1>1
  <2>2. IsFiniteSet(1..n) /\ Cardinality(1..n) = IF 1 > n THEN 0 ELSE n - 1 + 1
    BY <2>1, FS_Interval
  <2>3. (IF 1 > n THEN 0 ELSE n - 1 + 1) = n
    BY <1>1
  <2> QED
    BY <2>2, <2>3 DEF n
<1>6. s \in Surjection(1..n, S)
  BY <1>4, <1>5, FS_Injection
<1>7. /\ DOMAIN s = 1..n /\ \A i \in 1..n : s[i] \in S
      /\ \A q \in S : \E i \in 1..n : s[i] = q
  BY <1>3, <1>6 DEF Surjection
<1>8. Contents(s) = {Content(q) : q \in S}
  BY <1>7 DEF Contents
<1> QED
  BY <1>8 DEF s

\* The first transmissions of a burst.
BurstOf(t, b) ==
  {[tal |-> t, burst |-> b, id |-> bursts[t][b].id, seq |-> k, pduNb |-> bursts[t][b].size,
    nbr |-> 0] : k \in 0..(bursts[t][b].size - 1)}

\* They are as many as the burst has packets, each with its content.
LEMMA BurstOfFacts ==
  ASSUME NEW t, NEW b, bursts[t][b].size \in Nat \ {0}
  PROVE  /\ IsFiniteSet(BurstOf(t, b)) /\ Cardinality(BurstOf(t, b)) = bursts[t][b].size
         /\ {Content(q) : q \in BurstOf(t, b)} = {b} \X (0..(bursts[t][b].size - 1))
<1> DEFINE n == bursts[t][b].size
           x(k) == [tal |-> t, burst |-> b, id |-> bursts[t][b].id, seq |-> k, pduNb |-> n, nbr |-> 0]
           D == 0..(n - 1)
           f == [k \in D |-> x(k)]
           U == BurstOf(t, b)
<1>1. \A k \in D : x(k).seq = k /\ Content(x(k)) = <<b, k>>
  BY DEF Content
<1>2. U = {x(k) : k \in D}
  BY DEF BurstOf
<1> HIDE DEF x, U
<1>3. IsFiniteSet(D) /\ Cardinality(D) = n
  <2>1. n \in Nat /\ n > 0 /\ 0 \in Int /\ n - 1 \in Int
    OBVIOUS
  <2>2. IsFiniteSet(D) /\ Cardinality(D) = IF 0 > n - 1 THEN 0 ELSE n - 1 - 0 + 1
    BY <2>1, FS_Interval
  <2> QED
    BY <2>1, <2>2
<1> HIDE DEF D, n
<1>4. f \in [D -> U] /\ IsInjective(f)
  <2>1. f \in [D -> U]
    BY <1>2
  <2>2. \A i, j \in D : f[i] = f[j] => i = j
    BY <1>1
  <2> QED
    BY <2>1, <2>2 DEF IsInjective
<1>5. f \in Surjection(D, U)
  BY <1>2, <1>4 DEF Surjection
<1>6. ExistsBijection(D, U)
  BY <1>4, <1>5 DEF ExistsBijection, Bijection, Injection
<1>7. IsFiniteSet(U) /\ Cardinality(U) = n
  BY <1>3, <1>6, FS_Bijection
<1>8. {Content(q) : q \in U} = {b} \X D
  <2>1. {Content(q) : q \in U} = {<<b, k>> : k \in D}
    BY <1>1, <1>2
  <2>2. {<<b, k>> : k \in D} = {b} \X D
    OBVIOUS
  <2> QED
    BY <2>1, <2>2
<1> QED
  BY <1>7, <1>8 DEF U, n, D

\* A PDU whose packets were sent once, under an identifier given out once, is its
\* burst.
LEMMA PduIsBurst ==
  ASSUME AlohaInv, NEW t \in Terminals, NEW pdu \in handed[t],
         \A q \in pdu : q.nbr = 0, \A q \in pdu : ~ Reused(t, q.id),
         NEW p \in pdu
  PROVE  /\ p.burst \in DOMAIN bursts[t] /\ bursts[t][p.burst].size \in Nat \ {0}
         /\ pdu = BurstOf(t, p.burst)
<1> DEFINE b == p.burst
           U == BurstOf(t, b)
<1>1. \A q \in pdu : q \in Transmission /\ q.tal = t /\ GenuineIn(bursts[t], q)
  BY DEF AlohaInv, NccOK, Genuine
<1>2. Full(pdu)
  BY DEF AlohaInv, NccOK
<1>3. bursts[t] \in Seq([id : Nat, size : BurstSizes])
  BY DEF AlohaInv, Shapes
<1>4. \A q \in pdu : q.burst = b
  <2> TAKE q \in pdu
  <2>1. q.id = p.id /\ ~ Reused(t, p.id)
    BY <1>2 DEF Full
  <2>2. /\ q.burst \in DOMAIN bursts[t] /\ bursts[t][q.burst].id = q.id
        /\ b \in DOMAIN bursts[t] /\ bursts[t][b].id = p.id
    BY <1>1 DEF GenuineIn
  <2> QED
    BY <2>1, <2>2 DEF Reused
<1>5. /\ b \in DOMAIN bursts[t] /\ bursts[t][b].size = p.pduNb /\ bursts[t][b].id = p.id
      /\ bursts[t][b].size \in Nat \ {0}
  <2>1. b \in DOMAIN bursts[t] /\ bursts[t][b].size = p.pduNb /\ bursts[t][b].id = p.id
    BY <1>1 DEF GenuineIn
  <2>2. \A i \in DOMAIN bursts[t] : bursts[t][i].size \in BurstSizes
    <3> SUFFICES ASSUME NEW i \in DOMAIN bursts[t] PROVE bursts[t][i].size \in BurstSizes
      OBVIOUS
    <3>1. bursts[t][i] \in [id : Nat, size : BurstSizes]
      <4>1. DOMAIN bursts[t] = 1..Len(bursts[t])
        BY ONLY <1>3
      <4> QED
        BY ONLY <1>3, <4>1, i \in DOMAIN bursts[t], ElementOfSeq
    <3> QED
      BY ONLY <3>1
  <2>3. bursts[t][b].size \in BurstSizes
    BY ONLY <2>1, <2>2
  <2> QED
    BY ONLY <2>1, <2>3, CountsAssumption
<1>6. pdu \in SUBSET U
  <2> SUFFICES ASSUME NEW q \in pdu PROVE q \in U
    OBVIOUS
  <2>1. q.tal = t /\ q.burst = b /\ q.nbr = 0 /\ GenuineIn(bursts[t], q) /\ q \in Transmission
    BY <1>1, <1>4
  <2>2. q.id = bursts[t][b].id /\ q.pduNb = bursts[t][b].size /\ q.seq \in 0..(bursts[t][b].size - 1)
    BY <2>1 DEF GenuineIn
  <2>3. q = [tal |-> t, burst |-> b, id |-> bursts[t][b].id, seq |-> q.seq,
             pduNb |-> bursts[t][b].size, nbr |-> 0]
    <3>1. q = [tal |-> q.tal, burst |-> q.burst, id |-> q.id, seq |-> q.seq,
               pduNb |-> q.pduNb, nbr |-> q.nbr]
      BY <2>1 DEF Transmission
    <3> QED
      BY <2>1, <2>2, <3>1
  <2> QED
    BY <2>2, <2>3 DEF BurstOf
<1>7. Cardinality(pdu) = bursts[t][b].size
  <2>1. PICK q \in pdu : Cardinality(pdu) = q.pduNb
    BY <1>2 DEF Full
  <2>2. q.pduNb = bursts[t][b].size
    BY <1>1, <1>4 DEF GenuineIn
  <2> QED
    BY <2>1, <2>2
<1>8. IsFiniteSet(U) /\ Cardinality(U) = bursts[t][b].size
  BY <1>5, BurstOfFacts
<1> HIDE DEF U, b
<1>9. pdu = U
  BY <1>6, <1>7, <1>8, FS_Subset
<1> QED
  BY <1>5, <1>9 DEF U, b

\* A PDU passed to the encapsulation is a burst, whole, and no burst is passed twice,
\* unless a packet of it was sent again or its identifier given out again.
THEOREM HandedUpWholeHolds == Spec => []HandedUpWhole
<1>1. AlohaInv => HandedUpWhole
  <2> SUFFICES ASSUME AlohaInv, NEW t \in Terminals, NEW pdu \in handed[t],
                      \A q \in pdu : ~ (q.nbr > 0 \/ Reused(t, q.id))
               PROVE  /\ IsWhole(t, pdu)
                      /\ \A other \in handed[t] \ {pdu} :
                           Contents(SetToSeq(other)) \cap Contents(SetToSeq(pdu)) # {} =>
                             \E q \in other : q.nbr > 0
    BY DEF HandedUpWhole
  <2>1. \A d \in handed[t] : Full(d) /\ \A q \in d : q \in Transmission /\ GenuineIn(bursts[t], q)
    BY DEF AlohaInv, NccOK, Genuine
  <2>2. \A d \in handed[t] : \A q \in d : q.nbr > 0 \/ q.nbr = 0
    <3> SUFFICES ASSUME NEW d \in handed[t], NEW q \in d PROVE q.nbr > 0 \/ q.nbr = 0
      OBVIOUS
    <3> q.nbr \in 0..MaxRetransmissions
      BY <2>1 DEF Transmission
    <3> QED
      OBVIOUS
  <2>3. (\A q \in pdu : q.nbr = 0) /\ (\A q \in pdu : ~ Reused(t, q.id))
    BY <2>2
  <2>4. PICK p \in pdu : TRUE
    BY <2>1 DEF Full
  <2> DEFINE b == p.burst
  <2>5. /\ b \in DOMAIN bursts[t] /\ bursts[t][b].size \in Nat \ {0}
        /\ pdu = BurstOf(t, b)
    BY <2>3, PduIsBurst
  <2>6. /\ Cardinality(pdu) = bursts[t][b].size
        /\ {Content(q) : q \in pdu} = {b} \X (0..(bursts[t][b].size - 1))
    BY <2>5, BurstOfFacts
  <2>7. \A d \in handed[t] : Contents(SetToSeq(d)) = {Content(q) : q \in d}
    BY <2>1, SetToSeqContents DEF Full
  <2>8. IsWhole(t, pdu)
    BY <2>5, <2>6, <2>7 DEF IsWhole
  <2>9. ASSUME NEW other \in handed[t] \ {pdu},
               Contents(SetToSeq(other)) \cap Contents(SetToSeq(pdu)) # {},
               ~ \E q \in other : q.nbr > 0
        PROVE  FALSE
    <3>1. PICK o \in other, q \in pdu : Content(o) = Content(q)
      BY <2>7, <2>9
    <3>2. o.burst = q.burst
      BY <3>1 DEF Content
    <3>3. o.id = q.id
      BY <2>1, <3>2 DEF GenuineIn
    <3>4. \A e \in other : ~ Reused(t, e.id)
      <4> TAKE e \in other
      <4>1. e.id = o.id
        BY <2>1 DEF Full
      <4> QED
        BY <2>3, <3>3, <4>1
    <3>5. \A e \in other : e.nbr = 0
      BY <2>2, <2>9
    <3>6. other = BurstOf(t, o.burst)
      BY <3>4, <3>5, PduIsBurst
    <3>7. pdu = BurstOf(t, q.burst)
      BY <2>3, PduIsBurst
    <3> QED
      BY <3>2, <3>6, <3>7
  <2> QED
    BY <2>8, <2>9
<1> QED
  BY <1>1, AlohaInvariant, PTL
====
