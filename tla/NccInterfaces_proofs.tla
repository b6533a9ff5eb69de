------------------------ MODULE NccInterfaces_proofs ------------------------
(***************************************************************************)
(* NccInterfaces: a connection is closed only after its message was read,  *)
(* and requests are applied in the order in which they were stored, for    *)
(* any connections, spots and messages, whether or not applying fails.     *)
(***************************************************************************)
EXTENDS NccInterfaces, FiniteSetTheorems, SequenceTheorems, WellFoundedInduction, TLAPS

-----------------------------------------------------------------------------
(* The k-th number of a set. *)

\* Every set of naturals that is not empty has a least element.
LEMMA LeastNatural ==
  ASSUME NEW T, T \subseteq Nat, T # {}
  PROVE  \E x \in T : \A y \in T : x <= y
<1> DEFINE R == OpToRel(<, Nat)
<1>1. \A x, y \in Nat : <<x, y>> \in R <=> x < y
  BY DEF OpToRel
<1>2. IsWellFoundedOn(R, Nat)
  BY NatLessThanWellFounded
<1> HIDE DEF R
<1>3. PICK x \in T : \A y \in T : ~ (<<y, x>> \in R)
  BY <1>2, WFMin
<1>4. \A y \in T : x \in Nat /\ y \in Nat /\ ~ (y < x)
  BY <1>1, <1>3
<1> QED
  BY <1>4

\* There is one for every k below the size of the set.
LEMMA NthExists ==
  ASSUME NEW S, S \subseteq Nat, IsFiniteSet(S), NEW k \in Nat, k < Cardinality(S)
  PROVE  Nth(S, k) \in S /\ Cardinality({m \in S : m < Nth(S, k)}) = k
<1> DEFINE Below(n) == {m \in S : m < n}
           Missing == {i \in Nat : i < Cardinality(S) /\ \A n \in S : Cardinality(Below(n)) # i}
<1>1. Cardinality(S) \in Nat
  BY FS_CardinalityType
<1>2. \A n \in S : IsFiniteSet(Below(n)) /\ Cardinality(Below(n)) \in Nat
  <2> TAKE n \in S
  <2>1. Below(n) \in SUBSET S
    OBVIOUS
  <2> HIDE DEF Below
  <2> QED
    BY <2>1, FS_Subset, FS_CardinalityType
<1>3. Missing = {}
  <2> SUFFICES ASSUME Missing # {} PROVE FALSE
    OBVIOUS
  <2>1. PICK i \in Missing : \A j \in Missing : i <= j
    <3>1. Missing \subseteq Nat
      OBVIOUS
    <3> HIDE DEF Missing
    <3> QED
      BY <3>1, LeastNatural
  <2>2. i \in Nat /\ i < Cardinality(S) /\ \A n \in S : Cardinality(Below(n)) # i
    BY <2>1
  <2>3. CASE i = 0
    <3>1. S # {}
      BY <2>2, <2>3, FS_EmptySet
    <3>2. PICK n \in S : \A m \in S : n <= m
      BY <3>1, LeastNatural
    <3>3. Below(n) = {}
      <4>1. \A m \in S : m \in Nat /\ n \in Nat /\ ~(m < n)
        BY <3>2
      <4> QED
        BY <4>1
    <3> QED
      BY <2>2, <2>3, <3>3, FS_EmptySet
  <2>4. CASE i # 0
    <3>1. i - 1 \in Nat /\ i - 1 < Cardinality(S) /\ ~(i <= i - 1)
      BY <1>1, <2>2, <2>4
    <3>2. i - 1 \notin Missing
      BY <2>1, <3>1
    <3>3. PICK n \in S : Cardinality(Below(n)) = i - 1
      BY <3>1, <3>2
    <3> DEFINE Above == {m \in S : n < m}
               Upto == Below(n) \cup {n}
    <3>4. n \notin Below(n) /\ S = Upto \cup Above
      <4>1. \A m \in S : m \in Nat /\ n \in Nat
        OBVIOUS
      <4>2. \A m \in S : ~(n < n) /\ (m < n \/ m = n \/ n < m)
        BY <4>1
      <4> QED
        BY <4>2
    <3>5. IsFiniteSet(Upto) /\ Cardinality(Upto) = i
      <4> DEFINE B == Below(n)
      <4>1. IsFiniteSet(B) /\ n \notin B /\ Cardinality(B) = i - 1
        BY <1>2, <3>3, <3>4
      <4> HIDE DEF B
      <4>2. IsFiniteSet(B \cup {n}) /\ Cardinality(B \cup {n}) = (i - 1) + 1
        BY <4>1, FS_AddElement
      <4> QED
        BY <2>2, <4>2 DEF B
    <3>6. Above # {}
      <4> SUFFICES ASSUME Above = {} PROVE FALSE
        OBVIOUS
      <4>1. S = Upto
        BY <3>4
      <4> QED
        BY <2>2, <3>5, <4>1
    <3>7. PICK h \in Above : \A m \in Above : h <= m
      <4>1. Above \subseteq Nat
        OBVIOUS
      <4> HIDE DEF Above
      <4> QED
        BY <3>6, <4>1, LeastNatural
    <3>8. Below(h) = Upto
      <4>1. ASSUME NEW m \in S
            PROVE  m < h <=> (m < n \/ m = n)
        <5>1. m \in Nat /\ n \in Nat /\ h \in Nat /\ n < h
          BY <3>7
        <5>2. m > n => h <= m
          BY <3>7
        <5> QED
          BY <5>1, <5>2
      <4> QED
        BY <4>1
    <3>9. h \in S /\ Cardinality(Below(h)) = i
      BY <3>5, <3>7, <3>8
    <3> QED
      BY <2>2, <3>9
  <2> QED
    BY <2>3, <2>4
<1>4. k \notin Missing
  BY <1>3
<1>5. \E n \in S : Cardinality(Below(n)) = k
  BY <1>4
<1> QED
  BY <1>5 DEF Nth

\* Of two of them, the one with more below it is the greater.
LEMMA NthIncreases ==
  ASSUME NEW S, S \subseteq Nat, IsFiniteSet(S), NEW j \in Nat, NEW k \in Nat,
         j < k, k < Cardinality(S)
  PROVE  Nth(S, j) < Nth(S, k)
<1>1. j < Cardinality(S)
  BY FS_CardinalityType
<1> DEFINE a == Nth(S, j)
           b == Nth(S, k)
<1>2. /\ a \in S /\ Cardinality({m \in S : m < a}) = j
      /\ b \in S /\ Cardinality({m \in S : m < b}) = k
  BY <1>1, NthExists
<1> HIDE DEF a, b
<1>3. a \in Nat /\ b \in Nat
  BY <1>2
<1> SUFFICES ASSUME b <= a PROVE FALSE
  BY <1>3 DEF a, b
<1>4. {m \in S : m < b} \subseteq {m \in S : m < a}
  <2>1. \A m \in S : m \in Nat /\ (m < b => m < a)
    BY <1>3
  <2> QED
    BY <2>1
<1> DEFINE A == {m \in S : m < a}
           B == {m \in S : m < b}
<1>5. A \in SUBSET S /\ B \in SUBSET A /\ Cardinality(A) = j /\ Cardinality(B) = k
  BY <1>2, <1>4
<1> HIDE DEF A, B
<1>6. IsFiniteSet(A)
  BY <1>5, FS_Subset
<1>7. Cardinality(B) <= Cardinality(A)
  BY <1>5, <1>6, FS_Subset
<1> QED
  BY <1>5, <1>7

\* What is taken from some places of a list keeps the order of the list.
LEMMA PartInOrder ==
  ASSUME NEW R, NEW list \in Seq(R), NEW P \in SUBSET (1..Len(list))
  PROVE  /\ Part(list, P) \in Seq(R)
         /\ \A k \in 1..Len(Part(list, P)) : \E p \in P : Part(list, P)[k] = list[p]
         /\ \A j, k \in 1..Len(Part(list, P)) : j < k =>
              \E p, q \in P : p < q /\ Part(list, P)[j] = list[p] /\ Part(list, P)[k] = list[q]
<1>1. Len(list) \in Nat
  BY LenProperties
<1>2. IsFiniteSet(P) /\ P \subseteq Nat
  <2> DEFINE I == 1..Len(list)
  <2>1. IsFiniteSet(I) /\ P \in SUBSET I
    BY <1>1, FS_Interval
  <2>2. I \subseteq Nat
    BY <1>1
  <2> HIDE DEF I
  <2> QED
    BY <2>1, <2>2, FS_Subset
<1> DEFINE n == Cardinality(P)
<1>3. n \in Nat
  BY <1>2, FS_CardinalityType
<1>4. Part(list, P) = [k \in 1..n |-> list[Nth(P, k - 1)]]
  BY DEF Part
<1> HIDE DEF n
<1>5. ASSUME NEW k \in 1..n
      PROVE  /\ k - 1 \in Nat /\ k - 1 < Cardinality(P)
             /\ Nth(P, k - 1) \in P /\ Part(list, P)[k] = list[Nth(P, k - 1)]
  <2>1. k - 1 \in Nat /\ k - 1 < Cardinality(P)
    BY <1>3 DEF n
  <2>2. Nth(P, k - 1) \in P
    BY <1>2, <2>1, NthExists
  <2> QED
    BY <1>4, <2>1, <2>2
<1>6. \A k \in 1..n : list[Nth(P, k - 1)] \in R
  BY <1>5, ElementOfSeq
<1>7. Part(list, P) \in Seq(R) /\ Len(Part(list, P)) = n
  BY <1>3, <1>4, <1>6
<1>8. \A k \in 1..n : \E p \in P : Part(list, P)[k] = list[p]
  BY <1>5
<1>9. ASSUME NEW j \in 1..n, NEW k \in 1..n, j < k
      PROVE  \E p, q \in P : p < q /\ Part(list, P)[j] = list[p] /\ Part(list, P)[k] = list[q]
  <2>1. j - 1 < k - 1
    BY <1>9
  <2>2. Nth(P, j - 1) < Nth(P, k - 1)
    BY <1>2, <1>5, <2>1, NthIncreases
  <2> QED
    BY <1>5, <2>2
<1> QED
  BY <1>7, <1>8, <1>9

-----------------------------------------------------------------------------
(* The invariant of the connections. *)

Net(c) == [ev |-> "net", conn |-> c]
Listen(c) == [ev |-> "listen", conn |-> c]
Open(c) == conn[c] = "accepted"
WasRead(c) == msg[c] # None /\ c \notin unread

ConnTyped ==
  /\ conn \in [Conns -> {"idle", "backlog", "accepted", "closed"}]
  /\ fdOf \in [Conns -> Fds \cup {0}]
  /\ kind \in [Conns -> Kinds \cup {None}]
  /\ msg \in [Conns -> {None} \cup UNION {MessagesFor(i) : i \in Kinds}]
  /\ pc \in {"update", "select", "process"}

\* What a client did matches how far its connection is.
ClientsKept ==
  /\ \A c \in Conns : conn[c] \in {"idle", "backlog"} <=> fdOf[c] = 0
  /\ \A c \in Conns : conn[c] # "idle" => kind[c] \in Kinds
  /\ \A c \in Conns : msg[c] # None => conn[c] # "idle" /\ msg[c] \in MessagesFor(kind[c])
  /\ unread \subseteq {c \in Conns : msg[c] # None}
  /\ \A c \in Conns : conn[c] = "closed" => WasRead(c)

\* An open descriptor is that of one connection.
FdsDistinct == \A c, d \in Conns : Open(c) /\ Open(d) /\ fdOf[c] = fdOf[d] => c = d

\* What the table, the batch and removed_events name is open, and read where it
\* is going to be closed.
TableOpen ==
  /\ events \cup newEvents \subseteq {c \in Conns : Open(c)}
  /\ \A c \in Conns : Net(c) \in batch => c \in events /\ WasRead(c)
  /\ \A c \in Conns : Listen(c) \in batch => Open(c)
  /\ \A f \in removed : \E c \in events : fdOf[c] = f /\ WasRead(c)
  /\ pc = "select" => removed = {}
  /\ pc = "process" <=> batch # {}

ConnInv == ConnTyped /\ ClientsKept /\ FdsDistinct /\ TableOpen

-----------------------------------------------------------------------------
(* Descriptors. *)

LEMMA FdsNatural == IsFiniteSet(Fds) /\ Fds \subseteq Nat \ {0} /\ Cardinality(Fds) = Cardinality(Conns)
<1> DEFINE n == Cardinality(Conns)
<1>1. n \in Nat
  BY ConnsAssumption, FS_CardinalityType
<1>2. Fds = 1..n
  BY DEF Fds
<1> HIDE DEF n
<1>3. Fds \subseteq Nat \ {0}
  BY <1>1, <1>2
<1>4. IsFiniteSet(1..n) /\ Cardinality(1..n) = IF 1 > n THEN 0 ELSE n - 1 + 1
  BY <1>1, FS_Interval
<1>5. Cardinality(1..n) = n
  BY <1>1, <1>4
<1> QED
  BY <1>2, <1>3, <1>4, <1>5 DEF n

\* No more clients knock than there are free descriptors.
LEMMA FdsEnough ==
  ASSUME ConnInv
  PROVE  /\ IsFiniteSet(FreeFds) /\ FreeFds \subseteq Nat
         /\ IsFiniteSet(Knocking)
         /\ Cardinality(Knocking) <= Cardinality(FreeFds)
<1> DEFINE Acc == {c \in Conns : conn[c] = "accepted"}
           Bak == {c \in Conns : conn[c] = "backlog"}
           X == {fdOf[c] : c \in Acc}
<1> USE DEF ConnInv
<1>1. Acc \in SUBSET Conns /\ Bak \in SUBSET Conns /\ Acc \cap Bak = {}
  OBVIOUS
<1>2. FreeFds = Fds \ X
  BY DEF FreeFds
<1>3. X \subseteq Fds
  BY DEF ConnTyped, ClientsKept
<1>4. [c \in Acc |-> fdOf[c]] \in Surjection(Acc, X)
  BY DEF Surjection
<1>5. [c \in Bak |-> kind[c]] \in Surjection(Bak, Knocking)
  <2>1. \A c \in Bak : kind[c] \in Knocking
    BY DEF ClientsKept, Knocking, Backlog
  <2>2. \A i \in Knocking : \E c \in Bak : kind[c] = i
    BY DEF Knocking, Backlog
  <2> HIDE DEF Bak
  <2> QED
    BY <2>1, <2>2 DEF Surjection
<1> HIDE DEF Acc, Bak, X
<1>6. IsFiniteSet(Acc) /\ IsFiniteSet(Bak) /\ Cardinality(Acc) \in Nat /\ Cardinality(Bak) \in Nat
  BY <1>1, ConnsAssumption, FS_Subset, FS_CardinalityType
<1>7. IsFiniteSet(X) /\ Cardinality(X) <= Cardinality(Acc) /\ Cardinality(X) \in Nat
  BY <1>4, <1>6, FS_Surjection, FS_CardinalityType
<1>8. IsFiniteSet(Knocking) /\ Cardinality(Knocking) <= Cardinality(Bak) /\ Cardinality(Knocking) \in Nat
  BY <1>5, <1>6, FS_Surjection, FS_CardinalityType
<1>9. IsFiniteSet(FreeFds) /\ Cardinality(FreeFds) \in Nat
  <2>1. FreeFds \in SUBSET Fds
    BY <1>2
  <2> QED
    BY <2>1, FdsNatural, FS_Subset, FS_CardinalityType
<1>10. Cardinality(FreeFds) + Cardinality(X) = Cardinality(Conns)
  <2>1. FreeFds \cup X = Fds /\ FreeFds \cap X = {}
    BY <1>2, <1>3
  <2>2. Cardinality(FreeFds \cup X) = Cardinality(FreeFds) + Cardinality(X) - Cardinality(FreeFds \cap X)
    BY <1>7, <1>9, FS_Union
  <2>3. Cardinality(FreeFds \cap X) = 0
    BY <2>1, FS_EmptySet
  <2>4. Cardinality(Fds) = Cardinality(FreeFds) + Cardinality(X) - 0
    BY <2>1, <2>2, <2>3
  <2> QED
    BY <1>7, <1>9, <2>4, FdsNatural
<1>11. Cardinality(Acc) + Cardinality(Bak) <= Cardinality(Conns)
  <2>1. Acc \cup Bak \in SUBSET Conns
    BY <1>1
  <2>2. Cardinality(Acc \cup Bak) = Cardinality(Acc) + Cardinality(Bak) - Cardinality(Acc \cap Bak)
    BY <1>6, FS_Union
  <2>3. Cardinality(Acc \cup Bak) <= Cardinality(Conns)
    BY <2>1, ConnsAssumption, FS_Subset
  <2> QED
    BY <1>1, <1>6, <2>2, <2>3, FS_EmptySet
<1>12. Cardinality(Conns) \in Nat
  BY ConnsAssumption, FS_CardinalityType
<1>13. Cardinality(Knocking) <= Cardinality(FreeFds)
  BY <1>6, <1>7, <1>8, <1>9, <1>10, <1>11, <1>12
<1>14. FreeFds \subseteq Nat
  BY <1>2, FdsNatural
<1> QED
  BY <1>8, <1>9, <1>13, <1>14

\* The interfaces that are served before i.
Ahead(i) == {j \in Knocking : Order[j] < Order[i]}

LEMMA OrderDistinct ==
  /\ \A i \in Kinds : Order[i] \in 1..3
  /\ \A i, j \in Kinds : i # j => Order[i] # Order[j]
BY DEF Kinds, Order

\* Every client that is accepted gets a free descriptor ...
LEMMA FdForFree ==
  ASSUME ConnInv, NEW i \in Knocking
  PROVE  /\ FdFor(i) \in FreeFds
         /\ Cardinality({f \in FreeFds : f < FdFor(i)}) = Cardinality(Ahead(i))
<1>1. /\ IsFiniteSet(FreeFds) /\ FreeFds \subseteq Nat /\ IsFiniteSet(Knocking)
      /\ Cardinality(Knocking) <= Cardinality(FreeFds)
  BY FdsEnough
<1>2. i \in Kinds /\ ~(Order[i] < Order[i])
  BY OrderDistinct DEF Knocking
<1>3. Ahead(i) \in SUBSET Knocking /\ i \notin Ahead(i)
  BY <1>2 DEF Ahead
<1> DEFINE k == Cardinality(Ahead(i))
<1>4. k \in Nat /\ k < Cardinality(Knocking)
  <2>1. IsFiniteSet(Ahead(i)) /\ k <= Cardinality(Knocking)
    BY <1>1, <1>3, FS_Subset
  <2>2. k # Cardinality(Knocking)
    BY <1>1, <1>3, FS_Subset
  <2> QED
    BY <1>1, <2>1, <2>2, FS_CardinalityType
<1>5. k < Cardinality(FreeFds)
  BY <1>1, <1>4, FS_CardinalityType
<1>6. FdFor(i) = Nth(FreeFds, k)
  BY DEF FdFor, Ahead
<1> HIDE DEF k
<1>7. /\ Nth(FreeFds, k) \in FreeFds
      /\ Cardinality({f \in FreeFds : f < Nth(FreeFds, k)}) = k
  BY <1>1, <1>4, <1>5, NthExists
<1> QED
  BY <1>6, <1>7 DEF k

\* ... and no two of them the same.
LEMMA FdForDistinct ==
  ASSUME ConnInv, NEW i \in Knocking, NEW j \in Knocking, FdFor(i) = FdFor(j)
  PROVE  i = j
<1>1. ASSUME NEW a \in Knocking, NEW b \in Knocking, Order[a] < Order[b]
      PROVE  Cardinality(Ahead(a)) < Cardinality(Ahead(b))
  <2>1. Order[a] \in Int /\ Order[b] \in Int /\ \A k \in Knocking : Order[k] \in Int
    BY OrderDistinct DEF Knocking
  <2>2. Ahead(a) \in SUBSET Ahead(b) /\ a \in Ahead(b) /\ a \notin Ahead(a)
    BY <1>1, <2>1 DEF Ahead
  <2>3. IsFiniteSet(Knocking) /\ Ahead(b) \in SUBSET Knocking
    BY FdsEnough DEF Ahead
  <2>4. IsFiniteSet(Ahead(b))
    BY <2>3, FS_Subset
  <2>5. /\ IsFiniteSet(Ahead(a)) /\ Cardinality(Ahead(a)) <= Cardinality(Ahead(b))
        /\ Cardinality(Ahead(a)) # Cardinality(Ahead(b))
    BY <2>2, <2>4, FS_Subset
  <2> QED
    BY <2>4, <2>5, FS_CardinalityType
<1>2. Cardinality(Ahead(i)) = Cardinality(Ahead(j))
  BY FdForFree
<1>3. IsFiniteSet(Knocking) /\ Ahead(i) \in SUBSET Knocking /\ Ahead(j) \in SUBSET Knocking
  BY FdsEnough DEF Ahead
<1>4. Cardinality(Ahead(i)) \in Nat /\ Cardinality(Ahead(j)) \in Nat
  BY <1>3, FS_Subset, FS_CardinalityType
<1>5. ~(Order[i] < Order[j]) /\ ~(Order[j] < Order[i])
  BY <1>1, <1>2, <1>4
<1> QED
  BY <1>5, OrderDistinct DEF Knocking
-----------------------------------------------------------------------------
(* Every step keeps the invariant of the connections. *)

\* The variables the invariant is about, but those of the clients.
connVars == <<conn, fdOf, events, newEvents, removed, batch, pc>>

\* Nothing it is about changes.
LEMMA ConnUnchanged ==
  ASSUME ConnInv, UNCHANGED <<connVars, kind, msg, unread>>
  PROVE  ConnInv'
BY DEF ConnInv, ConnTyped, ClientsKept, FdsDistinct, TableOpen, Open, WasRead, connVars

LEMMA ConnConnect ==
  ASSUME ConnInv, NEW c \in Conns, NEW i \in Interfaces, Connect(c, i)
  PROVE  ConnInv'
<1> USE DEF ConnInv
<1>1. /\ conn[c] = "idle" /\ i \in Kinds
      /\ conn' = [conn EXCEPT ![c] = "backlog"] /\ kind' = [kind EXCEPT ![c] = i]
      /\ UNCHANGED <<fdOf, msg, unread, events, newEvents, removed, batch, pc>>
  BY InterfacesAssumption DEF Connect, tableVars, Kinds
<1>2. ConnTyped'
  BY <1>1 DEF ConnTyped
<1>3. msg[c] = None
  BY <1>1 DEF ClientsKept
<1>4. ClientsKept'
  BY <1>1, <1>3 DEF ConnTyped, ClientsKept, WasRead
<1>5. \A d \in Conns : Open(d)' <=> Open(d)
  BY <1>1 DEF ConnTyped, Open
<1>6. FdsDistinct'
  BY <1>1, <1>5 DEF FdsDistinct
<1>7. TableOpen'
  BY <1>1, <1>5 DEF TableOpen, WasRead
<1> QED
  BY <1>2, <1>4, <1>6, <1>7

LEMMA ConnSend ==
  ASSUME ConnInv, NEW c \in Conns, NEW m \in MessagesFor(kind[c]), Send(c, m)
  PROVE  ConnInv'
<1> USE DEF ConnInv
<1>1. /\ conn[c] \in {"backlog", "accepted"} /\ msg[c] = None
      /\ msg' = [msg EXCEPT ![c] = m] /\ unread' = unread \cup {c}
      /\ UNCHANGED <<conn, fdOf, kind, events, newEvents, removed, batch, pc>>
  BY DEF Send, tableVars
<1>2. kind[c] \in Kinds /\ m # None
  BY <1>1, NoMessageAssumption DEF ClientsKept
<1>3. ConnTyped'
  BY <1>1, <1>2 DEF ConnTyped
<1>4. \A d \in Conns : WasRead(d) => WasRead(d)' /\ d # c
  BY <1>1 DEF WasRead, ConnTyped
<1>5. ClientsKept'
  BY <1>1, <1>2, <1>4 DEF ConnTyped, ClientsKept
<1>6. \A d \in Conns : Open(d)' <=> Open(d)
  BY <1>1 DEF Open
<1>7. FdsDistinct'
  BY <1>1, <1>6 DEF FdsDistinct
<1>8. TableOpen'
  <2>1. events \subseteq Conns
    BY DEF TableOpen
  <2> QED
    BY <1>1, <1>4, <1>6, <2>1 DEF TableOpen, Net, Listen
<1> QED
  BY <1>3, <1>5, <1>7, <1>8

\* Only what was read is closed, and what stays in the table is open.
LEMMA ConnUpdateEvents ==
  ASSUME ConnInv, UpdateEvents
  PROVE  ConnInv'
<1> USE DEF ConnInv
<1> DEFINE table == events \cup newEvents
           closes(c) == c \in table /\ fdOf[c] \in removed
<1>1. /\ pc = "update" /\ pc' = "select"
      /\ events' = StillThere(table) /\ newEvents' = {} /\ removed' = {}
      /\ conn' = [c \in Conns |-> IF closes(c) THEN "closed" ELSE conn[c]]
      /\ UNCHANGED <<fdOf, kind, msg, unread, batch>>
  BY DEF UpdateEvents, clientVars
<1>2. table \subseteq Conns /\ \A c \in table : Open(c)
  BY DEF TableOpen
<1>3. ASSUME NEW c \in Conns, closes(c)
      PROVE  Open(c) /\ WasRead(c)
  <2>1. Open(c)
    BY <1>2, <1>3
  <2>2. PICK d \in events : fdOf[d] = fdOf[c] /\ WasRead(d)
    BY <1>3 DEF TableOpen
  <2>3. d \in Conns /\ Open(d)
    BY <1>2, <2>2
  <2>4. c = d
    BY <2>1, <2>2, <2>3 DEF FdsDistinct
  <2> QED
    BY <2>1, <2>2, <2>4
<1>4. \A c \in Conns : Open(c)' <=> Open(c) /\ ~closes(c)
  BY <1>1 DEF Open
<1>5. ConnTyped'
  BY <1>1 DEF ConnTyped
<1>6. ClientsKept'
  <2>1. \A c \in Conns : conn'[c] = IF closes(c) THEN "closed" ELSE conn[c]
    BY <1>1
  <2>2. \A c \in Conns : closes(c) => conn[c] = "accepted" /\ msg[c] # None /\ c \notin unread
    BY <1>3 DEF Open, WasRead
  <2> HIDE DEF closes
  <2> QED
    BY <1>1, <2>1, <2>2 DEF ClientsKept, WasRead
<1>7. FdsDistinct'
  BY <1>1, <1>4 DEF FdsDistinct
<1>8. TableOpen'
  <2>1. batch = {} /\ batch' = {}
    BY <1>1 DEF TableOpen
  <2>2. \A c \in events' : c \in Conns /\ Open(c)'
    BY <1>1, <1>2, <1>4 DEF StillThere
  <2> QED
    BY <1>1, <2>1, <2>2 DEF TableOpen
<1> QED
  BY <1>5, <1>6, <1>7, <1>8

\* The clients accepted at once get descriptors of their own.
LEMMA ConnSelect ==
  ASSUME ConnInv, SelectAndHandle
  PROVE  ConnInv'
<1> USE DEF ConnInv
<1>1. PICK picked \in [Knocking -> Conns] :
        /\ \A i \in Knocking : picked[i] \in Backlog(i)
        /\ LET accepted == {picked[i] : i \in Knocking}
               read == events \cap unread
               ready == {[ev |-> "timer", spot |-> s] : s \in expired}
                        \cup {[ev |-> "net", conn |-> c] : c \in read}
                        \cup {[ev |-> "listen", conn |-> c] : c \in accepted}
           IN  /\ conn' = [c \in Conns |-> IF c \in accepted THEN "accepted" ELSE conn[c]]
               /\ fdOf' = [c \in Conns |-> IF c \in accepted THEN FdFor(kind[c]) ELSE fdOf[c]]
               /\ unread' = unread \ read
               /\ batch' = ready
               /\ pc' = IF ready = {} THEN "update" ELSE "process"
  BY Zenon DEF SelectAndHandle
<1> DEFINE accepted == {picked[i] : i \in Knocking}
           read == events \cap unread
           ready == {[ev |-> "timer", spot |-> s] : s \in expired}
                    \cup {[ev |-> "net", conn |-> c] : c \in read}
                    \cup {[ev |-> "listen", conn |-> c] : c \in accepted}
<1>2. /\ conn' = [c \in Conns |-> IF c \in accepted THEN "accepted" ELSE conn[c]]
      /\ fdOf' = [c \in Conns |-> IF c \in accepted THEN FdFor(kind[c]) ELSE fdOf[c]]
      /\ unread' = unread \ read
      /\ batch' = ready
      /\ pc' = IF ready = {} THEN "update" ELSE "process"
  BY <1>1
<1>3. pc = "select" /\ removed = {} /\ UNCHANGED <<kind, msg, events, newEvents, removed>>
  BY DEF SelectAndHandle, clientVars, tableVars, TableOpen
<1>4. ASSUME NEW c \in accepted
      PROVE  c \in Conns /\ conn[c] = "backlog" /\ kind[c] \in Knocking /\ c = picked[kind[c]]
  <2>1. PICK i \in Knocking : c = picked[i]
    OBVIOUS
  <2>2. c \in Backlog(i)
    BY <1>1, <2>1
  <2> QED
    BY <2>1, <2>2 DEF Backlog
<1>5. ASSUME NEW c \in Conns, Net(c) \in ready PROVE c \in read
  BY <1>5 DEF Net
<1>6. ASSUME NEW c \in Conns, Listen(c) \in ready PROVE c \in accepted
  BY <1>6 DEF Listen
<1> HIDE DEF accepted, ready
<1>7. \A c \in accepted : FdFor(kind[c]) \in FreeFds /\ FdFor(kind[c]) \in Fds \ {0}
  <2>1. FreeFds \subseteq Fds /\ 0 \notin Fds
    BY FdsNatural DEF FreeFds
  <2> QED
    BY <1>4, <2>1, FdForFree
<1>8. \A c \in Conns : Open(c)' <=> c \in accepted \/ Open(c)
  BY <1>2 DEF Open
<1>9. ConnTyped'
  BY <1>2, <1>3, <1>7 DEF ConnTyped
<1>10. \A c \in Conns : WasRead(c) => WasRead(c)'
  BY <1>2, <1>3 DEF WasRead
<1>11. ClientsKept'
  <2>1. \A c \in Conns : conn'[c] = IF c \in accepted THEN "accepted" ELSE conn[c]
    BY <1>2
  <2>2. \A c \in Conns : fdOf'[c] = IF c \in accepted THEN FdFor(kind[c]) ELSE fdOf[c]
    BY <1>2
  <2>3. \A c \in Conns : conn'[c] \in {"idle", "backlog"} <=> fdOf'[c] = 0
    BY <1>4, <1>7, <2>1, <2>2 DEF ClientsKept
  <2>4. /\ \A c \in Conns : conn'[c] # "idle" => kind'[c] \in Kinds
        /\ \A c \in Conns : msg'[c] # None => conn'[c] # "idle" /\ msg'[c] \in MessagesFor(kind'[c])
        /\ unread' \subseteq {c \in Conns : msg'[c] # None}
    BY <1>2, <1>3, <1>4, <2>1 DEF ClientsKept
  <2>5. \A c \in Conns : conn'[c] = "closed" => WasRead(c)'
    BY <1>10, <2>1 DEF ClientsKept
  <2> QED
    BY <2>3, <2>4, <2>5 DEF ClientsKept
<1>12. FdsDistinct'
  <2> SUFFICES ASSUME NEW c \in Conns, NEW d \in Conns, Open(c)', Open(d)', fdOf'[c] = fdOf'[d]
               PROVE  c = d
    BY DEF FdsDistinct
  <2>1. \A e \in Conns : fdOf'[e] = IF e \in accepted THEN FdFor(kind[e]) ELSE fdOf[e]
    BY <1>2
  <2>2. \A e \in Conns : Open(e) => fdOf[e] \notin FreeFds
    BY DEF FreeFds, Open
  <2>3. CASE c \in accepted /\ d \in accepted
    <3>1. FdFor(kind[c]) = FdFor(kind[d])
      BY <2>1, <2>3
    <3>2. kind[c] = kind[d]
      BY <1>4, <2>3, <3>1, FdForDistinct
    <3> QED
      BY <1>4, <2>3, <3>2
  <2>4. CASE c \notin accepted /\ d \notin accepted
    BY <1>8, <2>1, <2>4 DEF FdsDistinct
  <2>5. CASE (c \in accepted) # (d \in accepted)
    BY <1>7, <1>8, <2>1, <2>2, <2>5
  <2> QED
    BY <2>3, <2>4, <2>5
<1>13. TableOpen'
  <2>1. \A c \in events \cup newEvents : c \in Conns /\ Open(c)'
    BY <1>8 DEF TableOpen
  <2>2. \A c \in Conns : Net(c) \in batch' => c \in events /\ WasRead(c)'
    <3> SUFFICES ASSUME NEW c \in Conns, Net(c) \in batch'
                 PROVE  c \in events /\ WasRead(c)'
      OBVIOUS
    <3>1. c \in read
      BY <1>2, <1>5
    <3> QED
      BY <1>2, <1>3, <3>1 DEF WasRead, ClientsKept
  <2>3. \A c \in Conns : Listen(c) \in batch' => Open(c)'
    BY <1>2, <1>6, <1>8
  <2>4. \A c \in Conns : Net(c)' = Net(c) /\ Listen(c)' = Listen(c)
    BY DEF Net, Listen
  <2> QED
    BY <1>2, <1>3, <2>1, <2>2, <2>3 DEF TableOpen, Net, Listen
<1> QED
  BY <1>9, <1>11, <1>12, <1>13

\* Giving an event to onEvent takes it out of the batch.
LEMMA BatchShrinks ==
  ASSUME ConnInv, NEW e, Processed(e)
  PROVE  /\ e \in batch /\ pc = "process"
         /\ batch' \subseteq batch
         /\ pc' \in {"update", "process"}
         /\ pc' = "process" <=> batch' # {}
BY DEF Processed, ConnInv, TableOpen

\* Whatever a message is, only its own socket is freed.
LEMMA NetSocketRemoves ==
  ASSUME NEW c \in Conns, OnNetSocket(c)
  PROVE  removed' = removed \/ removed' = removed \cup {fdOf[c]}
<1>1. CASE UNCHANGED removed
  BY <1>1
<1>2. ASSUME NEW i \in Matching(c), NEW m,
             Refused(i, m) \/ (i = "pep" /\ PepMessage(c, m)) \/ ApplyMessage(i, c, m)
      PROVE  removed' = removed \/ removed' = removed \cup {fdOf[c]}
  <2>1. socketClient[i] = fdOf[c]
    BY DEF Matching
  <2>2. Free(i) \/ UNCHANGED removed
    BY <1>2 DEF Refused, PepMessage, ApplyMessage
  <2> QED
    BY <2>1, <2>2 DEF Free
<1> QED
  BY <1>1, <1>2 DEF OnNetSocket

LEMMA ConnNetSocket ==
  ASSUME ConnInv, NEW c \in Conns, OnNetSocket(c)
  PROVE  ConnInv'
<1> USE DEF ConnInv
<1>1. /\ UNCHANGED <<conn, fdOf, unread, kind, msg, events, newEvents>>
      /\ Processed(Net(c))
  BY DEF OnNetSocket, clientVars, Net
<1>2. /\ Net(c) \in batch /\ pc = "process" /\ batch' \subseteq batch
      /\ pc' \in {"update", "process"} /\ (pc' = "process" <=> batch' # {})
  BY <1>1, BatchShrinks
<1>3. c \in events /\ WasRead(c)
  BY <1>2 DEF TableOpen
<1>4. \A f \in removed' : \E d \in events : fdOf[d] = f /\ WasRead(d)
  BY <1>3, NetSocketRemoves DEF TableOpen
<1>5. ConnTyped' /\ ClientsKept' /\ FdsDistinct'
  BY <1>1, <1>2 DEF ConnTyped, ClientsKept, FdsDistinct, Open, WasRead
<1>6. TableOpen'
  BY <1>1, <1>2, <1>4 DEF TableOpen, Open, WasRead, Net, Listen
<1> QED
  BY <1>5, <1>6

LEMMA ConnTcpListen ==
  ASSUME ConnInv, NEW c \in Conns, OnTcpListen(c)
  PROVE  ConnInv'
<1> USE DEF ConnInv
<1>1. /\ UNCHANGED <<conn, fdOf, unread, kind, msg, events, removed>>
      /\ newEvents' = newEvents \cup {c}
      /\ Processed(Listen(c))
  BY DEF OnTcpListen, clientVars, Listen
<1>2. /\ Listen(c) \in batch /\ pc = "process" /\ batch' \subseteq batch
      /\ pc' \in {"update", "process"} /\ (pc' = "process" <=> batch' # {})
  BY <1>1, BatchShrinks
<1>3. Open(c)
  BY <1>2 DEF TableOpen
<1>4. ConnTyped' /\ ClientsKept' /\ FdsDistinct'
  BY <1>1, <1>2 DEF ConnTyped, ClientsKept, FdsDistinct, Open, WasRead
<1>5. TableOpen'
  BY <1>1, <1>2, <1>3 DEF TableOpen, Open, WasRead, Net, Listen
<1> QED
  BY <1>4, <1>5

LEMMA ConnPepTimer ==
  ASSUME ConnInv, NEW s \in Spots, OnPepTimer(s)
  PROVE  ConnInv'
<1> USE DEF ConnInv
<1>1. /\ UNCHANGED <<conn, fdOf, unread, kind, msg, events, newEvents, removed>>
      /\ Processed([ev |-> "timer", spot |-> s])
  BY DEF OnPepTimer, clientVars, tableVars
<1>2. /\ pc = "process" /\ batch' \subseteq batch
      /\ pc' \in {"update", "process"} /\ (pc' = "process" <=> batch' # {})
  BY <1>1, BatchShrinks
<1>3. ConnTyped' /\ ClientsKept' /\ FdsDistinct'
  BY <1>1, <1>2 DEF ConnTyped, ClientsKept, FdsDistinct, Open, WasRead
<1>4. TableOpen'
  BY <1>1, <1>2 DEF TableOpen, Open, WasRead, Net, Listen
<1> QED
  BY <1>3, <1>4

LEMMA ConnStep ==
  ASSUME ConnInv, [Next]_vars
  PROVE  ConnInv'
<1>1. CASE UNCHANGED vars
  BY <1>1, ConnUnchanged DEF vars, connVars
<1>2. CASE UpwardApplies
  BY <1>2, ConnUnchanged DEF UpwardApplies, clientVars, tableVars, connVars
<1>3. ASSUME NEW s \in Spots, TimerExpires(s) PROVE ConnInv'
  BY <1>3, ConnUnchanged DEF TimerExpires, clientVars, tableVars, connVars
<1>4. CASE Loop
  BY <1>4, ConnUpdateEvents, ConnSelect, ConnNetSocket, ConnTcpListen, ConnPepTimer DEF Loop
<1>5. ASSUME NEW c \in Conns, HangUp(c) PROVE ConnInv'
  BY <1>5, ConnUnchanged DEF HangUp, tableVars, connVars
<1>6. CASE Clients
  BY <1>5, <1>6, ConnConnect, ConnSend DEF Clients
<1> QED
  BY <1>1, <1>2, <1>3, <1>4, <1>6 DEF Next
-----------------------------------------------------------------------------
(* The invariant of the requests. *)

Requests ==
  [n : Nat, itf : Kinds, type : UNION {TypesOf[i] : i \in Kinds},
   spot : RequestSpots, conn : Conns]

SameKind(q, r) == q.itf = r.itf /\ q.type = r.type

\* In a list, the requests of one kind come in the order they were stored.
InOrder(list) ==
  \A j, k \in 1..Len(list) : j < k /\ SameKind(list[j], list[k]) => list[j].n < list[k].n

\* Those of one list were stored before those of another.
Before(low, high) ==
  \A j \in 1..Len(low), k \in 1..Len(high) : SameKind(low[j], high[k]) => low[j].n < high[k].n

Numbered(list, last) == \A k \in 1..Len(list) : list[k].n <= last

QueuesTyped ==
  /\ socketClient \in [Kinds -> Fds \cup {0}]
  /\ isConnected \in [Kinds -> BOOLEAN]
  /\ running \subseteq Spots /\ expired \subseteq Spots
  /\ requests \in [Kinds -> Seq(Requests)]
  /\ shared \in Seq(Requests) /\ applied \in Seq(Requests)
  /\ serial \in Nat

\* What each list may hold.
RequestsKept ==
  /\ \A i \in Kinds : \A k \in 1..Len(requests[i]) :
       requests[i][k].itf = i /\ requests[i][k].type \in TypesOf[i]
  /\ \A k \in 1..Len(shared) : Shared(shared[k])
  /\ Numbered(applied, serial) /\ Numbered(shared, serial)
  /\ \A i \in Kinds : Numbered(requests[i], serial)

\* What was applied, what is shared and what waits on an interface are in order,
\* each and one before the other.
QueuesInOrder ==
  /\ InOrder(applied) /\ InOrder(shared) /\ Before(applied, shared)
  /\ \A i \in Kinds :
       InOrder(requests[i]) /\ Before(applied, requests[i]) /\ Before(shared, requests[i])

QueueInv == QueuesTyped /\ RequestsKept /\ QueuesInOrder

-----------------------------------------------------------------------------
(* Lists of requests. *)

\* An element of two lists joined is one of either.
LEMMA Joined ==
  ASSUME NEW R, NEW s \in Seq(R), NEW t \in Seq(R), NEW k \in 1..Len(s \o t)
  PROVE  \/ k \in 1..Len(s) /\ (s \o t)[k] = s[k]
         \/ k - Len(s) \in 1..Len(t) /\ k > Len(s) /\ (s \o t)[k] = t[k - Len(s)]
<1>1. s \o t \in Seq(R) /\ Len(s \o t) = Len(s) + Len(t) /\ Len(s) \in Nat /\ Len(t) \in Nat
  BY ConcatProperties, LenProperties
<1>2. k \in Nat /\ 1 <= k /\ k <= Len(s) + Len(t)
  BY <1>1
<1>3. CASE k <= Len(s)
  BY <1>1, <1>2, <1>3, ConcatProperties
<1>4. CASE k > Len(s)
  <2>1. (s \o t)[k] = t[k - Len(s)]
    BY <1>1, <1>2, <1>4, ConcatProperties
  <2> QED
    BY <1>1, <1>2, <1>4, <2>1
<1> QED
  BY <1>1, <1>2, <1>3, <1>4

LEMMA NumberTyped ==
  ASSUME NEW u \in Seq(Requests), NEW k \in 1..Len(u)
  PROVE  u[k] \in Requests /\ u[k].n \in Nat
<1>1. u[k] \in Requests
  BY ElementOfSeq
<1> QED
  BY <1>1 DEF Requests

LEMMA JoinedNumbered ==
  ASSUME NEW s \in Seq(Requests), NEW t \in Seq(Requests), NEW n,
         Numbered(s, n), Numbered(t, n)
  PROVE  Numbered(s \o t, n)
BY Joined DEF Numbered

LEMMA JoinedBefore ==
  ASSUME NEW s \in Seq(Requests), NEW t \in Seq(Requests), NEW u \in Seq(Requests)
  PROVE  /\ Before(s, u) /\ Before(t, u) => Before(s \o t, u)
         /\ Before(u, s) /\ Before(u, t) => Before(u, s \o t)
<1>1. ASSUME Before(s, u), Before(t, u) PROVE Before(s \o t, u)
  <2> SUFFICES ASSUME NEW j \in 1..Len(s \o t), NEW k \in 1..Len(u), SameKind((s \o t)[j], u[k])
               PROVE  (s \o t)[j].n < u[k].n
    BY DEF Before
  <2>1. \/ j \in 1..Len(s) /\ (s \o t)[j] = s[j]
        \/ j - Len(s) \in 1..Len(t) /\ (s \o t)[j] = t[j - Len(s)]
    BY Joined
  <2> DEFINE a == (s \o t)[j]
  <2>2. SameKind(a, u[k])
    OBVIOUS
  <2>3. \/ j \in 1..Len(s) /\ a = s[j]
        \/ j - Len(s) \in 1..Len(t) /\ a = t[j - Len(s)]
    BY <2>1
  <2> HIDE DEF a
  <2>4. a.n < u[k].n
    BY <1>1, <2>2, <2>3 DEF Before
  <2> QED
    BY <2>4 DEF a
<1>2. ASSUME Before(u, s), Before(u, t) PROVE Before(u, s \o t)
  <2> SUFFICES ASSUME NEW j \in 1..Len(u), NEW k \in 1..Len(s \o t), SameKind(u[j], (s \o t)[k])
               PROVE  u[j].n < (s \o t)[k].n
    BY DEF Before
  <2> QED
    BY <1>2, Joined DEF Before
<1> QED
  BY <1>1, <1>2

\* A list before another, joined to it, is in order.
LEMMA JoinedInOrder ==
  ASSUME NEW s \in Seq(Requests), NEW t \in Seq(Requests),
         InOrder(s), InOrder(t), Before(s, t)
  PROVE  InOrder(s \o t)
<1>1. Len(s) \in Nat /\ Len(t) \in Nat /\ Len(s \o t) \in Nat
  BY ConcatProperties, LenProperties
<1> SUFFICES ASSUME NEW j \in 1..Len(s \o t), NEW k \in 1..Len(s \o t), j < k,
                    SameKind((s \o t)[j], (s \o t)[k])
             PROVE  (s \o t)[j].n < (s \o t)[k].n
  BY DEF InOrder
<1>2. j \in Nat /\ k \in Nat
  BY <1>1
<1> DEFINE a == (s \o t)[j]
           b == (s \o t)[k]
<1>3. \/ j \in 1..Len(s) /\ a = s[j]
      \/ j - Len(s) \in 1..Len(t) /\ j > Len(s) /\ a = t[j - Len(s)]
  BY Joined
<1>4. \/ k \in 1..Len(s) /\ b = s[k]
      \/ k - Len(s) \in 1..Len(t) /\ k > Len(s) /\ b = t[k - Len(s)]
  BY Joined
<1>5. SameKind(a, b)
  OBVIOUS
<1> HIDE DEF a, b
<1>6. CASE j > Len(s)
  <2>1. k > Len(s) /\ j - Len(s) < k - Len(s)
    BY <1>1, <1>2, <1>6
  <2>2. a = t[j - Len(s)] /\ b = t[k - Len(s)]
    BY <1>1, <1>2, <1>3, <1>4, <1>6, <2>1
  <2>3. j - Len(s) \in 1..Len(t) /\ k - Len(s) \in 1..Len(t)
    BY <1>1, <1>2, <1>3, <1>4, <1>6, <2>1
  <2>4. a.n < b.n
    BY <1>5, <2>1, <2>2, <2>3 DEF InOrder
  <2> QED
    BY <2>4 DEF a, b
<1>7. CASE ~(j > Len(s))
  <2>1. j \in 1..Len(s) /\ a = s[j]
    BY <1>3, <1>7
  <2>2. a.n < b.n
    BY <1>4, <1>5, <2>1 DEF InOrder, Before
  <2> QED
    BY <2>2 DEF a, b
<1> QED
  BY <1>6, <1>7

\* All that a list has is in another one.
Within(t, s) == \A k \in 1..Len(t) : \E p \in 1..Len(s) : t[k] = s[p]

\* It is another one with some places left out.
Thinned(t, s) ==
  \A j, k \in 1..Len(t) : j < k =>
    \E p, q \in 1..Len(s) : p < q /\ t[j] = s[p] /\ t[k] = s[q]

LEMMA WithinKept ==
  ASSUME NEW s \in Seq(Requests), NEW t \in Seq(Requests), NEW u \in Seq(Requests), NEW n,
         Within(t, s)
  PROVE  /\ Numbered(s, n) => Numbered(t, n)
         /\ Before(s, u) => Before(t, u)
         /\ Before(u, s) => Before(u, t)
<1>1. ASSUME Numbered(s, n) PROVE Numbered(t, n)
  BY <1>1 DEF Numbered, Within
<1>2. ASSUME Before(s, u) PROVE Before(t, u)
  BY <1>2 DEF Before, Within
<1>3. ASSUME Before(u, s) PROVE Before(u, t)
  BY <1>3 DEF Before, Within
<1> QED
  BY <1>1, <1>2, <1>3

LEMMA ThinnedInOrder ==
  ASSUME NEW s, NEW t, InOrder(s), Thinned(t, s)
  PROVE  InOrder(t)
<1> SUFFICES ASSUME NEW j \in 1..Len(t), NEW k \in 1..Len(t), j < k, SameKind(t[j], t[k])
             PROVE  t[j].n < t[k].n
  BY DEF InOrder
<1>1. PICK p \in 1..Len(s), q \in 1..Len(s) : p < q /\ t[j] = s[p] /\ t[k] = s[q]
  BY DEF Thinned
<1> QED
  BY <1>1 DEF InOrder

\* Some places of a list.
LEMMA PartThinned ==
  ASSUME NEW list \in Seq(Requests), NEW P \in SUBSET (1..Len(list))
  PROVE  /\ Part(list, P) \in Seq(Requests)
         /\ \A k \in 1..Len(Part(list, P)) : \E p \in P : Part(list, P)[k] = list[p]
         /\ Within(Part(list, P), list) /\ Thinned(Part(list, P), list)
BY PartInOrder DEF Within, Thinned

\* What comes after one of its places.
LEMMA RestThinned ==
  ASSUME NEW list \in Seq(Requests), NEW stop \in 1..(Len(list) + 1)
  PROVE  LET rest == SubSeq(list, stop + 1, Len(list))
         IN  /\ rest \in Seq(Requests)
             /\ \A k \in 1..Len(rest) : stop + k \in 1..Len(list) /\ rest[k] = list[stop + k]
             /\ Within(rest, list) /\ Thinned(rest, list)
<1> DEFINE rest == SubSeq(list, stop + 1, Len(list))
           n == Len(list)
<1>1. n \in Nat /\ stop \in Nat
  BY LenProperties
<1>2. \A p \in 1..n : list[p] \in Requests
  BY ElementOfSeq
<1> HIDE DEF n
<1>3. /\ SubSeq(list, stop + 1, n) \in Seq(Requests)
      /\ Len(SubSeq(list, stop + 1, n)) = IF stop + 1 <= n THEN n - (stop + 1) + 1 ELSE 0
      /\ \A k \in 1..(n - (stop + 1) + 1) : SubSeq(list, stop + 1, n)[k] = list[(stop + 1) + k - 1]
  <2>1. stop + 1 \in Int /\ n \in Int /\ \A p \in (stop + 1)..n : list[p] \in Requests
    BY <1>1, <1>2
  <2> QED
    BY <2>1, SubSeqProperties
<1>4. rest \in Seq(Requests) /\ Len(rest) = IF stop + 1 <= n THEN n - (stop + 1) + 1 ELSE 0
  BY <1>3 DEF n
<1> HIDE DEF rest
<1>5. ASSUME NEW k \in 1..Len(rest)
      PROVE  stop + k \in 1..n /\ rest[k] = list[stop + k] /\ k \in Nat
  <2>1. stop + 1 <= n /\ k \in Nat /\ k \in 1..(n - (stop + 1) + 1)
    BY <1>1, <1>4
  <2>2. rest[k] = list[(stop + 1) + k - 1]
    BY <1>3, <2>1 DEF rest, n
  <2>3. (stop + 1) + k - 1 = stop + k /\ stop + k \in 1..n
    BY <1>1, <2>1
  <2> QED
    BY <2>1, <2>2, <2>3
<1>6. Within(rest, list)
  BY <1>5 DEF Within, n
<1>7. Thinned(rest, list)
  <2> SUFFICES ASSUME NEW j \in 1..Len(rest), NEW k \in 1..Len(rest), j < k
               PROVE  \E p, q \in 1..n : p < q /\ rest[j] = list[p] /\ rest[k] = list[q]
    BY DEF Thinned, n
  <2>1. stop + j < stop + k
    BY <1>1, <1>5
  <2> QED
    BY <1>5, <2>1
<1> QED
  BY <1>4, <1>5, <1>6, <1>7 DEF rest, n
-----------------------------------------------------------------------------
(* Every step keeps the invariant of the requests. *)

listVars == <<requests, shared, applied, serial>>

LEMMA ListsUnchanged ==
  ASSUME QueueInv, UNCHANGED listVars
  PROVE  RequestsKept' /\ QueuesInOrder'
<1> USE DEF QueueInv, listVars
<1>1. RequestsKept'
  BY DEF RequestsKept, Shared, Numbered
<1>2. QueuesInOrder'
  BY DEF QueuesInOrder, InOrder, Before, SameKind
<1> QED
  BY <1>1, <1>2

LEMMA QueueUnchanged ==
  ASSUME QueueInv, UNCHANGED <<listVars, itfVars, timerVars>>
  PROVE  QueueInv'
<1>1. QueuesTyped'
  BY DEF QueueInv, QueuesTyped, listVars, itfVars, timerVars
<1> QED
  BY <1>1, ListsUnchanged DEF QueueInv

\* What a step has to show of the lists it leaves.
LEMMA OrderOfNext ==
  ASSUME InOrder(applied'), InOrder(shared'), Before(applied', shared'),
         \A i \in Kinds : /\ InOrder(requests'[i])
                          /\ Before(applied', requests'[i]) /\ Before(shared', requests'[i])
  PROVE  QueuesInOrder'
BY DEF QueuesInOrder, InOrder, Before, SameKind

\* A message whose commands are kept is one of the interface.
LEMMA MessageRead ==
  ASSUME ConnInv, NEW c \in Conns, msg[c] # None, NEW i \in Kinds,
         NEW m \in Readings(i, c), Accepted(i, m)
  PROVE  m.type \in TypesOf[i] /\ m.spots \in Seq(RequestSpots)
<1>1. kind[c] \in Kinds /\ msg[c] \in MessagesFor(kind[c])
  BY DEF ConnInv, ClientsKept
<1>2. msg[c].type \in TypesOf[kind[c]] /\ msg[c].spots \in Seq(RequestSpots)
  <2>1. PICK n \in 0..MaxCommands : msg[c].spots \in [1..n -> RequestSpots]
    BY <1>1 DEF MessagesFor
  <2>2. n \in Nat
    BY MaxCommandsAssumption
  <2>3. msg[c].spots \in Seq(RequestSpots)
    BY <2>1, <2>2
  <2> QED
    BY <1>1, <2>3 DEF MessagesFor
<1>3. m.spots # <<>>
  BY DEF Accepted
<1>4. CASE kind[c] = i
  BY <1>2, <1>4 DEF Readings
<1>5. CASE kind[c] # i
  <2>1. m # [msg[c] EXCEPT !.spots = <<>>]
    BY <1>1, <1>3 DEF MessagesFor
  <2>2. PICK t \in TypesOf[i] : m = [msg[c] EXCEPT !.type = t]
    BY <1>5, <2>1 DEF Readings
  <2>3. m.type = t /\ m.spots = msg[c].spots
    BY <1>1, <2>2 DEF MessagesFor
  <2> QED
    BY <1>2, <2>3
<1> QED
  BY <1>4, <1>5

\* What is stored of it.
LEMMA StoredKept ==
  ASSUME QueuesTyped, NEW c \in Conns, NEW i \in Kinds, NEW m,
         m.type \in TypesOf[i], m.spots \in Seq(RequestSpots)
  PROVE  LET new == Stored(i, c, m)
         IN  /\ new \in Seq(Requests) /\ Len(new) = Len(m.spots)
             /\ \A k \in 1..Len(new) : new[k].itf = i /\ new[k].type = m.type /\ new[k].n = serial + k
<1> DEFINE new == Stored(i, c, m)
           len == Len(m.spots)
<1>1. len \in Nat /\ serial \in Nat
  BY LenProperties DEF QueuesTyped
<1>2. \A k \in 1..len : m.spots[k] \in RequestSpots
  BY ElementOfSeq
<1>3. new = [k \in 1..len |-> [n |-> serial + k, itf |-> i, type |-> m.type,
                               spot |-> m.spots[k], conn |-> c]]
  BY DEF Stored
<1> HIDE DEF len, new
<1>4. \A k \in 1..len : new[k] \in Requests
  <2>1. m.type \in UNION {TypesOf[j] : j \in Kinds}
    OBVIOUS
  <2> QED
    BY <1>1, <1>2, <1>3, <2>1 DEF Requests
<1>5. new \in Seq(Requests) /\ Len(new) = len
  BY <1>1, <1>3, <1>4
<1>6. \A k \in 1..len : new[k].itf = i /\ new[k].type = m.type /\ new[k].n = serial + k
  BY <1>3
<1> QED
  BY <1>5, <1>6 DEF new, len

\* It comes after all that waits, is shared or was applied.
LEMMA MessageQueued ==
  ASSUME ConnInv, QueueInv, NEW c \in Conns, msg[c] # None, NEW i \in Kinds,
         NEW m \in Readings(i, c), Accepted(i, m)
  PROVE  LET list == requests[i] \o Stored(i, c, m)
             last == serial + Len(m.spots)
         IN  /\ list \in Seq(Requests) /\ list # <<>> /\ last \in Nat /\ serial <= last
             /\ \A k \in 1..Len(list) : list[k].itf = i /\ list[k].type \in TypesOf[i]
             /\ Numbered(list, last)
             /\ InOrder(list) /\ Before(applied, list) /\ Before(shared, list)
<1> DEFINE new == Stored(i, c, m)
           old == requests[i]
           list == old \o new
           last == serial + Len(m.spots)
<1>1. m.type \in TypesOf[i] /\ m.spots \in Seq(RequestSpots) /\ m.spots # <<>>
  BY MessageRead DEF Accepted
<1>2. /\ new \in Seq(Requests) /\ Len(new) = Len(m.spots)
      /\ \A k \in 1..Len(new) : new[k].itf = i /\ new[k].type = m.type /\ new[k].n = serial + k
  BY <1>1, StoredKept DEF QueueInv
<1>3. /\ old \in Seq(Requests) /\ applied \in Seq(Requests) /\ shared \in Seq(Requests) /\ serial \in Nat
      /\ \A k \in 1..Len(old) : old[k].itf = i /\ old[k].type \in TypesOf[i]
      /\ Numbered(old, serial) /\ Numbered(applied, serial) /\ Numbered(shared, serial)
      /\ InOrder(old) /\ Before(applied, old) /\ Before(shared, old)
  BY DEF QueueInv, QueuesTyped, RequestsKept, QueuesInOrder
<1> HIDE DEF new, old
<1>4. Len(new) \in Nat /\ Len(new) > 0 /\ last = serial + Len(new)
  BY <1>1, <1>2, LenProperties, EmptySeq
<1>5. last \in Nat /\ serial <= last
  BY <1>3, <1>4
<1>6. \A k \in 1..Len(new) : k \in Nat /\ serial < new[k].n /\ new[k].n <= last
  BY <1>2, <1>3, <1>4
<1> HIDE DEF last
<1>7. InOrder(new)
  <2> SUFFICES ASSUME NEW j \in 1..Len(new), NEW k \in 1..Len(new), j < k
               PROVE  new[j].n < new[k].n
    BY DEF InOrder
  <2> QED
    BY <1>2, <1>3, <1>6
<1>8. ASSUME NEW u \in Seq(Requests), Numbered(u, serial)
      PROVE  Before(u, new) /\ Numbered(u, last)
  <2>1. ASSUME NEW k \in 1..Len(u)
        PROVE  u[k].n \in Nat /\ u[k].n <= serial
    BY <1>8, NumberTyped DEF Numbered
  <2>2. Numbered(u, last)
    BY <1>3, <1>5, <2>1 DEF Numbered
  <2>3. ASSUME NEW j \in 1..Len(u), NEW k \in 1..Len(new)
        PROVE  u[j].n < new[k].n
    <3>1. new[k].n \in Nat /\ serial < new[k].n
      BY <1>2, <1>3, <1>6
    <3> QED
      BY <1>3, <2>1, <3>1
  <2> QED
    BY <2>2, <2>3 DEF Before
<1>9. Numbered(new, last)
  BY <1>6 DEF Numbered
<1>10. list \in Seq(Requests) /\ list # <<>>
  <2>1. list \in Seq(Requests) /\ Len(list) = Len(old) + Len(new)
    BY <1>2, <1>3, ConcatProperties
  <2>2. Len(old) \in Nat
    BY <1>3, LenProperties
  <2> QED
    BY <1>4, <2>1, <2>2, EmptySeq
<1>11. \A k \in 1..Len(list) : list[k].itf = i /\ list[k].type \in TypesOf[i]
  <2> SUFFICES ASSUME NEW k \in 1..Len(list)
               PROVE  list[k].itf = i /\ list[k].type \in TypesOf[i]
    OBVIOUS
  <2>1. \/ k \in 1..Len(old) /\ list[k] = old[k]
        \/ k - Len(old) \in 1..Len(new) /\ list[k] = new[k - Len(old)]
    BY <1>2, <1>3, Joined
  <2> HIDE DEF list
  <2> QED
    BY <1>1, <1>2, <1>3, <2>1
<1>12. Numbered(list, last)
  BY <1>2, <1>3, <1>8, <1>9, JoinedNumbered
<1>13. InOrder(list)
  BY <1>2, <1>3, <1>7, <1>8, JoinedInOrder
<1>14. Before(applied, list) /\ Before(shared, list)
  BY <1>2, <1>3, <1>8, JoinedBefore
<1> QED
  BY <1>5, <1>10, <1>11, <1>12, <1>13, <1>14 DEF list, last, old, new

\* A request stored later may have a greater number.
LEMMA NumberedLater ==
  ASSUME NEW u \in Seq(Requests), NEW n \in Nat, NEW last \in Nat, n <= last, Numbered(u, n)
  PROVE  Numbered(u, last)
<1>1. \A k \in 1..Len(u) : u[k].n \in Nat
  BY NumberTyped
<1> QED
  BY <1>1 DEF Numbered

\* Requests of different interfaces, or of which one is shared and one is not, may
\* come in any order.
LEMMA UnlikeBefore ==
  ASSUME NEW s, NEW t,
         \A j \in 1..Len(s), k \in 1..Len(t) :
            s[j].itf # t[k].itf \/ (Shared(s[j]) /\ ~Shared(t[k])) \/ (~Shared(s[j]) /\ Shared(t[k]))
  PROVE  Before(s, t)
BY DEF Before, SameKind, Shared
LEMMA QueueRefused ==
  ASSUME ConnInv, QueueInv, NEW i \in Kinds, NEW m, Refused(i, m), UNCHANGED socketClient
  PROVE  QueueInv'
<1>1. UNCHANGED listVars /\ UNCHANGED timerVars
  BY DEF Refused, listVars
<1>2. isConnected' \in [Kinds -> BOOLEAN]
  BY DEF Refused, QueueInv, QueuesTyped
<1>3. QueuesTyped'
  BY <1>1, <1>2 DEF QueueInv, QueuesTyped, listVars, timerVars
<1> QED
  BY <1>1, <1>3, ListsUnchanged DEF QueueInv

\* The requests of the PEP wait, all of them in one list, for a timer.
LEMMA QueuePepMessage ==
  ASSUME ConnInv, QueueInv, NEW c \in Conns, msg[c] # None,
         NEW m \in Readings("pep", c), PepMessage(c, m), UNCHANGED socketClient
  PROVE  QueueInv'
<1> DEFINE list == requests["pep"] \o Stored("pep", c, m)
           last == serial + Len(m.spots)
<1>1. /\ Accepted("pep", m)
      /\ requests' = [requests EXCEPT !["pep"] = list] /\ serial' = last
      /\ UNCHANGED <<isConnected, shared, applied>>
  BY DEF PepMessage
<1>2. "pep" \in Kinds
  BY DEF Kinds
<1>3. /\ list \in Seq(Requests) /\ last \in Nat /\ serial <= last
      /\ \A k \in 1..Len(list) : list[k].itf = "pep" /\ list[k].type \in TypesOf["pep"]
      /\ Numbered(list, last)
      /\ InOrder(list) /\ Before(applied, list) /\ Before(shared, list)
  BY <1>1, <1>2, MessageQueued
<1>4. running' \subseteq Spots /\ expired' \subseteq Spots
  <2>1. running \subseteq Spots /\ expired \subseteq Spots
    BY DEF QueueInv, QueuesTyped
  <2>2. CASE m.last \in Spots
    BY <2>1, <2>2 DEF PepMessage, StartOrRaise
  <2>3. CASE m.last \notin Spots
    BY <2>1, <2>3 DEF PepMessage, timerVars
  <2> QED
    BY <2>2, <2>3
<1> HIDE DEF list, last
<1>5. requests \in [Kinds -> Seq(Requests)] /\ shared \in Seq(Requests) /\ applied \in Seq(Requests) /\ serial \in Nat
  BY DEF QueueInv, QueuesTyped
<1>6. \A i \in Kinds : requests'[i] = IF i = "pep" THEN list ELSE requests[i]
  BY <1>1, <1>2, <1>5
<1>7. QueuesTyped'
  BY <1>1, <1>3, <1>4 DEF QueueInv, QueuesTyped
<1>8. RequestsKept'
  <2>1. \A i \in Kinds : \A k \in 1..Len(requests'[i]) :
          requests'[i][k].itf = i /\ requests'[i][k].type \in TypesOf[i]
    BY <1>3, <1>6 DEF QueueInv, RequestsKept
  <2>2. Numbered(applied, last) /\ Numbered(shared, last) /\ \A i \in Kinds : Numbered(requests[i], last)
    BY <1>3, <1>5, NumberedLater DEF QueueInv, RequestsKept
  <2>3. \A i \in Kinds : Numbered(requests'[i], last)
    BY <1>3, <1>6, <2>2
  <2>4. \A k \in 1..Len(shared') : Shared(shared'[k])
    BY <1>1 DEF QueueInv, RequestsKept
  <2> QED
    BY <1>1, <2>1, <2>2, <2>3, <2>4 DEF RequestsKept, Numbered, Shared
<1>9. QueuesInOrder'
  <2>1. \A i \in Kinds : /\ InOrder(requests'[i])
                         /\ Before(applied, requests'[i]) /\ Before(shared, requests'[i])
    BY <1>3, <1>6 DEF QueueInv, QueuesInOrder
  <2>2. InOrder(applied) /\ InOrder(shared) /\ Before(applied, shared)
    BY DEF QueueInv, QueuesInOrder
  <2>3. InOrder(applied') /\ InOrder(shared') /\ Before(applied', shared')
    BY <1>1, <2>2
  <2>4. \A i \in Kinds : /\ InOrder(requests'[i])
                         /\ Before(applied', requests'[i]) /\ Before(shared', requests'[i])
    BY <1>1, <2>1
  <2> QED
    BY <2>3, <2>4, OrderOfNext
<1> QED
  BY <1>7, <1>8, <1>9 DEF QueueInv

\* Where the loop over a list stops is one of its places, or past its end.
LEMMA StopsInList ==
  ASSUME NEW list \in Seq(Requests), NEW stop \in Stops(list)
  PROVE  stop \in 1..(Len(list) + 1)
<1> DEFINE bad == {k \in 1..Len(list) : ~Shared(list[k]) /\ list[k].spot \notin Spots}
           first == IF bad = {} THEN Len(list) + 1 ELSE CHOOSE k \in bad : \A j \in bad : k <= j
           n == Len(list)
<1>1. n \in Nat
  BY LenProperties
<1>2. stop \in {first} \cup {k \in 1..(first - 1) : MayFail /\ ~Shared(list[k])}
  BY DEF Stops
<1>3. first \in 1..(n + 1)
  <2>1. CASE bad = {}
    BY <1>1, <2>1
  <2>2. CASE bad # {}
    <3>1. bad \subseteq 1..n
      OBVIOUS
    <3> HIDE DEF bad, n
    <3>2. bad \subseteq Nat
      BY <1>1, <3>1
    <3>3. \E k \in bad : \A j \in bad : k <= j
      BY <2>2, <3>2, LeastNatural
    <3>4. first \in bad
      BY <2>2, <3>3
    <3> HIDE DEF first
    <3>5. first \in 1..n
      BY <3>1, <3>4
    <3> QED
      BY <1>1, <3>5
  <2> QED
    BY <2>1, <2>2
<1> HIDE DEF first, n
<1>4. stop \in 1..(n + 1)
  BY <1>1, <1>2, <1>3
<1> QED
  BY <1>4 DEF n

\* What is applied, what is shared and what stays of a list.
LEMMA ListSplit ==
  ASSUME NEW list \in Seq(Requests), InOrder(list), NEW stop \in 1..(Len(list) + 1),
         NEW away, away = {k \in 1..(stop - 1) : Shared(list[k])}
  PROVE  LET now == Part(list, (1..(stop - 1)) \ away)
             sent == Part(list, away)
             rest == SubSeq(list, stop + 1, Len(list))
         IN  /\ now \in Seq(Requests) /\ sent \in Seq(Requests) /\ rest \in Seq(Requests)
             /\ Within(now, list) /\ Within(sent, list) /\ Within(rest, list)
             /\ InOrder(now) /\ InOrder(sent) /\ InOrder(rest)
             /\ \A k \in 1..Len(now) : ~Shared(now[k])
             /\ \A k \in 1..Len(sent) : Shared(sent[k])
             /\ Before(now, rest) /\ Before(sent, rest)
<1> DEFINE done == 1..(stop - 1)
           now == Part(list, done \ away)
           sent == Part(list, away)
           rest == SubSeq(list, stop + 1, Len(list))
<1>1. Len(list) \in Nat /\ stop \in Nat
  BY LenProperties
<1>2. done \subseteq 1..Len(list) /\ \A p \in done : p \in Nat /\ p < stop
  BY <1>1
<1> HIDE DEF done
<1>3. done \ away \in SUBSET (1..Len(list)) /\ away \in SUBSET (1..Len(list)) /\ away \subseteq done
  BY <1>2 DEF done
<1>4. /\ now \in Seq(Requests) /\ Within(now, list) /\ Thinned(now, list)
      /\ sent \in Seq(Requests) /\ Within(sent, list) /\ Thinned(sent, list)
  BY <1>3, PartThinned
<1>5. /\ rest \in Seq(Requests) /\ Within(rest, list) /\ Thinned(rest, list)
      /\ \A k \in 1..Len(rest) : stop + k \in 1..Len(list) /\ rest[k] = list[stop + k]
  BY RestThinned
<1>6. InOrder(now) /\ InOrder(sent) /\ InOrder(rest)
  BY <1>4, <1>5, ThinnedInOrder
<1>7. \A k \in 1..Len(now) : \E p \in done \ away : now[k] = list[p]
  BY <1>3, PartThinned
<1>8. \A k \in 1..Len(sent) : \E p \in away : sent[k] = list[p]
  BY <1>3, PartThinned
<1>9. (\A k \in 1..Len(now) : ~Shared(now[k])) /\ (\A k \in 1..Len(sent) : Shared(sent[k]))
  BY <1>7, <1>8 DEF done
<1> HIDE DEF now, sent, rest
<1>10. ASSUME NEW u, \A j \in 1..Len(u) : \E p \in done : u[j] = list[p]
       PROVE  Before(u, rest)
  <2> SUFFICES ASSUME NEW j \in 1..Len(u), NEW k \in 1..Len(rest), SameKind(u[j], rest[k])
               PROVE  u[j].n < rest[k].n
    BY DEF Before
  <2>1. PICK p \in done : u[j] = list[p]
    BY <1>10
  <2>2. Len(rest) \in Nat /\ k \in Nat
    BY <1>5, LenProperties
  <2>3. p < stop + k
    BY <1>1, <1>2, <2>2
  <2> QED
    BY <1>2, <1>5, <2>1, <2>3 DEF InOrder
<1>11. Before(now, rest) /\ Before(sent, rest)
  BY <1>3, <1>7, <1>8, <1>10
<1> QED
  BY <1>4, <1>5, <1>6, <1>9, <1>11 DEF now, sent, rest, done
\* The requests of a message are applied, shared or kept: those applied and those
\* shared are of different types, and come after all that was before them.
LEMMA QueueApplyMessage ==
  ASSUME ConnInv, QueueInv, NEW c \in Conns, msg[c] # None, NEW i \in Kinds,
         NEW m \in Readings(i, c), ApplyMessage(i, c, m), UNCHANGED socketClient
  PROVE  QueueInv'
<1> DEFINE list == requests[i] \o Stored(i, c, m)
           last == serial + Len(m.spots)
<1>1. /\ Accepted(i, m) /\ serial' = last
      /\ UNCHANGED <<isConnected, running, expired>>
  BY DEF ApplyMessage, timerVars
<1>2. /\ list \in Seq(Requests) /\ last \in Nat /\ serial <= last
      /\ \A k \in 1..Len(list) : list[k].itf = i /\ list[k].type \in TypesOf[i]
      /\ Numbered(list, last)
      /\ InOrder(list) /\ Before(applied, list) /\ Before(shared, list)
  BY <1>1, MessageQueued
<1>3. PICK stop \in Stops(list) :
        LET done == 1..(stop - 1)
            away == {k \in done : Shared(list[k])}
        IN  /\ applied' = applied \o Part(list, done \ away)
            /\ shared' = shared \o Part(list, away)
            /\ requests' = [requests EXCEPT ![i] = SubSeq(list, stop + 1, Len(list))]
  BY DEF ApplyMessage
<1> HIDE DEF list, last
<1>4. stop \in 1..(Len(list) + 1)
  BY <1>2, StopsInList
<1> DEFINE away == {k \in 1..(stop - 1) : Shared(list[k])}
           now == Part(list, (1..(stop - 1)) \ away)
           sent == Part(list, away)
           rest == SubSeq(list, stop + 1, Len(list))
<1>5. /\ applied' = applied \o now /\ shared' = shared \o sent
      /\ requests' = [requests EXCEPT ![i] = rest]
  BY <1>3
<1>6. /\ now \in Seq(Requests) /\ sent \in Seq(Requests) /\ rest \in Seq(Requests)
      /\ Within(now, list) /\ Within(sent, list) /\ Within(rest, list)
      /\ InOrder(now) /\ InOrder(sent) /\ InOrder(rest)
      /\ \A k \in 1..Len(now) : ~Shared(now[k])
      /\ \A k \in 1..Len(sent) : Shared(sent[k])
      /\ Before(now, rest) /\ Before(sent, rest)
  BY <1>2, <1>4, ListSplit
<1> HIDE DEF now, sent, rest
<1>7. /\ requests \in [Kinds -> Seq(Requests)]
      /\ shared \in Seq(Requests) /\ applied \in Seq(Requests) /\ serial \in Nat
      /\ \A j \in Kinds : requests[j] \in Seq(Requests)
  BY DEF QueueInv, QueuesTyped
<1>8. \A j \in Kinds : requests'[j] = IF j = i THEN rest ELSE requests[j]
  BY <1>5, <1>7
<1>9. applied' \in Seq(Requests) /\ shared' \in Seq(Requests)
  BY <1>5, <1>6, <1>7, ConcatProperties
<1>10. QueuesTyped'
  BY <1>1, <1>2, <1>5, <1>6, <1>9 DEF QueueInv, QueuesTyped
<1>11. /\ \A k \in 1..Len(now) : now[k].itf = i
       /\ \A k \in 1..Len(sent) : sent[k].itf = i
       /\ \A k \in 1..Len(rest) : rest[k].itf = i /\ rest[k].type \in TypesOf[i]
  <2>1. ASSUME NEW u, Within(u, list)
        PROVE  \A k \in 1..Len(u) : u[k].itf = i /\ u[k].type \in TypesOf[i]
    BY <1>2, <2>1 DEF Within
  <2> QED
    BY <1>6, <2>1
<1>12. RequestsKept'
  <2>1. \A j \in Kinds : \A k \in 1..Len(requests'[j]) :
          requests'[j][k].itf = j /\ requests'[j][k].type \in TypesOf[j]
    BY <1>8, <1>11 DEF QueueInv, RequestsKept
  <2>2. Numbered(applied, last) /\ Numbered(shared, last) /\ \A j \in Kinds : Numbered(requests[j], last)
    BY <1>2, <1>7, NumberedLater DEF QueueInv, RequestsKept
  <2>3. Numbered(now, last) /\ Numbered(sent, last) /\ Numbered(rest, last)
    BY <1>2, <1>6, WithinKept
  <2>4. /\ Numbered(applied \o now, last) /\ Numbered(shared \o sent, last)
        /\ \A j \in Kinds : Numbered(requests'[j], last)
    BY <1>6, <1>7, <1>8, <2>2, <2>3, JoinedNumbered
  <2>5. \A k \in 1..Len(shared \o sent) : Shared((shared \o sent)[k])
    <3> SUFFICES ASSUME NEW k \in 1..Len(shared \o sent) PROVE Shared((shared \o sent)[k])
      OBVIOUS
    <3>1. \/ k \in 1..Len(shared) /\ (shared \o sent)[k] = shared[k]
          \/ k - Len(shared) \in 1..Len(sent) /\ (shared \o sent)[k] = sent[k - Len(shared)]
      BY <1>6, <1>7, Joined
    <3> QED
      BY <1>6, <3>1 DEF QueueInv, RequestsKept
  <2> QED
    <3>1. /\ Numbered(applied', serial') /\ Numbered(shared', serial')
          /\ \A j \in Kinds : Numbered(requests'[j], serial')
      BY <1>1, <1>5, <2>4
    <3>2. \A k \in 1..Len(shared') : Shared(shared'[k])
      BY <1>5, <2>5
    <3> QED
      BY <2>1, <3>1, <3>2 DEF RequestsKept, Numbered, Shared
<1>13. /\ Before(applied, now) /\ Before(applied, sent) /\ Before(applied, rest)
       /\ Before(shared, now) /\ Before(shared, sent) /\ Before(shared, rest)
  BY <1>2, <1>6, <1>7, WithinKept
<1>14. Before(now, shared) /\ Before(now, sent)
  BY <1>6, UnlikeBefore DEF QueueInv, RequestsKept
<1>15. ASSUME NEW j \in Kinds, j # i
       PROVE  Before(now, requests[j]) /\ Before(sent, requests[j])
  <2>1. \A k \in 1..Len(requests[j]) : requests[j][k].itf # i
    BY <1>15 DEF QueueInv, RequestsKept
  <2> QED
    BY <1>11, <2>1, UnlikeBefore
<1>16. /\ InOrder(applied) /\ InOrder(shared) /\ Before(applied, shared)
       /\ \A j \in Kinds : /\ InOrder(requests[j])
                           /\ Before(applied, requests[j]) /\ Before(shared, requests[j])
  BY DEF QueueInv, QueuesInOrder
<1>17. InOrder(applied \o now) /\ InOrder(shared \o sent)
  BY <1>6, <1>7, <1>13, <1>16, JoinedInOrder
<1>18. Before(applied \o now, shared \o sent)
  <2>1. Before(applied \o now, shared) /\ Before(applied \o now, sent)
    BY <1>6, <1>7, <1>13, <1>14, <1>16, JoinedBefore
  <2>2. applied \o now \in Seq(Requests)
    BY <1>5, <1>9
  <2> QED
    BY <1>6, <1>7, <2>1, <2>2, JoinedBefore
<1>19. ASSUME NEW j \in Kinds
       PROVE  /\ InOrder(requests'[j])
              /\ Before(applied \o now, requests'[j]) /\ Before(shared \o sent, requests'[j])
  <2>1. CASE j = i
    <3>1. Before(applied \o now, rest) /\ Before(shared \o sent, rest)
      BY <1>6, <1>7, <1>13, JoinedBefore
    <3> QED
      BY <1>6, <1>8, <2>1, <3>1
  <2>2. CASE j # i
    <3>1. Before(applied \o now, requests[j]) /\ Before(shared \o sent, requests[j])
      BY <1>6, <1>7, <1>15, <1>16, <2>2, JoinedBefore
    <3> QED
      BY <1>8, <1>16, <2>2, <3>1
  <2> QED
    BY <2>1, <2>2
<1>20. QueuesInOrder'
  <2>1. InOrder(applied') /\ InOrder(shared') /\ Before(applied', shared')
    BY <1>5, <1>17, <1>18
  <2>2. \A j \in Kinds : /\ InOrder(requests'[j])
                         /\ Before(applied', requests'[j]) /\ Before(shared', requests'[j])
    BY <1>5, <1>19
  <2> QED
    BY <2>1, <2>2, OrderOfNext
<1> QED
  BY <1>10, <1>12, <1>20 DEF QueueInv

LEMMA QueueNetSocket ==
  ASSUME ConnInv, QueueInv, NEW c \in Conns, OnNetSocket(c)
  PROVE  QueueInv'
<1>1. UNCHANGED socketClient
  BY DEF OnNetSocket
<1>2. msg[c] # None
  <2>1. Net(c) \in batch
    BY DEF OnNetSocket, Processed, Net
  <2> QED
    BY <2>1 DEF ConnInv, TableOpen, WasRead
<1>3. CASE UNCHANGED <<isConnected, requests, timerVars, shared, applied, serial>>
  BY <1>1, <1>3, QueueUnchanged DEF listVars, itfVars
<1>4. ASSUME NEW i \in Kinds, NEW m \in Readings(i, c),
             \/ Refused(i, m)
             \/ i = "pep" /\ PepMessage(c, m)
             \/ i # "pep" /\ ApplyMessage(i, c, m)
      PROVE  QueueInv'
  BY <1>1, <1>2, <1>4, QueueRefused, QueuePepMessage, QueueApplyMessage
<1> QED
  BY <1>3, <1>4 DEF OnNetSocket, Matching

LEMMA QueueTcpListen ==
  ASSUME ConnInv, QueueInv, NEW c \in Conns, OnTcpListen(c)
  PROVE  QueueInv'
<1>1. UNCHANGED listVars /\ UNCHANGED timerVars
  BY DEF OnTcpListen, listVars
<1>2. fdOf[c] \in Fds \cup {0}
  BY DEF ConnInv, ConnTyped
<1>3. QueuesTyped'
  BY <1>1, <1>2 DEF OnTcpListen, QueueInv, QueuesTyped, listVars, timerVars
<1> QED
  BY <1>1, <1>3, ListsUnchanged DEF QueueInv

\* The timer of a spot applies all that waits for the PEP.
LEMMA QueuePepTimer ==
  ASSUME ConnInv, QueueInv, NEW s \in Spots, OnPepTimer(s)
  PROVE  QueueInv'
<1> DEFINE list == requests["pep"]
<1>1. /\ applied' = applied \o list /\ requests' = [requests EXCEPT !["pep"] = <<>>]
      /\ UNCHANGED <<itfVars, timerVars, shared, serial>>
  BY DEF OnPepTimer
<1>2. "pep" \in Kinds
  BY DEF Kinds
<1>3. /\ requests \in [Kinds -> Seq(Requests)] /\ list \in Seq(Requests)
      /\ shared \in Seq(Requests) /\ applied \in Seq(Requests)
  BY <1>2 DEF QueueInv, QueuesTyped
<1>4. /\ \A k \in 1..Len(list) : list[k].itf = "pep" /\ ~Shared(list[k])
      /\ Numbered(list, serial) /\ Numbered(applied, serial)
      /\ InOrder(list) /\ Before(applied, list) /\ InOrder(applied) /\ InOrder(shared)
      /\ Before(applied, shared)
  BY <1>2 DEF QueueInv, QueuesInOrder, RequestsKept, Shared, TypesOf
<1> HIDE DEF list
<1>5. \A i \in Kinds : requests'[i] = IF i = "pep" THEN <<>> ELSE requests[i]
  BY <1>1, <1>2, <1>3
<1>6. Len(<<>>) = 0 /\ \A k : k \notin 1..Len(<<>>)
  OBVIOUS
<1>7. QueuesTyped'
  <2>1. applied' \in Seq(Requests)
    BY <1>1, <1>3, ConcatProperties
  <2>2. requests' \in [Kinds -> Seq(Requests)]
    <3>1. <<>> \in Seq(Requests)
      BY EmptySeq
    <3> QED
      BY <1>1, <1>3, <3>1
  <2> QED
    BY <1>1, <2>1, <2>2 DEF QueueInv, QueuesTyped, itfVars, timerVars
<1>8. RequestsKept'
  <2>1. Numbered(applied \o list, serial)
    BY <1>3, <1>4, JoinedNumbered
  <2>2. \A i \in Kinds : Numbered(requests'[i], serial) /\ \A k \in 1..Len(requests'[i]) :
          requests'[i][k].itf = i /\ requests'[i][k].type \in TypesOf[i]
    BY <1>5, <1>6 DEF QueueInv, RequestsKept, Numbered
  <2> QED
    BY <1>1, <2>1, <2>2 DEF QueueInv, RequestsKept, Numbered, Shared
<1>9. Before(list, shared)
  BY <1>4, UnlikeBefore DEF QueueInv, RequestsKept
<1>10. InOrder(applied \o list) /\ Before(applied \o list, shared)
  BY <1>3, <1>4, <1>9, JoinedInOrder, JoinedBefore
<1>11. ASSUME NEW i \in Kinds
       PROVE  /\ InOrder(requests'[i])
              /\ Before(applied \o list, requests'[i]) /\ Before(shared, requests'[i])
  <2>1. CASE i = "pep"
    BY <1>5, <1>6, <2>1 DEF InOrder, Before
  <2>2. CASE i # "pep"
    <3>1. /\ requests[i] \in Seq(Requests) /\ InOrder(requests[i])
          /\ Before(applied, requests[i]) /\ Before(shared, requests[i])
          /\ \A k \in 1..Len(requests[i]) : requests[i][k].itf # "pep"
      BY <1>3, <2>2 DEF QueueInv, QueuesInOrder, RequestsKept
    <3>2. Before(list, requests[i])
      BY <1>4, <3>1, UnlikeBefore
    <3>3. Before(applied \o list, requests[i])
      BY <1>3, <3>1, <3>2, JoinedBefore
    <3> QED
      BY <1>5, <2>2, <3>1, <3>3
  <2> QED
    BY <2>1, <2>2
<1>12. QueuesInOrder'
  <2>1. InOrder(applied') /\ InOrder(shared') /\ Before(applied', shared')
    BY <1>1, <1>4, <1>10
  <2>2. \A i \in Kinds : /\ InOrder(requests'[i])
                         /\ Before(applied', requests'[i]) /\ Before(shared', requests'[i])
    BY <1>1, <1>11
  <2> QED
    BY <2>1, <2>2, OrderOfNext
<1> QED
  BY <1>7, <1>8, <1>12 DEF QueueInv

\* The Upward channel applies the oldest of the requests shared with it.
LEMMA QueueUpward ==
  ASSUME QueueInv, UpwardApplies
  PROVE  QueueInv'
<1> DEFINE h == Head(shared)
           left == Tail(shared)
<1>1. /\ shared # <<>> /\ shared' = left /\ (applied' = Append(applied, h) \/ applied' = applied)
      /\ UNCHANGED <<itfVars, timerVars, requests, serial>>
  BY DEF UpwardApplies
<1>2. /\ shared \in Seq(Requests) /\ applied \in Seq(Requests) /\ serial \in Nat
      /\ \A i \in Kinds : requests[i] \in Seq(Requests)
  BY DEF QueueInv, QueuesTyped
<1>3. /\ h \in Requests /\ h = shared[1] /\ left \in Seq(Requests) /\ Len(left) = Len(shared) - 1
      /\ \A k \in 1..Len(left) : left[k] = shared[k + 1]
      /\ Len(shared) \in Nat /\ Len(shared) > 0
  BY <1>1, <1>2, HeadTailProperties, LenProperties, EmptySeq
<1> HIDE DEF left
<1>4. /\ InOrder(applied) /\ InOrder(shared) /\ Before(applied, shared)
      /\ Numbered(applied, serial) /\ Numbered(shared, serial)
      /\ \A i \in Kinds : Before(applied, requests[i]) /\ Before(shared, requests[i])
  BY DEF QueueInv, QueuesInOrder, RequestsKept
<1>5. \A k \in 1..Len(left) : k \in Nat /\ k + 1 \in 1..Len(shared) /\ left[k] = shared[k + 1] /\ 1 < k + 1
  BY <1>3
<1>6. Within(left, shared) /\ Thinned(left, shared)
  <2>1. Within(left, shared)
    BY <1>5 DEF Within
  <2>2. \A j, k \in 1..Len(left) : j < k => j + 1 < k + 1
    BY <1>5
  <2>3. Thinned(left, shared)
    BY <1>5, <2>2 DEF Thinned
  <2> QED
    BY <2>1, <2>3
<1> DEFINE one == <<h>>
<1>7. /\ one \in Seq(Requests) /\ Len(one) = 1 /\ one[1] = h
      /\ Append(applied, h) = applied \o one
  <2>1. Append(applied, h) = applied \o <<h>>
    BY <1>2, <1>3
  <2> QED
    BY <1>3, <2>1
<1> HIDE DEF h, one
<1>8. Within(one, shared)
  BY <1>3, <1>7 DEF Within
<1>9. InOrder(one)
  BY <1>7 DEF InOrder
<1>10. Before(one, left)
  <2>1. 1 \in 1..Len(shared)
    BY <1>3
  <2> QED
    BY <1>3, <1>4, <1>5, <1>7, <2>1 DEF InOrder, Before
<1>11. /\ Numbered(one, serial) /\ Numbered(left, serial)
       /\ Before(applied, one) /\ Before(applied, left) /\ InOrder(left)
       /\ \A i \in Kinds : Before(one, requests[i]) /\ Before(left, requests[i])
  BY <1>2, <1>3, <1>4, <1>6, <1>7, <1>8, WithinKept, ThinnedInOrder
<1> DEFINE all == applied \o one
<1>12. /\ all \in Seq(Requests) /\ InOrder(all) /\ Numbered(all, serial) /\ Before(all, left)
       /\ \A i \in Kinds : Before(all, requests[i])
  BY <1>2, <1>3, <1>4, <1>7, <1>9, <1>10, <1>11, ConcatProperties, JoinedInOrder, JoinedNumbered, JoinedBefore
<1>13. /\ applied' \in Seq(Requests) /\ InOrder(applied') /\ Numbered(applied', serial)
       /\ Before(applied', left) /\ \A i \in Kinds : Before(applied', requests[i])
  BY <1>1, <1>2, <1>4, <1>7, <1>11, <1>12
<1>14. QueuesTyped'
  BY <1>1, <1>3, <1>13 DEF QueueInv, QueuesTyped, itfVars, timerVars
<1>15. RequestsKept'
  <2>1. \A k \in 1..Len(left) : Shared(left[k])
    BY <1>5 DEF QueueInv, RequestsKept
  <2> QED
    BY <1>1, <1>11, <1>13, <2>1 DEF QueueInv, RequestsKept, Numbered, Shared
<1>16. QueuesInOrder'
  BY <1>1, <1>11, <1>13 DEF QueueInv, QueuesInOrder, InOrder, Before, SameKind
<1> QED
  BY <1>14, <1>15, <1>16 DEF QueueInv
LEMMA QueueStep ==
  ASSUME ConnInv, QueueInv, [Next]_vars
  PROVE  QueueInv'
<1>1. CASE UNCHANGED vars
  BY <1>1, QueueUnchanged DEF vars, listVars, itfVars, timerVars
<1>2. CASE UpwardApplies
  BY <1>2, QueueUpward
<1>3. ASSUME NEW s \in Spots, TimerExpires(s) PROVE QueueInv'
  <2>1. UNCHANGED listVars /\ UNCHANGED itfVars
    BY <1>3 DEF TimerExpires, listVars
  <2>2. QueuesTyped'
    BY <1>3, <2>1 DEF TimerExpires, QueueInv, QueuesTyped, listVars, itfVars
  <2> QED
    BY <2>1, <2>2, ListsUnchanged DEF QueueInv
<1>4. ASSUME SelectAndHandle PROVE QueueInv'
  <2>1. UNCHANGED listVars /\ UNCHANGED itfVars
    BY <1>4 DEF SelectAndHandle, listVars
  <2>2. QueuesTyped'
    BY <1>4, <2>1 DEF SelectAndHandle, QueueInv, QueuesTyped, listVars, itfVars
  <2> QED
    BY <2>1, <2>2, ListsUnchanged DEF QueueInv
<1>5. ASSUME UpdateEvents PROVE QueueInv'
  BY <1>5, QueueUnchanged DEF UpdateEvents, listVars
<1>6. CASE Loop
  BY <1>4, <1>5, <1>6, QueueNetSocket, QueueTcpListen, QueuePepTimer DEF Loop
<1>7. CASE Clients
  BY <1>7, QueueUnchanged DEF Clients, Connect, Send, HangUp, listVars
<1> QED
  BY <1>1, <1>2, <1>3, <1>6, <1>7 DEF Next

-----------------------------------------------------------------------------
(* The theorems. *)

LEMMA InvInit ==
  ASSUME Init
  PROVE  ConnInv /\ QueueInv
<1>1. ConnInv
  <2>1. \A c \in Conns : conn[c] = "idle" /\ fdOf[c] = 0 /\ msg[c] = None
    BY DEF Init
  <2>2. ConnTyped
    BY DEF Init, ConnTyped
  <2> QED
    BY <2>1, <2>2 DEF Init, ConnInv, ClientsKept, FdsDistinct, TableOpen, Open
<1>2. QueueInv
  <2>1. <<>> \in Seq(Requests) /\ Len(<<>>) = 0 /\ \A k : k \notin 1..Len(<<>>)
    BY EmptySeq
  <2>2. \A i \in Kinds : requests[i] = <<>>
    BY DEF Init
  <2>3. QueuesTyped
    BY <2>1 DEF Init, QueuesTyped
  <2>4. RequestsKept
    BY <2>1, <2>2 DEF Init, RequestsKept, Numbered
  <2>5. QueuesInOrder
    BY <2>1, <2>2 DEF Init, QueuesInOrder, InOrder, Before
  <2> QED
    BY <2>3, <2>4, <2>5 DEF QueueInv
<1> QED
  BY <1>1, <1>2

LEMMA InvAlways == Spec => [](ConnInv /\ QueueInv)
<1>1. Init => ConnInv /\ QueueInv
  BY InvInit
<1>2. (ConnInv /\ QueueInv) /\ [Next]_vars => (ConnInv /\ QueueInv)'
  BY ConnStep, QueueStep
<1> QED
  BY <1>1, <1>2, PTL DEF Spec

\* What the NCC notes for removal, and what is in its table, is open; its lists
\* hold the requests of their own interface.
THEOREM TypeCorrect == Spec => []TypeOK
<1>1. ConnInv /\ QueueInv => TypeOK
  <2> SUFFICES ASSUME ConnInv, QueueInv PROVE TypeOK
    OBVIOUS
  <2>1. \A c \in Conns : conn[c] \in {"idle", "backlog"} <=> fdOf[c] = 0
    BY DEF ConnInv, ClientsKept
  <2>2. events \cup newEvents \subseteq {c \in Conns : conn[c] = "accepted"}
    BY DEF ConnInv, TableOpen, Open
  <2>3. removed \subseteq Fds
    <3> SUFFICES ASSUME NEW f \in removed PROVE f \in Fds
      OBVIOUS
    <3>1. PICK c \in events : fdOf[c] = f
      BY DEF ConnInv, TableOpen
    <3>2. c \in Conns /\ conn[c] = "accepted"
      BY <2>2
    <3> QED
      BY <2>1, <3>1, <3>2 DEF ConnInv, ConnTyped
  <2>4. unread \subseteq {c \in Conns : msg[c] # None}
    BY DEF ConnInv, ClientsKept
  <2>5. pc \in {"update", "select", "process"} /\ (pc = "process" <=> batch # {})
    BY DEF ConnInv, ConnTyped, TableOpen
  <2>6. /\ \A i \in Kinds : socketClient[i] \in Fds \cup {0} /\ isConnected[i] \in BOOLEAN
        /\ running \subseteq Spots /\ expired \subseteq Spots
    BY DEF QueueInv, QueuesTyped
  <2>7. \A i \in Kinds : \A k \in 1..Len(requests[i]) : requests[i][k].itf = i
    BY DEF QueueInv, RequestsKept
  <2> QED
    BY <2>1, <2>2, <2>3, <2>4, <2>5, <2>6, <2>7 DEF TypeOK
<1> QED
  BY <1>1, InvAlways, PTL

\* No connection is closed by the NCC before its message is read: what is noted for
\* removal is the descriptor of a connection that is open and was read, and no
\* other open connection has it.
THEOREM ReadBeforeClosed == Spec => []ClosedWasRead
<1>1. ConnInv /\ TypeOK => ClosedWasRead
  BY DEF ConnInv, ClientsKept, WasRead, ClosedWasRead
<1> QED
  BY <1>1, InvAlways, TypeCorrect, PTL

\* Requests of one interface and one type are applied in the order in which they
\* were stored, each once at most.
THEOREM RequestsInOrder == Spec => []AppliedInOrder
<1>1. QueueInv => AppliedInOrder
  BY DEF QueueInv, QueuesInOrder, InOrder, SameKind, AppliedInOrder
<1> QED
  BY <1>1, InvAlways, PTL
=============================================================================
