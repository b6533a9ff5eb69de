----------------------- MODULE PhysicalChannel_proofs -----------------------
(***************************************************************************)
(* The fifo of the physical layer is sorted and loses nothing, for every   *)
(* size, delay and clock; the search for a place in it is what the         *)
(* invariant is about.  And the delay read from a file stays within it.    *)
(***************************************************************************)
EXTENDS PhysicalChannel, SequenceTheorems, TLAPS

USE DEF plugin, search

LEMMA MsInRange ==
  ASSUME Configured, NEW n \in Nat
  PROVE  Ms(n) \in Milliseconds
BY DEF Configured, Ms, Milliseconds

LEMMA MsKeepsShortTimes ==
  ASSUME Configured, NEW n \in Nat, n < TickSpan
  PROVE  Ms(n) = n
BY DEF Configured, Ms

LEMMA TickOutInRange ==
  ASSUME Configured, NEW e \in Elements
  PROVE  TickOut(e) \in Milliseconds /\ TickOut(e) \in Nat
BY MsInRange DEF Configured, TickOut, Elements, Milliseconds

\* The sequence t is s with e at the place after the first p.
HasInserted(t, s, p, e) ==
  /\ Len(t) = Len(s) + 1
  /\ t[p + 1] = e
  /\ \A i \in 1..p : t[i] = s[i]
  /\ \A i \in (p + 2)..(Len(s) + 1) : t[i] = s[i - 1]

LEMMA Inserted ==
  ASSUME NEW S, NEW s \in Seq(S), NEW e \in S, NEW p \in 0..Len(s)
  PROVE  /\ InsertAt(s, p + 1, e) \in Seq(S)
         /\ HasInserted(InsertAt(s, p + 1, e), s, p, e)
<1> DEFINE a == SubSeq(s, 1, p)
           b == SubSeq(s, p + 1, Len(s))
<1>0. Len(s) \in Nat /\ \A i \in 1..Len(s) : s[i] \in S
  BY LenProperties, ElementOfSeq
<1>1. a \in Seq(S) /\ Len(a) = p /\ \A i \in 1..p : a[i] = s[i]
  BY <1>0, SubSeqProperties
<1>2. b \in Seq(S) /\ Len(b) = Len(s) - p /\ \A i \in 1..(Len(s) - p) : b[i] = s[p + i]
  BY <1>0, SubSeqProperties
<1>3. InsertAt(s, p + 1, e) = (a \o <<e>>) \o b
  <2>1. (p + 1) - 1 = p
    OBVIOUS
  <2> QED
    BY <2>1 DEF InsertAt
<1> HIDE DEF a, b
<1>4. /\ a \o <<e>> \in Seq(S) /\ Len(a \o <<e>>) = p + 1
      /\ (a \o <<e>>)[p + 1] = e
      /\ \A i \in 1..p : (a \o <<e>>)[i] = s[i]
  BY <1>0, <1>1
<1> DEFINE c == a \o <<e>>
<1> HIDE DEF c
<1>5. c \in Seq(S) /\ Len(c) = p + 1 /\ c[p + 1] = e /\ \A i \in 1..p : c[i] = s[i]
  BY <1>4 DEF c
<1>6. InsertAt(s, p + 1, e) = c \o b
  BY <1>3 DEF c
<1>7. /\ c \o b \in Seq(S) /\ Len(c \o b) = Len(s) + 1
      /\ \A i \in 1..(p + 1) : (c \o b)[i] = c[i]
      /\ \A i \in (p + 2)..(Len(s) + 1) : (c \o b)[i] = b[i - (p + 1)]
  BY <1>0, <1>2, <1>5, ConcatProperties
<1>8. \A i \in (p + 2)..(Len(s) + 1) : (c \o b)[i] = s[i - 1]
  <2> TAKE i \in (p + 2)..(Len(s) + 1)
  <2>1. i - (p + 1) \in 1..(Len(s) - p) /\ p + (i - (p + 1)) = i - 1
    BY <1>0
  <2> QED
    BY <1>2, <1>7, <2>1
<1>9. (c \o b)[p + 1] = e /\ \A i \in 1..p : (c \o b)[i] = s[i]
  <2>1. p + 1 \in 1..(p + 1) /\ \A i \in 1..p : i \in 1..(p + 1)
    BY <1>0
  <2> QED
    BY <1>5, <1>7, <2>1
<1> QED
  BY <1>6, <1>7, <1>8, <1>9 DEF HasInserted

\* While the thread looks for a place: there is one, the frames before start leave
\* no later than the new one, and those after end leave after it.
SearchBrackets ==
  pc = "search" =>
    /\ Len(queue) < MaxSize
    /\ IF Len(queue) = 0 THEN start = 0 /\ end = -1
       ELSE start <= end /\ end < Len(queue)
    /\ \A i \in 1..Len(queue) :
         /\ i <= start => TickOut(queue[i]) <= TickOut(elem)
         /\ i > end + 1 => TickOut(queue[i]) > TickOut(elem)

LastInHand == pc \in {"delay", "search"} => elem.no = arrived /\ arrived > 0

NumbersDistinct ==
  \A i, j \in 1..Len(queue) : i # j => queue[i].no # queue[j].no

PhysicalInv ==
  /\ TypeOK
  /\ NumbersDistinct
  /\ LastInHand
  /\ SearchBrackets
  /\ QueueSorted
  /\ NothingLost

\* The frames of the fifo, and their times.
LEMMA QueueElements ==
  ASSUME Configured, TypeOK
  PROVE  /\ Len(queue) \in Nat
         /\ \A i \in 1..Len(queue) :
              queue[i] \in Elements /\ queue[i].no \in Nat /\ TickOut(queue[i]) \in Nat
         /\ elem.no \in Nat /\ TickOut(elem) \in Nat
<1>1. queue \in Seq(Elements) /\ elem \in Elements
  BY DEF TypeOK
<1>2. Len(queue) \in Nat /\ \A i \in 1..Len(queue) : queue[i] \in Elements
  BY <1>1, LenProperties, ElementOfSeq
<1>3. \A e \in Elements : e.no \in Nat /\ TickOut(e) \in Nat
  BY TickOutInRange DEF Elements
<1> QED
  BY <1>1, <1>2, <1>3

\* The search ends at the place of the new frame: it never returns -1.
LEMMA PositionSplits ==
  ASSUME Configured, PhysicalInv, pc = "search", end <= start
  PROVE  /\ Position \in 0..Len(queue)
         /\ \A i \in 1..Position : TickOut(queue[i]) <= TickOut(elem)
         /\ \A i \in (Position + 1)..Len(queue) : TickOut(queue[i]) > TickOut(elem)
<1> USE DEF PhysicalInv
<1>0. start \in Nat /\ end \in Int
  BY DEF TypeOK
<1>1. CASE Len(queue) = 0
  <2>1. Position = 0
    BY <1>1 DEF SearchBrackets, Position
  <2> QED
    BY <1>1, <2>1
<1>2. CASE Len(queue) # 0
  <2>1. end = start /\ start + 1 \in 1..Len(queue)
    BY <1>0, <1>2, QueueElements DEF SearchBrackets
  <2>2. /\ \A i \in 1..start : TickOut(queue[i]) <= TickOut(elem)
        /\ \A i \in (start + 2)..Len(queue) : TickOut(queue[i]) > TickOut(elem)
    BY <1>0, <2>1, QueueElements DEF SearchBrackets
  <2>3. CASE TickOut(queue[start + 1]) > TickOut(elem)
    <3>1. Position = start
      BY <2>1, <2>3 DEF Position
    <3>2. \A i \in (start + 1)..Len(queue) : i = start + 1 \/ i \in (start + 2)..Len(queue)
      BY <1>0, QueueElements
    <3> QED
      BY <1>0, <2>1, <2>2, <2>3, <3>1, <3>2, QueueElements
  <2>4. CASE ~ (TickOut(queue[start + 1]) > TickOut(elem))
    <3>1. Position = start + 1
      BY <2>1, <2>4 DEF Position
    <3>2. TickOut(queue[start + 1]) <= TickOut(elem)
      BY <2>1, <2>4, QueueElements
    <3>3. \A i \in 1..(start + 1) : i = start + 1 \/ i \in 1..start
      BY <1>0
    <3> QED
      BY <1>0, <2>1, <2>2, <3>1, <3>2, <3>3, QueueElements
  <2> QED
    BY <2>3, <2>4
<1> QED
  BY <1>1, <1>2

\* What Insert makes of the queue.
LEMMA InsertedInPlace ==
  ASSUME Configured, PhysicalInv, Insert
  PROVE  /\ Position \in 0..Len(queue)
         /\ queue' \in Seq(Elements)
         /\ HasInserted(queue', queue, Position, elem)
<1>1. Position \in 0..Len(queue)
  BY PositionSplits DEF Insert
<1>2. queue' = InsertAt(queue, Position + 1, elem)
  BY <1>1, QueueElements DEF Insert, PhysicalInv
<1>3. queue \in Seq(Elements) /\ elem \in Elements
  BY DEF PhysicalInv, TypeOK
<1> QED
  BY <1>1, <1>2, <1>3, Inserted

\* The interpolation stays between the two entries, rounded as it may be.
LEMMA QuotientBounded ==
  ASSUME NEW n \in Nat, NEW m \in Nat, NEW d \in Nat \ {0}, n <= d
  PROVE  (n * m) \div d \in 0..m
<1> DEFINE k == n * m
           q == k \div d
<1>1. k \in Nat /\ k <= d * m
  <2>1. \E r \in Nat : d = n + r
    <3>1. d - n \in Nat /\ d = n + (d - n)
      OBVIOUS
    <3> QED
      BY <3>1
  <2>2. PICK r \in Nat : d = n + r
    BY <2>1
  <2>3. d * m = n * m + r * m /\ r * m \in Nat /\ n * m \in Nat
    BY <2>2
  <2> QED
    BY <2>3
<1> HIDE DEF k
<1>2. q \in Nat /\ d * q <= k
  BY <1>1
<1> HIDE DEF q
<1>3. q <= m
  <2> SUFFICES ASSUME q >= m + 1 PROVE FALSE
    BY <1>2
  <2>1. d * q >= d * (m + 1)
    <3>1. PICK r \in Nat : q = m + 1 + r
      <4>1. q - (m + 1) \in Nat /\ q = m + 1 + (q - (m + 1))
        BY <1>2
      <4> QED
        BY <4>1
    <3>2. d * q = d * (m + 1) + d * r /\ d * r \in Nat /\ d * (m + 1) \in Nat
      BY <3>1
    <3> QED
      BY <3>2
  <2>2. d * (m + 1) = d * m + d /\ d * m \in Nat
    OBVIOUS
  <2> QED
    BY <1>1, <1>2, <2>1, <2>2
<1> QED
  BY <1>2, <1>3 DEF q, k

LEMMA TruncatedBounded ==
  ASSUME NEW n \in Nat, NEW m \in Nat, NEW d \in Nat \ {0}, n <= d,
         NEW x \in Truncated(n, m, d)
  PROVE  x \in 0..m
<1> DEFINE q == (n * m) \div d
<1>1. q \in 0..m
  BY QuotientBounded
<1>2. x \in {q, q - 1} \cap Nat \/ x = q
  BY DEF Truncated
<1> HIDE DEF q
<1> QED
  BY <1>1, <1>2

LEMMA InterpolatedBounded ==
  ASSUME Configured, FileDelay, NEW t \in Nat,
         NEW old \in DOMAIN Scenario, NEW new \in DOMAIN Scenario, old < t, t <= new,
         NEW x \in Interpolated(t, old, new)
  PROVE  x \in Nat /\ (x <= Scenario[old] \/ x <= Scenario[new])
<1> DEFINE a == Scenario[old]
           b == Scenario[new]
<1>1. old \in Nat /\ new \in Nat /\ a \in Nat /\ b \in Nat
  BY DEF Configured, Milliseconds
<1>2. t - old \in Nat /\ new - old \in Nat \ {0} /\ t - old <= new - old
  BY <1>1
<1>3. CASE b >= a
  <2>1. PICK y \in Truncated(t - old, b - a, new - old) : x = a + y
    BY <1>3 DEF Interpolated
  <2>2. b - a \in Nat
    BY <1>1, <1>3
  <2>3. y \in 0..(b - a)
    BY <1>2, <2>1, <2>2, TruncatedBounded
  <2> HIDE DEF a, b
  <2>4. x \in Nat /\ x <= b
    BY <1>1, <2>1, <2>3
  <2> QED
    BY <2>4 DEF b
<1>4. CASE ~ (b >= a)
  <2>1. PICK y \in Truncated(t - old, a - b, new - old) : x = a - y
    BY <1>4 DEF Interpolated
  <2>2. a - b \in Nat
    BY <1>1, <1>4
  <2>3. y \in 0..(a - b)
    BY <1>2, <2>1, <2>2, TruncatedBounded
  <2> HIDE DEF a, b
  <2>4. x \in Nat /\ x <= a
    BY <1>1, <2>1, <2>2, <2>3
  <2> QED
    BY <2>4 DEF a
<1> QED
  BY <1>3, <1>4

\* The delay read from a file that is played again is bounded by an entry of it.
LEMMA UpdatedDelay ==
  ASSUME Configured, TypeOK, UpdateDelay
  PROVE  /\ step' \in Nat
         /\ delay' \in Milliseconds
         /\ Loop => \E u \in DOMAIN Scenario : delay' <= Scenario[u]
<1>0. /\ FileDelay /\ step \in Nat /\ TickSpan \in Nat \ {0}
      /\ \A u \in DOMAIN Scenario : u \in Nat /\ Scenario[u] \in Milliseconds
  BY DEF TypeOK, UpdateDelay, Configured
<1>1. CASE FollowScenario
  <2>1. PICK new \in Least(Later(step + 1)) :
          \/ \E old \in Greatest(Earlier(new)) :
               delay' \in Interpolated(step + 1, old, new)
          \/ Earlier(new) = {} /\ delay' = Scenario[new]
    BY <1>1 DEF FollowScenario
  <2>2. new \in DOMAIN Scenario /\ step + 1 <= new
    BY <1>0, <2>1 DEF Least, Later
  <2>3. CASE delay' = Scenario[new]
    BY <1>0, <1>1, <2>2, <2>3 DEF FollowScenario, Milliseconds
  <2>4. CASE \E old \in Greatest(Earlier(new)) :
               delay' \in Interpolated(step + 1, old, new)
    <3>1. PICK old \in Greatest(Earlier(new)) :
            delay' \in Interpolated(step + 1, old, new)
      BY <2>4
    <3>2. old \in DOMAIN Scenario /\ old < new
      BY <3>1 DEF Greatest, Earlier
    <3>3. old < step + 1
      <4>1. CASE old >= step + 1
        <5>1. old \in Later(step + 1)
          BY <3>2, <4>1 DEF Later
        <5>2. new <= old
          BY <2>1, <5>1 DEF Least
        <5> QED
          BY <1>0, <2>2, <3>2, <5>2
      <4> QED
        BY <1>0, <3>2, <4>1
    <3>4. delay' \in Nat /\ (delay' <= Scenario[old] \/ delay' <= Scenario[new])
      BY <1>0, <2>2, <3>1, <3>2, <3>3, InterpolatedBounded
    <3> QED
      BY <1>0, <1>1, <2>2, <3>2, <3>4 DEF FollowScenario, Milliseconds
  <2> QED
    BY <2>1, <2>3, <2>4
<1>2. CASE RestartScenario
  <2>1. PICK first \in Least(DOMAIN Scenario) : delay' = Scenario[first]
    BY <1>2 DEF RestartScenario
  <2>2. first \in DOMAIN Scenario
    BY <2>1 DEF Least
  <2> QED
    BY <1>0, <1>2, <2>1, <2>2 DEF RestartScenario, Milliseconds
<1>3. CASE LeaveScenario
  BY <1>0, <1>3 DEF LeaveScenario, Milliseconds
<1> QED
  BY <1>1, <1>2, <1>3 DEF UpdateDelay

LEMMA TypeOKStep ==
  ASSUME Configured, PhysicalInv, [Next]_vars
  PROVE  TypeOK'
<1> USE DEF PhysicalInv
<1>0. /\ TypeOK /\ TickSpan \in Nat \ {0} /\ Len(queue) \in Nat
      /\ queue \in Seq(Elements)
  BY QueueElements DEF Configured, TypeOK
<1>1. CASE Arrive
  BY <1>0, <1>1 DEF Arrive, TypeOK, Elements
<1>2. CASE Refuse
  BY <1>0, <1>2, QueueElements DEF Refuse, TypeOK
<1>3. CASE StartSearch
  <2>0. delay \in Nat /\ elem \in Elements
    BY <1>0 DEF TypeOK, Milliseconds
  <2>1. elem' \in Elements
    BY <1>3, <2>0 DEF StartSearch, Elements
  <2> QED
    BY <1>0, <1>3, <2>1 DEF StartSearch, TypeOK
<1>4. CASE Halve
  <2>1. (end + start) \div 2 \in Nat
    BY <1>0, <1>4 DEF Halve, TypeOK
  <2> QED
    BY <1>0, <1>4, <2>1 DEF Halve, TypeOK
<1>5. CASE Insert
  <2>1. queue' \in Seq(Elements) /\ Len(queue') = Len(queue) + 1
    BY <1>5, InsertedInPlace DEF HasInserted
  <2>2. Len(queue) < MaxSize
    BY <1>5 DEF Insert, SearchBrackets
  <2> QED
    BY <1>0, <1>5, <2>1, <2>2 DEF Insert, TypeOK, Configured
<1>6. CASE FifoTimer
  BY <1>0, <1>6, MsInRange DEF FifoTimer, TypeOK
<1>7. CASE Forward
  <2>1. queue # <<>>
    BY <1>0, <1>7 DEF Forward, HeadIsReady
  <2>2. queue' \in Seq(Elements) /\ Len(queue') = Len(queue) - 1 /\ Head(queue) \in Elements
    BY <1>0, <1>7, <2>1, HeadTailProperties DEF Forward
  <2>3. Head(queue).no \in Nat
    BY <2>2 DEF Elements
  <2>4. forwarded' \subseteq Nat
    BY <1>0, <1>7, <2>3 DEF Forward, TypeOK
  <2>5. Len(queue') <= MaxSize
    BY <1>0, <2>2 DEF TypeOK, Configured
  <2> QED
    BY <1>0, <1>7, <2>2, <2>4, <2>5 DEF Forward, TypeOK
<1>8. CASE ForwardDone
  BY <1>0, <1>8 DEF ForwardDone, TypeOK
<1>9. CASE Tick
  BY <1>0, <1>9 DEF Tick, TypeOK
<1>10. CASE UpdateDelay
  BY <1>0, <1>10, UpdatedDelay DEF UpdateDelay, TypeOK
<1>11. CASE UNCHANGED vars
  BY <1>0, <1>11 DEF vars, TypeOK
<1> QED
  BY <1>1, <1>2, <1>3, <1>4, <1>5, <1>6, <1>7, <1>8, <1>9, <1>10, <1>11 DEF Next

\* Times never decrease along the fifo.
LEMMA TimesAscend ==
  ASSUME Configured, TypeOK, QueueSorted
  PROVE  \A i, j \in 1..Len(queue) : i <= j => TickOut(queue[i]) <= TickOut(queue[j])
<1> TAKE i, j \in 1..Len(queue)
<1> HAVE i <= j
<1>1. TickOut(queue[i]) \in Nat /\ TickOut(queue[j]) \in Nat /\ Len(queue) \in Nat
  BY QueueElements
<1>2. CASE i = j
  BY <1>1, <1>2
<1>3. CASE i # j
  <2>1. i < j
    BY <1>3
  <2>2. Before(queue[i], queue[j])
    BY <2>1 DEF QueueSorted
  <2> QED
    BY <1>1, <2>2 DEF Before
<1> QED
  BY <1>2, <1>3

\* The search keeps its bounds in the fifo and its brackets.
LEMMA SearchBracketsStep ==
  ASSUME Configured, PhysicalInv, [Next]_vars
  PROVE  SearchBrackets'
<1> USE DEF PhysicalInv
<1>0. Len(queue) \in Nat /\ start \in Nat /\ end \in Int
  BY QueueElements DEF TypeOK
<1>1. CASE StartSearch
  BY <1>0, <1>1 DEF StartSearch, SearchBrackets
<1>2. CASE Halve
  <2> DEFINE test == (end + start) \div 2
  <2>1. /\ Len(queue) # 0 /\ Len(queue) < MaxSize /\ start <= end /\ end < Len(queue)
        /\ \A i \in 1..Len(queue) :
             /\ i <= start => TickOut(queue[i]) <= TickOut(elem)
             /\ i > end + 1 => TickOut(queue[i]) > TickOut(elem)
    BY <1>0, <1>2 DEF Halve, SearchBrackets
  <2>2. test \in Nat /\ start <= test /\ test < end /\ test + 1 \in 1..Len(queue)
    BY <1>0, <1>2, <2>1 DEF Halve
  <2>3. /\ queue' = queue /\ elem' = elem /\ pc' = pc
        /\ \/ TickOut(queue[test + 1]) > TickOut(elem) /\ end' = test /\ start' = start
           \/ /\ ~ (TickOut(queue[test + 1]) > TickOut(elem))
              /\ start' = test + 1 /\ end' = end
    BY <1>2 DEF Halve
  <2> HIDE DEF test
  <2>4. /\ TickOut(queue[test + 1]) \in Nat /\ TickOut(elem) \in Nat
        /\ \A i \in 1..Len(queue) : TickOut(queue[i]) \in Nat
    BY <2>2, QueueElements
  <2>5. CASE TickOut(queue[test + 1]) > TickOut(elem)
    <3>1. end' = test /\ start' = start
      BY <2>3, <2>5
    <3>2. \A i \in 1..Len(queue) : i > test + 1 => TickOut(queue[i]) > TickOut(elem)
      BY <2>2, <2>4, <2>5, TimesAscend
    <3> QED
      BY <1>0, <2>1, <2>2, <2>3, <3>1, <3>2 DEF SearchBrackets
  <2>6. CASE ~ (TickOut(queue[test + 1]) > TickOut(elem))
    <3>1. start' = test + 1 /\ end' = end
      BY <2>3, <2>6
    <3>2. \A i \in 1..Len(queue) : i <= test + 1 => TickOut(queue[i]) <= TickOut(elem)
      BY <2>2, <2>4, <2>6, TimesAscend
    <3> QED
      BY <1>0, <2>1, <2>2, <2>3, <3>1, <3>2 DEF SearchBrackets
  <2> QED
    BY <2>5, <2>6
<1>3. CASE UNCHANGED <<queue, elem, start, end, pc>>
  BY <1>3 DEF SearchBrackets
<1>4. CASE pc' # "search"
  BY <1>4 DEF SearchBrackets
<1>5. Next \/ UNCHANGED vars =>
        \/ StartSearch \/ Halve
        \/ UNCHANGED <<queue, elem, start, end, pc>>
        \/ pc' # "search"
  BY DEF Next, Arrive, Refuse, Insert, FifoTimer, Forward, ForwardDone, Tick,
         UpdateDelay, vars
<1> QED
  BY <1>1, <1>2, <1>3, <1>4, <1>5

LEMMA LastInHandStep ==
  ASSUME Configured, PhysicalInv, [Next]_vars
  PROVE  LastInHand'
<1> USE DEF PhysicalInv
<1>1. CASE Arrive
  BY <1>1 DEF Arrive, LastInHand, TypeOK
<1>2. CASE StartSearch
  <2>1. elem'.no = elem.no
    BY <1>2 DEF StartSearch, TypeOK, Elements
  <2> QED
    BY <1>2, <2>1 DEF StartSearch, LastInHand
<1>3. CASE UNCHANGED <<arrived, elem, pc>>
  BY <1>3 DEF LastInHand
<1>4. CASE pc' \notin {"delay", "search"}
  BY <1>4 DEF LastInHand
<1>5. Next \/ UNCHANGED vars =>
        \/ Arrive \/ StartSearch
        \/ UNCHANGED <<arrived, elem, pc>>
        \/ pc' \notin {"delay", "search"}
  BY DEF Next, Refuse, Halve, Insert, FifoTimer, Forward, ForwardDone, Tick,
         UpdateDelay, vars
<1> QED
  BY <1>1, <1>2, <1>3, <1>4, <1>5

\* Every frame of the fifo came before the one that is being stored.
LEMMA QueueNumbers ==
  ASSUME Configured, PhysicalInv
  PROVE  \A i \in 1..Len(queue) :
           /\ queue[i].no \in 1..arrived
           /\ pc \in {"delay", "search"} => queue[i].no < elem.no
<1> TAKE i \in 1..Len(queue)
<1>1. queue[i].no \in Queued
  BY DEF Queued
<1>2. queue[i].no \in 1..arrived /\ queue[i].no \in Nat
  BY <1>1, QueueElements DEF PhysicalInv, NothingLost
<1>3. queue[i].no \notin InHand
  BY <1>1, <1>2 DEF PhysicalInv, NothingLost
<1>4. pc \in {"delay", "search"} => queue[i].no # elem.no /\ elem.no = arrived
  BY <1>3 DEF InHand, PhysicalInv, LastInHand
<1>5. arrived \in Nat
  BY DEF PhysicalInv, TypeOK
<1> QED
  BY <1>2, <1>4, <1>5

\* The frames after a step, each found in the fifo before it.
LEMMA AfterInsert ==
  ASSUME Configured, PhysicalInv, Insert
  PROVE  /\ Len(queue') = Len(queue) + 1
         /\ \A i \in 1..Len(queue') :
              \/ i <= Position /\ i \in 1..Len(queue) /\ queue'[i] = queue[i]
              \/ i = Position + 1 /\ queue'[i] = elem
              \/ /\ i > Position + 1 /\ i - 1 \in 1..Len(queue)
                 /\ queue'[i] = queue[i - 1]
<1>1. /\ Position \in 0..Len(queue) /\ Len(queue) \in Nat
      /\ HasInserted(queue', queue, Position, elem)
  BY InsertedInPlace, QueueElements DEF PhysicalInv
<1> HIDE DEF Position
<1> QED
  BY <1>1 DEF HasInserted

LEMMA AfterForward ==
  ASSUME Configured, PhysicalInv, Forward
  PROVE  /\ Len(queue) > 0 /\ Len(queue') = Len(queue) - 1
         /\ Head(queue) = queue[1]
         /\ \A i \in 1..Len(queue') : i + 1 \in 1..Len(queue) /\ queue'[i] = queue[i + 1]
<1>1. queue \in Seq(Elements) /\ Len(queue) \in Nat /\ Len(queue) > 0 /\ queue' = Tail(queue)
  BY QueueElements DEF PhysicalInv, TypeOK, Forward, HeadIsReady
<1>2. queue # <<>>
  BY <1>1
<1> QED
  BY <1>1, <1>2, HeadTailProperties

LEMMA SortedStep ==
  ASSUME Configured, PhysicalInv, [Next]_vars
  PROVE  QueueSorted' /\ NumbersDistinct'
<1> USE DEF PhysicalInv
<1>0. Len(queue) \in Nat
  BY QueueElements
<1>1. CASE Insert
  <2>1. /\ Position \in 0..Len(queue)
        /\ \A i \in 1..Position : TickOut(queue[i]) <= TickOut(elem)
        /\ \A i \in (Position + 1)..Len(queue) : TickOut(queue[i]) > TickOut(elem)
    BY <1>1, PositionSplits DEF Insert
  <2>2. \A i \in 1..Len(queue) :
          /\ queue[i].no < elem.no /\ queue[i].no \in Nat /\ elem.no \in Nat
          /\ TickOut(queue[i]) \in Nat /\ TickOut(elem) \in Nat
    BY <1>1, QueueNumbers, QueueElements DEF Insert
  <2>3. \A i \in 1..Position : Before(queue[i], elem)
    BY <1>0, <2>1, <2>2 DEF Before
  <2>4. \A i \in (Position + 1)..Len(queue) : Before(elem, queue[i])
    BY <1>0, <2>1, <2>2 DEF Before
  <2>5. /\ Len(queue') = Len(queue) + 1
        /\ \A i \in 1..Len(queue') :
             \/ i <= Position /\ i \in 1..Len(queue) /\ queue'[i] = queue[i]
             \/ i = Position + 1 /\ queue'[i] = elem
             \/ /\ i > Position + 1 /\ i - 1 \in 1..Len(queue)
                /\ queue'[i] = queue[i - 1]
    BY <1>1, AfterInsert
  <2> HIDE DEF Position
  <2>6. QueueSorted'
    <3> SUFFICES ASSUME NEW i \in 1..Len(queue'), NEW j \in 1..Len(queue'), i < j
                 PROVE  Before(queue'[i], queue'[j])
      BY DEF QueueSorted, Before, TickOut, Ms
    <3>1. CASE i <= Position /\ j <= Position
      BY <1>0, <2>1, <2>5, <3>1 DEF QueueSorted
    <3>2. CASE i <= Position /\ j = Position + 1
      BY <1>0, <2>1, <2>3, <2>5, <3>2
    <3>3. CASE i <= Position /\ j > Position + 1
      <4>1. /\ i \in 1..Len(queue) /\ j - 1 \in 1..Len(queue) /\ i < j - 1
            /\ queue'[i] = queue[i] /\ queue'[j] = queue[j - 1]
        BY <1>0, <2>1, <2>5, <3>3
      <4> QED
        BY <4>1 DEF QueueSorted
    <3>4. CASE i = Position + 1 /\ j > Position + 1
      <4>1. /\ j - 1 \in (Position + 1)..Len(queue)
            /\ queue'[i] = elem /\ queue'[j] = queue[j - 1]
        BY <1>0, <2>1, <2>5, <3>4
      <4> QED
        BY <2>4, <4>1
    <3>5. CASE i > Position + 1 /\ j > Position + 1
      <4>1. /\ i - 1 \in 1..Len(queue) /\ j - 1 \in 1..Len(queue) /\ i - 1 < j - 1
            /\ queue'[i] = queue[i - 1] /\ queue'[j] = queue[j - 1]
        BY <1>0, <2>1, <2>5, <3>5
      <4> QED
        BY <4>1 DEF QueueSorted
    <3> QED
      BY <1>0, <2>1, <2>5, <3>1, <3>2, <3>3, <3>4, <3>5
  <2>7. NumbersDistinct'
    <3> SUFFICES ASSUME NEW i \in 1..Len(queue'), NEW j \in 1..Len(queue'), i # j
                 PROVE  queue'[i].no # queue'[j].no
      BY DEF NumbersDistinct
    <3>1. \A k \in 1..Len(queue) : queue[k].no # elem.no
      BY <2>2
    <3>2. CASE i = Position + 1 \/ j = Position + 1
      BY <1>0, <2>1, <2>5, <3>1, <3>2
    <3>3. CASE i # Position + 1 /\ j # Position + 1
      <4> DEFINE k == IF i <= Position THEN i ELSE i - 1
                 l == IF j <= Position THEN j ELSE j - 1
      <4>1. /\ k \in 1..Len(queue) /\ queue'[i] = queue[k]
            /\ l \in 1..Len(queue) /\ queue'[j] = queue[l]
        BY <1>0, <2>1, <2>5, <3>3
      <4>2. k # l
        BY <1>0, <2>1, <2>5, <3>3
      <4> HIDE DEF k, l
      <4> QED
        BY <4>1, <4>2 DEF NumbersDistinct
    <3> QED
      BY <3>2, <3>3
  <2> QED
    BY <2>6, <2>7
<1>2. CASE Forward
  <2>1. /\ Len(queue') = Len(queue) - 1
        /\ \A i \in 1..Len(queue') : i + 1 \in 1..Len(queue) /\ queue'[i] = queue[i + 1]
    BY <1>2, AfterForward
  <2>2. QueueSorted'
    <3> SUFFICES ASSUME NEW i \in 1..Len(queue'), NEW j \in 1..Len(queue'), i < j
                 PROVE  Before(queue'[i], queue'[j])
      BY DEF QueueSorted, Before, TickOut, Ms
    <3> QED
      BY <1>0, <2>1 DEF QueueSorted
  <2>3. NumbersDistinct'
    <3> SUFFICES ASSUME NEW i \in 1..Len(queue'), NEW j \in 1..Len(queue'), i # j
                 PROVE  queue'[i].no # queue'[j].no
      BY DEF NumbersDistinct
    <3> QED
      BY <1>0, <2>1 DEF NumbersDistinct
  <2> QED
    BY <2>2, <2>3
<1>3. CASE UNCHANGED queue
  BY <1>3 DEF QueueSorted, NumbersDistinct, Before, TickOut, Ms
<1>4. Next \/ UNCHANGED vars => Insert \/ Forward \/ UNCHANGED queue
  BY DEF Next, Arrive, Refuse, StartSearch, Halve, FifoTimer, ForwardDone, Tick,
         UpdateDelay, vars
<1> QED
  BY <1>1, <1>2, <1>3, <1>4

\* A frame that is stored or forwarded changes place, no other does.
LEMMA QueuedAfterInsert ==
  ASSUME Configured, PhysicalInv, Insert
  PROVE  Queued' = Queued \cup {elem.no}
<1>1. /\ Position \in 0..Len(queue) /\ Len(queue) \in Nat
      /\ HasInserted(queue', queue, Position, elem)
  BY InsertedInPlace, QueueElements DEF PhysicalInv
<1>2. /\ Len(queue') = Len(queue) + 1
      /\ \A i \in 1..Len(queue') :
           \/ i \in 1..Len(queue) /\ queue'[i] = queue[i]
           \/ queue'[i] = elem
           \/ i - 1 \in 1..Len(queue) /\ queue'[i] = queue[i - 1]
  BY AfterInsert
<1> HIDE DEF Position
<1>3. ASSUME NEW n \in Queued'
      PROVE  n \in Queued \cup {elem.no}
  <2>1. PICK i \in 1..Len(queue') : n = queue'[i].no
    BY <1>3 DEF Queued
  <2> QED
    BY <1>2, <2>1 DEF Queued
<1>4. ASSUME NEW n \in Queued
      PROVE  n \in Queued'
  <2>1. PICK i \in 1..Len(queue) : n = queue[i].no
    BY <1>4 DEF Queued
  <2>2. CASE i <= Position
    <3>1. i \in 1..Len(queue') /\ queue'[i] = queue[i]
      BY <1>1, <1>2, <2>2 DEF HasInserted
    <3> QED
      BY <2>1, <3>1 DEF Queued
  <2>3. CASE i > Position
    <3>1. i + 1 \in 1..Len(queue') /\ i + 1 \in (Position + 2)..(Len(queue) + 1)
      BY <1>1, <1>2, <2>3
    <3>2. queue'[i + 1] = queue[(i + 1) - 1] /\ (i + 1) - 1 = i
      BY <1>1, <3>1 DEF HasInserted
    <3> QED
      BY <2>1, <3>1, <3>2 DEF Queued
  <2> QED
    BY <1>1, <2>2, <2>3
<1>5. elem.no \in Queued'
  <2>1. Position + 1 \in 1..Len(queue') /\ queue'[Position + 1] = elem
    BY <1>1, <1>2 DEF HasInserted
  <2> QED
    BY <2>1 DEF Queued
<1> QED
  BY <1>3, <1>4, <1>5

LEMMA QueuedAfterForward ==
  ASSUME Configured, PhysicalInv, Forward
  PROVE  Head(queue).no \in Queued /\ Queued' = Queued \ {Head(queue).no}
<1>1. /\ Len(queue) > 0 /\ Len(queue') = Len(queue) - 1 /\ Len(queue) \in Nat
      /\ Head(queue) = queue[1] /\ 1 \in 1..Len(queue)
      /\ \A i \in 1..Len(queue') : i + 1 \in 1..Len(queue) /\ queue'[i] = queue[i + 1]
  BY AfterForward, QueueElements DEF PhysicalInv
<1>2. Head(queue).no \in Queued
  BY <1>1 DEF Queued
<1>3. ASSUME NEW n \in Queued'
      PROVE  n \in Queued \ {Head(queue).no}
  <2>1. PICK i \in 1..Len(queue') : n = queue'[i].no
    BY <1>3 DEF Queued
  <2>2. n = queue[i + 1].no /\ i + 1 \in 1..Len(queue) /\ i + 1 # 1
    BY <1>1, <2>1
  <2>3. n # queue[1].no
    BY <1>1, <2>2 DEF PhysicalInv, NumbersDistinct
  <2> QED
    BY <1>1, <2>2, <2>3 DEF Queued
<1>4. ASSUME NEW n \in Queued \ {Head(queue).no}
      PROVE  n \in Queued'
  <2>1. PICK i \in 1..Len(queue) : n = queue[i].no
    BY <1>4 DEF Queued
  <2>2. i # 1
    BY <1>1, <1>4, <2>1
  <2>3. i - 1 \in 1..Len(queue') /\ queue'[i - 1] = queue[i]
    <3>1. i - 1 \in 1..Len(queue') /\ (i - 1) + 1 = i
      BY <1>1, <2>1, <2>2
    <3> QED
      BY <1>1, <3>1
  <2> QED
    BY <2>1, <2>3 DEF Queued
<1> QED
  BY <1>2, <1>3, <1>4

LEMMA NothingLostStep ==
  ASSUME Configured, PhysicalInv, [Next]_vars
  PROVE  NothingLost'
<1> USE DEF PhysicalInv
<1>0. /\ arrived \in Nat /\ elem.no \in Nat
      /\ dropped \subseteq Nat /\ forwarded \subseteq Nat /\ Queued \subseteq Nat
  BY QueueElements DEF TypeOK, Queued
<1>1. CASE Arrive
  <2>1. /\ arrived' = arrived + 1 /\ elem'.no = arrived + 1
        /\ InHand' = {arrived + 1} /\ InHand = {}
        /\ Queued' = Queued /\ dropped' = dropped /\ forwarded' = forwarded
    BY <1>1 DEF Arrive, InHand, Queued
  <2>2. 1..(arrived + 1) = (1..arrived) \cup {arrived + 1}
    BY <1>0
  <2>3. arrived + 1 \notin 1..arrived
    BY <1>0
  <2> QED
    BY <1>0, <2>1, <2>2, <2>3 DEF NothingLost
<1>2. CASE Refuse
  <2>1. /\ arrived' = arrived /\ InHand' = {} /\ InHand = {elem.no}
        /\ Queued' = Queued /\ forwarded' = forwarded
        /\ dropped' = dropped \cup {elem.no}
    BY <1>2 DEF Refuse, InHand, Queued
  <2> QED
    BY <1>0, <2>1 DEF NothingLost
<1>3. CASE Insert
  <2>1. /\ arrived' = arrived /\ InHand' = {} /\ InHand = {elem.no}
        /\ dropped' = dropped /\ forwarded' = forwarded
    BY <1>3 DEF Insert, InHand
  <2>2. Queued' = Queued \cup {elem.no}
    BY <1>3, QueuedAfterInsert
  <2> QED
    BY <1>0, <2>1, <2>2 DEF NothingLost
<1>4. CASE Forward
  <2>1. /\ arrived' = arrived /\ InHand' = {} /\ InHand = {}
        /\ dropped' = dropped /\ forwarded' = forwarded \cup {Head(queue).no}
    BY <1>4 DEF Forward, InHand
  <2>2. Head(queue).no \in Queued /\ Queued' = Queued \ {Head(queue).no}
    BY <1>4, QueuedAfterForward
  <2> QED
    BY <1>0, <2>1, <2>2 DEF NothingLost
<1>5. CASE UNCHANGED <<arrived, queue, dropped, forwarded>> /\ InHand' = InHand
  BY <1>5 DEF NothingLost, Queued
<1>6. Next \/ UNCHANGED vars =>
        \/ Arrive \/ Refuse \/ Insert \/ Forward
        \/ UNCHANGED <<arrived, queue, dropped, forwarded>> /\ InHand' = InHand
  <2>1. StartSearch => elem'.no = elem.no
    BY DEF StartSearch, TypeOK, Elements
  <2> QED
    BY <2>1 DEF Next, StartSearch, Halve, FifoTimer, ForwardDone, Tick,
                UpdateDelay, vars, InHand
<1> QED
  BY <1>1, <1>2, <1>3, <1>4, <1>5, <1>6

LEMMA PhysicalInvInit ==
  ASSUME Configured, Init
  PROVE  PhysicalInv
<1>1. Len(queue) = 0 /\ queue \in Seq(Elements)
  BY DEF Init
<1>2. TypeOK
  BY <1>1 DEF Init, Configured, TypeOK, Milliseconds, Elements
<1>3. NothingLost
  <2>1. Queued = {} /\ InHand = {} /\ 1..arrived = {}
    BY <1>1 DEF Init, Queued, InHand
  <2> QED
    BY <2>1 DEF Init, NothingLost
<1> QED
  BY <1>1, <1>2, <1>3
     DEF Init, PhysicalInv, LastInHand, SearchBrackets, QueueSorted, NumbersDistinct

\* The invariant of the channel: the search brackets the place of the frame in hand,
\* and the fifo is sorted and loses nothing.
THEOREM PhysicalInvariant == Configured => (Spec => []PhysicalInv)
<1> SUFFICES ASSUME Configured PROVE Spec => []PhysicalInv
  OBVIOUS
<1>1. Init => PhysicalInv
  BY PhysicalInvInit
<1>2. PhysicalInv /\ [Next]_vars => PhysicalInv'
  <2> SUFFICES ASSUME PhysicalInv, [Next]_vars PROVE PhysicalInv'
    OBVIOUS
  <2> QED
    BY TypeOKStep, LastInHandStep, SearchBracketsStep, SortedStep, NothingLostStep
       DEF PhysicalInv
<1> QED
  BY <1>1, <1>2, PTL DEF Spec

\* Whatever the delay and the clock did while frames waited, the fifo is sorted by the
\* times they leave at, and by arrival among those of one time.
THEOREM QueueAlwaysSorted == Configured => (Spec => []QueueSorted)
<1>1. PhysicalInv => QueueSorted
  BY DEF PhysicalInv
<1> QED
  BY <1>1, PhysicalInvariant, PTL

\* No frame is lost without a word, or kept twice: the search finds a place for each
\* frame that push accepts.
THEOREM NothingEverLost == Configured => (Spec => []NothingLost)
<1>1. PhysicalInv => NothingLost
  BY DEF PhysicalInv
<1> QED
  BY <1>1, PhysicalInvariant, PTL

\* To look at the head of the fifo is enough: a turn of the timer leaves no frame
\* whose time has come.
THEOREM TimerDrains == Configured => (Spec => Drained)
<1> SUFFICES ASSUME Configured PROVE Spec => Drained
  OBVIOUS
<1>1. PhysicalInv /\ [Next]_vars => [LeavesNoneDue]_vars
  <2> SUFFICES ASSUME PhysicalInv, Next, pc = "forward", pc' = "idle",
                      NEW i \in 1..Len(queue)
               PROVE  TickOut(queue[i]) > now
    BY DEF LeavesNoneDue, vars
  <2>1. TypeOK /\ QueueSorted /\ now \in Nat /\ Len(queue) \in Nat
    BY QueueElements DEF PhysicalInv, TypeOK, Milliseconds
  <2>2. ForwardDone
    BY DEF Next, Arrive, Refuse, StartSearch, Halve, Insert, FifoTimer, Forward, Tick,
           UpdateDelay
  <2>3. 1 \in 1..Len(queue) /\ Head(queue) = queue[1]
    <3>1. queue \in Seq(Elements) /\ queue # <<>>
      BY <2>1 DEF TypeOK
    <3> QED
      BY <2>1, <3>1, HeadTailProperties
  <2>4. TickOut(queue[1]) \in Nat /\ TickOut(queue[i]) \in Nat
    BY <2>1, <2>3, QueueElements
  <2>5. TickOut(queue[1]) > now
    BY <2>1, <2>2, <2>3, <2>4 DEF ForwardDone, HeadIsReady
  <2>6. TickOut(queue[1]) <= TickOut(queue[i])
    BY <2>1, <2>3, TimesAscend
  <2> QED
    BY <2>1, <2>4, <2>5, <2>6
<1>2. Spec => []PhysicalInv
  BY PhysicalInvariant
<1>3. QED
  BY <1>1, <1>2, PTL DEF Spec, Drained

\* The delay never exceeds what getMaxDelay says, when the file is played again at its
\* end: the interpolation overshoots neither of its two entries.
THEOREM DelayWithinScenario == Configured => (Spec => []WithinScenario)
<1> SUFFICES ASSUME Configured PROVE Spec => []WithinScenario
  OBVIOUS
<1>1. Init => WithinScenario
  BY DEF Init, WithinScenario
<1>2. TypeOK /\ WithinScenario /\ [Next]_vars => WithinScenario'
  <2> SUFFICES ASSUME TypeOK, WithinScenario, [Next]_vars, FileDelay => Loop, NEW m \in Nat,
                      FirstDelay <= m,
                      FileDelay => \A u \in DOMAIN Scenario : Scenario[u] <= m
               PROVE  delay' <= m
    BY DEF WithinScenario
  <2>1. CASE UpdateDelay
    <3>1. FileDelay /\ Loop
      BY <2>1 DEF UpdateDelay
    <3>2. PICK u \in DOMAIN Scenario : delay' <= Scenario[u]
      BY <2>1, <3>1, UpdatedDelay
    <3>3. delay' \in Nat /\ Scenario[u] \in Nat /\ Scenario[u] <= m
      BY <2>1, <3>1, UpdatedDelay DEF Configured, Milliseconds
    <3> QED
      BY <3>2, <3>3
  <2>2. CASE delay' = delay
    BY <2>2 DEF WithinScenario
  <2> QED
    BY <2>1, <2>2 DEF Next, Arrive, Refuse, StartSearch, Halve, Insert, FifoTimer, Forward,
                      ForwardDone, Tick, vars
<1>3. PhysicalInv => TypeOK
  BY DEF PhysicalInv
<1> QED
  BY <1>1, <1>2, <1>3, PhysicalInvariant, PTL DEF Spec

\* With a steady delay: every frame that waits was given that delay, before now and
\* before the frame in hand.
SteadyInv ==
  /\ PhysicalInv
  /\ NoWrap
  /\ InOrder
  /\ \A i \in 1..Len(queue) :
       /\ queue[i].lag = delay /\ queue[i].at <= clock
       /\ pc \in {"delay", "search"} => queue[i].at <= elem.at
  /\ pc \in {"delay", "search"} => elem.at <= clock
  /\ pc = "search" => elem.lag = delay

\* The place of a frame is then after all the others.
LEMMA SteadyAppends ==
  ASSUME Configured, SteadyInv, Insert
  PROVE  Position = Len(queue)
<1> SUFFICES ASSUME Position # Len(queue) PROVE FALSE
  OBVIOUS
<1>1. /\ Position \in 0..Len(queue) /\ Len(queue) \in Nat
      /\ \A i \in (Position + 1)..Len(queue) : TickOut(queue[i]) > TickOut(elem)
  BY PositionSplits, QueueElements DEF SteadyInv, PhysicalInv, Insert
<1> HIDE DEF Position
<1> DEFINE last == queue[Len(queue)]
<1>2. Len(queue) \in 1..Len(queue) /\ TickOut(last) > TickOut(elem)
  BY <1>1
<1>3. /\ last \in Elements /\ elem \in Elements /\ delay \in Nat /\ clock \in Nat
      /\ TickSpan \in Nat
  BY <1>2, QueueElements DEF SteadyInv, PhysicalInv, TypeOK, Milliseconds, Configured
<1>4. /\ last.lag = delay /\ last.at <= elem.at /\ elem.at <= clock /\ elem.lag = delay
      /\ clock + delay < TickSpan
  BY <1>2 DEF SteadyInv, Insert, NoWrap
<1> HIDE DEF last
<1>5. last.at \in Nat /\ elem.at \in Nat
  BY <1>3 DEF Elements
<1>6. /\ last.at + delay \in Nat /\ last.at + delay < TickSpan
      /\ elem.at + delay \in Nat /\ elem.at + delay < TickSpan
      /\ last.at + delay <= elem.at + delay
  BY <1>3, <1>4, <1>5
<1>7. TickOut(last) = last.at + delay /\ TickOut(elem) = elem.at + delay
  BY <1>4, <1>6, MsKeepsShortTimes DEF TickOut
<1> QED
  BY <1>2, <1>6, <1>7 DEF last

LEMMA SteadyStep ==
  ASSUME Configured, SteadyInv, PhysicalInv', Next, Steady, NoWrap'
  PROVE  SteadyInv'
<1> USE DEF SteadyInv
<1>0. /\ Len(queue) \in Nat /\ clock \in Nat /\ clock' \in Nat /\ arrived \in Nat
      /\ delay' = delay /\ clock' >= clock
      /\ \A i \in 1..Len(queue) : queue[i] \in Elements
      /\ elem \in Elements
  BY QueueElements DEF PhysicalInv, TypeOK, Steady
<1>1. \A e \in Elements : e.no \in Nat /\ e.at \in Nat /\ e.lag \in Nat
  BY DEF Elements
<1>2. CASE Insert
  <2>1. /\ Len(queue') = Len(queue) + 1
        /\ \A i \in 1..Len(queue') :
             \/ i \in 1..Len(queue) /\ queue'[i] = queue[i]
             \/ i = Len(queue) + 1 /\ queue'[i] = elem
    BY <1>0, <1>2, AfterInsert, SteadyAppends
  <2>2. /\ pc = "search" /\ pc' = "idle"
        /\ elem.at <= clock /\ elem.lag = delay /\ forwarded' = forwarded
    BY <1>2 DEF Insert
  <2>3. \A i \in 1..Len(queue) : queue[i].no < elem.no
    BY <2>2, QueueNumbers
  <2>4. \A n \in forwarded : n < elem.no
    <3> TAKE n \in forwarded
    <3>1. n \in 1..arrived /\ n \in Nat /\ n \notin InHand
      BY DEF PhysicalInv, NothingLost, TypeOK
    <3>2. elem.no = arrived /\ elem.no \in InHand
      BY <2>2 DEF PhysicalInv, LastInHand, InHand
    <3> QED
      BY <1>0, <3>1, <3>2
  <2>5. InOrder'
    <3> SUFFICES ASSUME NEW i \in 1..Len(queue')
                 PROVE  /\ \A n \in forwarded : n < queue'[i].no
                        /\ \A j \in 1..(i - 1) : queue'[j].no < queue'[i].no
      BY <2>2 DEF InOrder
    <3>1. CASE i \in 1..Len(queue) /\ queue'[i] = queue[i]
      <4>1. \A j \in 1..(i - 1) : j \in 1..Len(queue) /\ queue'[j] = queue[j]
        BY <1>0, <2>1, <3>1
      <4> QED
        BY <3>1, <4>1 DEF InOrder
    <3>2. CASE i = Len(queue) + 1 /\ queue'[i] = elem
      <4>1. \A j \in 1..(i - 1) : j \in 1..Len(queue) /\ queue'[j] = queue[j]
        BY <1>0, <2>1, <3>2
      <4> QED
        BY <2>3, <2>4, <3>2, <4>1
    <3> QED
      BY <2>1, <3>1, <3>2
  <2>6. \A i \in 1..Len(queue') : queue'[i].lag = delay' /\ queue'[i].at <= clock'
    BY <1>0, <1>1, <2>1, <2>2
  <2> QED
    BY <2>2, <2>5, <2>6
<1>3. CASE Forward
  <2>1. /\ Len(queue) > 0 /\ Len(queue') = Len(queue) - 1 /\ Head(queue) = queue[1]
        /\ \A i \in 1..Len(queue') : i + 1 \in 1..Len(queue) /\ queue'[i] = queue[i + 1]
    BY <1>3, AfterForward
  <2>2. pc' = "forward" /\ forwarded' = forwarded \cup {queue[1].no}
    BY <1>3, <2>1 DEF Forward
  <2>3. InOrder'
    <3> SUFFICES ASSUME NEW i \in 1..Len(queue')
                 PROVE  /\ \A n \in forwarded' : n < queue'[i].no
                        /\ \A j \in 1..(i - 1) : queue'[j].no < queue'[i].no
      BY DEF InOrder
    <3>1. i + 1 \in 1..Len(queue) /\ queue'[i] = queue[i + 1] /\ 1 \in 1..((i + 1) - 1)
      BY <1>0, <2>1
    <3>2. \A n \in forwarded : n < queue[i + 1].no
      BY <3>1 DEF InOrder
    <3>3. \A j \in 1..((i + 1) - 1) : queue[j].no < queue[i + 1].no
      BY <3>1 DEF InOrder
    <3>4. \A n \in forwarded' : n < queue'[i].no
      BY <2>2, <3>1, <3>2, <3>3
    <3>5. \A j \in 1..(i - 1) : /\ j + 1 \in 1..((i + 1) - 1)
                                /\ queue'[j] = queue[j + 1]
      BY <1>0, <2>1
    <3> QED
      BY <3>1, <3>3, <3>4, <3>5
  <2>4. \A i \in 1..Len(queue') : queue'[i].lag = delay' /\ queue'[i].at <= clock'
    BY <1>0, <1>1, <2>1
  <2> QED
    BY <2>2, <2>3, <2>4
<1>4. CASE UNCHANGED <<queue, forwarded>>
  <2>1. InOrder'
    BY <1>4 DEF InOrder
  <2>2. \A i \in 1..Len(queue') : queue'[i].lag = delay' /\ queue'[i].at <= clock'
    BY <1>0, <1>1, <1>4
  <2>3. \/ pc' \notin {"delay", "search"}
        \/ pc' = "delay" /\ elem'.at = clock /\ clock' = clock
        \/ pc = "delay" /\ pc' = "search" /\ elem'.at = elem.at /\ elem'.lag = delay
        \/ UNCHANGED <<pc, elem>>
    <3>1. StartSearch => elem'.at = elem.at /\ elem'.lag = delay
      BY <1>0 DEF StartSearch, Elements
    <3>2. Arrive => elem'.at = clock
      BY DEF Arrive
    <3> QED
      BY <3>1, <3>2 DEF Next, Arrive, Refuse, StartSearch, Halve, Insert, FifoTimer, Forward,
                        ForwardDone, Tick, UpdateDelay
  <2>4. /\ \A i \in 1..Len(queue') : pc' \in {"delay", "search"} => queue'[i].at <= elem'.at
        /\ pc' \in {"delay", "search"} => elem'.at <= clock'
        /\ pc' = "search" => elem'.lag = delay'
    <3>1. CASE pc' \notin {"delay", "search"}
      BY <3>1
    <3>2. CASE pc' = "delay" /\ elem'.at = clock /\ clock' = clock
      BY <1>0, <1>1, <1>4, <3>2
    <3>3. CASE pc = "delay" /\ pc' = "search" /\ elem'.at = elem.at /\ elem'.lag = delay
      BY <1>0, <1>1, <1>4, <3>3
    <3>4. CASE UNCHANGED <<pc, elem>>
      BY <1>0, <1>1, <1>4, <3>4
    <3> QED
      BY <2>3, <3>1, <3>2, <3>3, <3>4
  <2> QED
    BY <2>1, <2>2, <2>4
<1>5. Insert \/ Forward \/ UNCHANGED <<queue, forwarded>>
  BY DEF Next, Arrive, Refuse, StartSearch, Halve, FifoTimer, ForwardDone, Tick, UpdateDelay
<1> QED
  BY <1>2, <1>3, <1>4, <1>5

\* With a delay that does not change, a clock that is not set back and times that do
\* not wrap at 2^32 milliseconds, frames leave in the order they came in.
THEOREM SteadyLinkKeepsOrder == Configured => (SteadySpec => []InOrder)
<1> SUFFICES ASSUME Configured PROVE SteadySpec => []InOrder
  OBVIOUS
<1>1. Init /\ NoWrap => SteadyInv
  <2> SUFFICES ASSUME Init, NoWrap PROVE SteadyInv
    OBVIOUS
  <2>1. Len(queue) = 0
    BY DEF Init
  <2> QED
    BY <2>1, PhysicalInvInit DEF Init, SteadyInv, InOrder
<1>2. SteadyInv /\ [Next /\ Steady /\ NoWrap']_vars => SteadyInv'
  <2> SUFFICES ASSUME SteadyInv, [Next /\ Steady /\ NoWrap']_vars PROVE SteadyInv'
    OBVIOUS
  <2>1. PhysicalInv'
    BY TypeOKStep, LastInHandStep, SearchBracketsStep, SortedStep, NothingLostStep
       DEF SteadyInv, PhysicalInv
  <2>2. CASE Next /\ Steady /\ NoWrap'
    BY <2>1, <2>2, SteadyStep
  <2>3. CASE UNCHANGED vars
    BY <2>1, <2>3 DEF vars, SteadyInv, InOrder, NoWrap
  <2> QED
    BY <2>2, <2>3
<1>3. SteadyInv => InOrder
  BY DEF SteadyInv
<1> QED
  BY <1>1, <1>2, <1>3, PTL DEF SteadySpec
=============================================================================
