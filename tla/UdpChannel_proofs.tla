------------------------- MODULE UdpChannel_proofs -------------------------
(***************************************************************************)
(* Theorems about UdpChannel for every set of sources, every number of     *)
(* counter values from two on, every max_stack, and any losses, duplicates *)
(* and reordering; those about order, for a network that Tolerated bounds. *)
(*                                                                         *)
(* The argument: the counter of a stack is its size because add and        *)
(* handleStack change both alike, whether or not the slot was filled.  That *)
(* the stack stays bounded needs more: after one datagram too many, the    *)
(* next call must find the slot of udp_counters filled, which is what the  *)
(* search for the first stacked datagram is for; and a source of which     *)
(* nothing is known has nothing stacked.                                   *)
(*                                                                         *)
(* The order needs that a slot tells a rank: all that was sent after the   *)
(* last one delivered is in flight, stacked or lost, so it spans fewer     *)
(* ranks than there are counter values.  udp_counters is then the counter  *)
(* of the last one delivered or, after an early return, of the one before; *)
(* only between two calls is it that of the first of the stack, and then   *)
(* more than max_stack have overtaken those given up: none is in flight.   *)
(***************************************************************************)
EXTENDS UdpChannel, FiniteSetTheorems, WellFoundedInduction, TLAPS

\* Every set of naturals that is not empty has a least element.
LEMMA LeastNatural ==
  ASSUME NEW T, T \subseteq Nat, T # {}
  PROVE  \E x \in T : \A y \in T : x <= y
<1> DEFINE R == OpToRel(<, Nat)
<1>1. \A x, y \in Nat : <<x, y>> \in R <=> x < y
  BY DEF OpToRel
<1>2. IsWellFoundedOn(R, Nat)
  BY NatLessThanWellFounded
<1> HIDE DEF R
<1>3. PICK x \in T : \A y \in T : ~ (<<y, x>> \in R)
  BY <1>2, WFMin
<1>4. \A y \in T : x \in Nat /\ y \in Nat /\ ~ (y < x)
  BY <1>1, <1>3
<1> QED
  BY <1>4

Filled(stack) == {n \in Counters : stack[n] # Empty}

\* The slots of a stack.
Stacks == [Counters -> Ranks \cup {Empty}]

\* A source whose counter is not known has nothing stacked.
UnknownHasNothing ==
  \A s \in Sources : udpCounters[s] = Empty => Filled(stacks[s]) = {}

\* Between two calls the stacked source is one whose counter is known.
StackedIsKnown ==
  /\ pc = "wait" => stackedIp = NoSource
  /\ pc = "again" => stackedIp \in Sources /\ udpCounters[stackedIp] \in Counters

\* Only the stacked source may hold one datagram too many, and the next call
\* takes one from it.
OneTooManyAtMost ==
  \A s \in Sources :
    \/ counter[s] <= MaxStack
    \/ /\ pc = "again" /\ stackedIp = s
       /\ counter[s] <= MaxStack + 1
       /\ stacks[s][udpCounters[s]] # Empty

\* The inductive invariant.
UdpInv ==
  /\ TypeOK
  /\ CounterIsStackSize
  /\ UnknownHasNothing
  /\ StackedIsKnown
  /\ OneTooManyAtMost

-----------------------------------------------------------------------------
(* Counters modulo Modulus. *)

LEMMA CounterFacts ==
  /\ Modulus \in Nat /\ Modulus >= 2
  /\ Empty \notin Counters /\ Empty \notin Ranks /\ Empty \notin Nat
  /\ \A k \in Nat : k % Modulus \in Counters
  /\ \A n \in Counters : Succ(n) \in Counters /\ Succ(n) # n
  /\ \A n \in Counters : n % Modulus = n /\ (n + Modulus) % Modulus = n
  /\ Counters \subseteq Nat /\ Ranks \subseteq Nat
<1>1. Modulus \in Nat /\ Modulus >= 2
  BY ModulusAssumption
<1>2. Empty \notin Counters /\ Empty \notin Ranks /\ Empty \notin Nat
  BY DEF Empty, Counters, Ranks
<1>3. \A k \in Nat : k % Modulus \in Counters
  BY <1>1 DEF Counters
<1>4. \A n \in Counters : n % Modulus = n /\ (n + Modulus) % Modulus = n
  BY <1>1 DEF Counters
<1>5. \A n \in Counters : Succ(n) \in Counters /\ Succ(n) # n
  BY <1>1, <1>4 DEF Counters, Succ
<1>6. Counters \subseteq Nat /\ Ranks \subseteq Nat
  BY <1>1, BoundsAssumption DEF Counters, Ranks
<1> QED
  BY <1>1, <1>2, <1>3, <1>4, <1>5, <1>6

LEMMA FilledFinite ==
  \A stack : /\ IsFiniteSet(Filled(stack))
             /\ Cardinality(Filled(stack)) \in 0..Modulus
<1> TAKE stack
<1>1. IsFiniteSet(Counters) /\ Cardinality(Counters) = Modulus
  BY CounterFacts, FS_Interval DEF Counters
<1>2. Filled(stack) \in SUBSET Counters
  BY DEF Filled
<1>3. IsFiniteSet(Filled(stack)) /\ Cardinality(Filled(stack)) <= Modulus
  BY <1>1, <1>2, FS_Subset
<1> QED
  BY <1>3, CounterFacts, FS_CardinalityType

\* A datagram put in a slot adds one to the size unless it erases another.
LEMMA FillSlot ==
  ASSUME NEW stack \in Stacks, NEW n \in Counters, NEW k \in Ranks
  PROVE  Cardinality(Filled([stack EXCEPT ![n] = k])) =
           IF stack[n] = Empty THEN Cardinality(Filled(stack)) + 1
                               ELSE Cardinality(Filled(stack))
<1>1. Filled([stack EXCEPT ![n] = k]) = Filled(stack) \cup {n}
  BY CounterFacts DEF Filled, Stacks
<1>2. n \in Filled(stack) <=> stack[n] # Empty
  BY DEF Filled
<1> QED
  BY <1>1, <1>2, FilledFinite, FS_AddElement

\* A slot that is emptied takes one from the size unless it was empty.
LEMMA ClearSlot ==
  ASSUME NEW stack \in Stacks, NEW n \in Counters
  PROVE  Cardinality(Filled([stack EXCEPT ![n] = Empty])) =
           IF stack[n] = Empty THEN Cardinality(Filled(stack))
                               ELSE Cardinality(Filled(stack)) - 1
<1>1. Filled([stack EXCEPT ![n] = Empty]) = Filled(stack) \ {n}
  BY DEF Filled, Stacks
<1>2. n \in Filled(stack) <=> stack[n] # Empty
  BY DEF Filled
<1> QED
  BY <1>1, <1>2, FilledFinite, FS_RemoveElement

\* The search of receive ends on a slot that holds a datagram, if there is one.
LEMMA SearchFinds ==
  ASSUME NEW stack \in Stacks, NEW n \in Counters, Filled(stack) # {}
  PROVE  FirstStacked(stack, n) \in Counters /\ stack[FirstStacked(stack, n)] # Empty
<1> DEFINE T == {d \in Counters : stack[(n + d) % Modulus] # Empty}
<1>1. T \subseteq Nat
  BY CounterFacts
<1>2. T # {}
  <2>1. PICK m \in Counters : stack[m] # Empty
    BY DEF Filled
  <2>2. CASE m >= n
    <3>1. m - n \in Counters /\ n + (m - n) = m
      BY <2>2, CounterFacts DEF Counters
    <3> QED
      BY <2>1, <3>1, CounterFacts
  <2>3. CASE m < n
    <3>1. m + Modulus - n \in Counters /\ n + (m + Modulus - n) = m + Modulus
      BY <2>3, CounterFacts DEF Counters
    <3> QED
      BY <2>1, <3>1, CounterFacts
  <2> QED
    BY <2>2, <2>3, CounterFacts
<1>3. PICK d \in T : \A e \in T : d <= e
  BY <1>1, <1>2, LeastNatural
<1>4. \A e \in 0..(d - 1) : stack[(n + e) % Modulus] = Empty
  <2> SUFFICES ASSUME NEW e \in 0..(d - 1), stack[(n + e) % Modulus] # Empty PROVE FALSE
    OBVIOUS
  <2>1. d \in Counters
    OBVIOUS
  <2>2. e \in Counters /\ e < d
    BY <2>1, CounterFacts DEF Counters
  <2> QED
    BY <2>1, <2>2, <1>3, CounterFacts
<1>5. \E x \in Counters : /\ stack[(n + x) % Modulus] # Empty
                          /\ \A e \in 0..(x - 1) : stack[(n + e) % Modulus] = Empty
  BY <1>4
<1> DEFINE first == CHOOSE x \in Counters : /\ stack[(n + x) % Modulus] # Empty
                                            /\ \A e \in 0..(x - 1) : stack[(n + e) % Modulus] = Empty
<1>6. first \in Counters /\ stack[(n + first) % Modulus] # Empty
  BY <1>5
<1>7. FirstStacked(stack, n) = (n + first) % Modulus
  BY DEF FirstStacked
<1> HIDE DEF first
<1>8. n + first \in Nat
  BY <1>6, CounterFacts
<1> QED
  BY <1>6, <1>7, <1>8, CounterFacts

-----------------------------------------------------------------------------
(* The receiver keeps the invariant. *)

LEMMA InitUdpInv == Init => UdpInv
<1> SUFFICES ASSUME Init PROVE UdpInv
  OBVIOUS
<1>1. TypeOK
  BY CounterFacts, BoundsAssumption DEF Init, TypeOK, Counters
<1>2. \A s \in Sources : Filled(stacks[s]) = {}
  BY DEF Init, Filled
<1>3. CounterIsStackSize
  BY <1>2, FS_EmptySet DEF Init, CounterIsStackSize, Filled
<1>4. UnknownHasNothing /\ StackedIsKnown /\ OneTooManyAtMost
  BY <1>2, BoundsAssumption DEF Init, UnknownHasNothing, StackedIsKnown, OneTooManyAtMost
<1> QED
  BY <1>1, <1>3, <1>4 DEF UdpInv

\* The sender and the network do not touch the receiver.
LEMMA ReceiverKept ==
  ASSUME UdpInv, UNCHANGED rcvVars, TypeOK'
  PROVE  UdpInv'
BY DEF UdpInv, rcvVars, CounterIsStackSize, UnknownHasNothing, StackedIsKnown, OneTooManyAtMost

LEMMA SendKeeps ==
  ASSUME UdpInv, NEW s \in Sources, Send(s)
  PROVE  UdpInv'
<1>1. TypeOK'
  BY BoundsAssumption DEF UdpInv, TypeOK, Send, rcvVars, Ranks
<1> QED
  BY <1>1, ReceiverKept DEF Send

LEMMA LoseKeeps ==
  ASSUME UdpInv, NEW s \in Sources, NEW k \in network[s], Lose(s, k)
  PROVE  UdpInv'
<1>1. TypeOK'
  BY BoundsAssumption DEF UdpInv, TypeOK, Lose, rcvVars
<1> QED
  BY <1>1, ReceiverKept DEF Lose

\* What a call that touches only source s must establish.
LEMMA OneSourceKeeps ==
  ASSUME UdpInv, TypeOK', NEW s \in Sources,
         \A t \in Sources \ {s} : /\ stacks'[t] = stacks[t]
                                  /\ counter'[t] = counter[t]
                                  /\ udpCounters'[t] = udpCounters[t],
         pc = "again" => stackedIp = s,
         counter'[s] = Cardinality(Filled(stacks'[s])),
         udpCounters'[s] = Empty => Filled(stacks'[s]) = {},
         \/ pc' = "wait" /\ stackedIp' = NoSource /\ counter'[s] <= MaxStack
         \/ /\ pc' = "again" /\ stackedIp' = s /\ udpCounters'[s] \in Counters
            /\ \/ counter'[s] <= MaxStack
               \/ counter'[s] <= MaxStack + 1 /\ stacks'[s][udpCounters'[s]] # Empty
  PROVE  UdpInv'
<1>1. CounterIsStackSize'
  BY DEF UdpInv, CounterIsStackSize, Filled
<1>2. UnknownHasNothing' /\ StackedIsKnown'
  BY DEF UdpInv, UnknownHasNothing, StackedIsKnown
<1>3. \A t \in Sources \ {s} : counter[t] <= MaxStack
  BY DEF UdpInv, OneTooManyAtMost, TypeOK
<1>4. OneTooManyAtMost'
  BY <1>3 DEF OneTooManyAtMost
<1> QED
  BY <1>1, <1>2, <1>4 DEF UdpInv

\* handleStack leaves a count that is the size of what it leaves stacked.
LEMMA HandleStackCounts ==
  ASSUME UdpInv, NEW s \in Sources, NEW stack \in Stacks, NEW n \in Counters,
         HandleStack(s, stack, Cardinality(Filled(stack)), n)
  PROVE  /\ stacks' \in [Sources -> Stacks]
         /\ counter' \in [Sources -> 0..Modulus]
         /\ delivered' \in [Sources -> SUBSET Ranks]
         /\ last' \in [Sources -> Ranks \cup {Empty}]
         /\ \A t \in Sources \ {s} : stacks'[t] = stacks[t] /\ counter'[t] = counter[t]
         /\ stacks'[s] = [stack EXCEPT ![n] = Empty]
         /\ counter'[s] = Cardinality(Filled(stacks'[s]))
         /\ stack[n] = Empty => counter'[s] = Cardinality(Filled(stack))
         /\ stack[n] # Empty => counter'[s] = Cardinality(Filled(stack)) - 1
<1> DEFINE left == [stack EXCEPT ![n] = Empty]
<1> DEFINE count == Cardinality(Filled(stack))
<1> DEFINE size == IF stack[n] = Empty THEN count ELSE count - 1
<1>1. left \in Stacks
  BY DEF Stacks
<1>2. Cardinality(Filled(left)) = size /\ size \in 0..Modulus
  BY ClearSlot, FilledFinite
<1>3. stacks' = [stacks EXCEPT ![s] = left]
  BY DEF HandleStack
<1>4. counter' = [counter EXCEPT ![s] = size]
  BY DEF HandleStack
<1>5. /\ stacks \in [Sources -> Stacks]
      /\ counter \in [Sources -> 0..Modulus]
      /\ delivered \in [Sources -> SUBSET Ranks]
      /\ last \in [Sources -> Ranks \cup {Empty}]
  BY DEF UdpInv, TypeOK, Stacks
<1>6. /\ delivered' \in [Sources -> SUBSET Ranks]
      /\ last' \in [Sources -> Ranks \cup {Empty}]
  <2>1. CASE stack[n] = Empty
    BY <2>1, <1>5 DEF HandleStack
  <2>2. CASE stack[n] # Empty
    <3>1. stack[n] \in Ranks
      BY <2>2 DEF Stacks
    <3> QED
      BY <2>2, <3>1, <1>5 DEF HandleStack
  <2> QED
    BY <2>1, <2>2
<1> HIDE DEF left, size
<1>7. /\ stacks' \in [Sources -> Stacks] /\ stacks'[s] = left
      /\ counter' \in [Sources -> 0..Modulus] /\ counter'[s] = size
      /\ \A t \in Sources \ {s} : stacks'[t] = stacks[t] /\ counter'[t] = counter[t]
  BY <1>1, <1>2, <1>3, <1>4, <1>5
<1> QED
  BY <1>2, <1>6, <1>7 DEF left, size

\* The new size of the stack, alone: one less when the slot was in use.
LEMMA HandleStackSize ==
  ASSUME UdpInv, NEW s \in Sources, NEW stack \in Stacks, NEW n \in Counters,
         HandleStack(s, stack, Cardinality(Filled(stack)), n)
  PROVE  counter'[s] = IF stack[n] = Empty THEN Cardinality(Filled(stack))
                                           ELSE Cardinality(Filled(stack)) - 1
<1>1. counter \in [Sources -> 0..Modulus]
  BY DEF UdpInv, TypeOK
<1>2. counter' = [counter EXCEPT ![s] = IF stack[n] = Empty THEN Cardinality(Filled(stack))
                                        ELSE Cardinality(Filled(stack)) - 1]
  BY DEF HandleStack
<1> QED
  BY <1>1, <1>2

LEMMA ReceiveAgainKeeps ==
  ASSUME UdpInv, ReceiveAgain
  PROVE  UdpInv'
<1>0. stackedIp \in Sources /\ udpCounters[stackedIp] \in Counters
  BY DEF UdpInv, StackedIsKnown, ReceiveAgain
<1> PICK s \in Sources, n \in Counters : s = stackedIp /\ n = udpCounters[s]
  BY <1>0
<1>1. s = stackedIp /\ n = udpCounters[s] /\ pc = "again" /\ UNCHANGED netVars
  BY DEF ReceiveAgain
<1>2. stacks[s] \in Stacks /\ counter[s] = Cardinality(Filled(stacks[s]))
  BY <1>1 DEF UdpInv, TypeOK, Stacks, CounterIsStackSize, Filled
<1> PICK stack \in Stacks : stack = stacks[s]
  BY <1>2
<1>3. HandleStack(s, stack, Cardinality(Filled(stack)), n)
  BY <1>1, <1>2 DEF ReceiveAgain
<1>4. /\ stacks' \in [Sources -> Stacks]
      /\ counter' \in [Sources -> 0..Modulus]
      /\ delivered' \in [Sources -> SUBSET Ranks]
      /\ last' \in [Sources -> Ranks \cup {Empty}]
      /\ \A t \in Sources \ {s} : stacks'[t] = stacks[t] /\ counter'[t] = counter[t]
      /\ counter'[s] = Cardinality(Filled(stacks'[s]))
  <2>1. stacks' \in [Sources -> Stacks] /\ counter' \in [Sources -> 0..Modulus]
    BY <1>3, HandleStackCounts
  <2>2. delivered' \in [Sources -> SUBSET Ranks] /\ last' \in [Sources -> Ranks \cup {Empty}]
    BY <1>3, HandleStackCounts
  <2>3. \A t \in Sources \ {s} : stacks'[t] = stacks[t] /\ counter'[t] = counter[t]
    BY <1>3, HandleStackCounts
  <2>4. counter'[s] = Cardinality(Filled(stacks'[s]))
    BY <1>3, HandleStackCounts
  <2> QED
    BY <2>1, <2>2, <2>3, <2>4
<1>5. counter'[s] <= MaxStack
  <2>1. counter[s] \in Nat /\ MaxStack \in Nat
    BY <1>1, BoundsAssumption DEF UdpInv, TypeOK
  <2>2. counter[s] <= MaxStack \/ (counter[s] <= MaxStack + 1 /\ stacks[s][n] # Empty)
    BY <1>1 DEF UdpInv, OneTooManyAtMost
  <2>3. /\ stack[n] = Empty => counter'[s] = Cardinality(Filled(stack))
        /\ stack[n] # Empty => counter'[s] = Cardinality(Filled(stack)) - 1
    <3>1. counter'[s] = IF stack[n] = Empty THEN Cardinality(Filled(stack))
                                            ELSE Cardinality(Filled(stack)) - 1
      BY <1>3, HandleStackSize
    <3> QED
      BY <3>1
  <2>4. CASE stacks[s][n] = Empty
    <3>1. counter[s] <= MaxStack
      BY <2>2, <2>4
    <3>2. counter'[s] = counter[s]
      BY <1>2, <2>3, <2>4
    <3> QED
      BY <3>1, <3>2
  <2>5. CASE stacks[s][n] # Empty
    <3>1. counter'[s] = counter[s] - 1
      BY <1>2, <2>3, <2>5
    <3> QED
      BY <2>1, <2>2, <3>1
  <2> QED
    BY <2>4, <2>5
<1>6. /\ udpCounters' \in [Sources -> Counters \cup {Empty}]
      /\ udpCounters'[s] \in Counters
      /\ \A t \in Sources \ {s} : udpCounters'[t] = udpCounters[t]
      /\ \/ pc' = "wait" /\ stackedIp' = NoSource
         \/ pc' = "again" /\ stackedIp' = s
  <2>1. udpCounters \in [Sources -> Counters \cup {Empty}]
    BY DEF UdpInv, TypeOK
  <2>2. Succ(n) \in Counters
    BY <1>1, CounterFacts
  <2>3. CASE MoreAfter(stacks[s], n)
    <3>1. UNCHANGED <<pc, stackedIp>> /\ udpCounters' = [udpCounters EXCEPT ![s] = Succ(n)]
      BY <1>1, <2>3 DEF ReceiveAgain
    <3> QED
      BY <1>1, <2>1, <2>2, <3>1
  <2>4. CASE ~MoreAfter(stacks[s], n)
    BY <1>1, <2>1, <2>4 DEF ReceiveAgain
  <2> QED
    BY <2>3, <2>4
<1>7. TypeOK'
  BY <1>1, <1>4, <1>6 DEF UdpInv, TypeOK, netVars, Stacks
<1>8. pc = "again" => stackedIp = s
  BY <1>1
<1>9. udpCounters'[s] = Empty => Filled(stacks'[s]) = {}
  BY <1>6, CounterFacts
<1>10. \A t \in Sources \ {s} : /\ stacks'[t] = stacks[t]
                                /\ counter'[t] = counter[t]
                                /\ udpCounters'[t] = udpCounters[t]
  BY <1>4, <1>6
<1>11. counter'[s] = Cardinality(Filled(stacks'[s]))
  BY <1>4
<1>12. \/ pc' = "wait" /\ stackedIp' = NoSource /\ counter'[s] <= MaxStack
       \/ /\ pc' = "again" /\ stackedIp' = s /\ udpCounters'[s] \in Counters
          /\ \/ counter'[s] <= MaxStack
             \/ counter'[s] <= MaxStack + 1 /\ stacks'[s][udpCounters'[s]] # Empty
  BY <1>5, <1>6
<1> QED
  BY <1>7, <1>8, <1>9, <1>10, <1>11, <1>12, OneSourceKeeps

\* What is known of a datagram that arrives, once it is in its slot.
LEMMA ArrivedIsStacked ==
  ASSUME UdpInv, NEW s \in Sources, NEW k \in network[s], pc = "wait"
  PROVE  /\ k \in Ranks /\ k % Modulus \in Counters
         /\ Add(stacks[s], k) \in Stacks
         /\ \A m \in Counters : Add(stacks[s], k)[m] = IF m = k % Modulus THEN k ELSE stacks[s][m]
         /\ CountAfterAdd(s, k) = Cardinality(Filled(Add(stacks[s], k)))
         /\ CountAfterAdd(s, k) \in Nat /\ CountAfterAdd(s, k) <= MaxStack + 1
         /\ Expected(s, k) \in Counters
<1>1. k \in Ranks /\ k \in Nat /\ k % Modulus \in Counters
  BY CounterFacts DEF UdpInv, TypeOK
<1>2. stacks[s] \in Stacks /\ counter[s] = Cardinality(Filled(stacks[s]))
  BY DEF UdpInv, TypeOK, CounterIsStackSize, Filled, Stacks
<1>3. counter[s] \in Nat /\ counter[s] <= MaxStack /\ MaxStack \in Nat
  BY BoundsAssumption DEF UdpInv, TypeOK, OneTooManyAtMost
<1>4. /\ Add(stacks[s], k) \in Stacks
      /\ \A m \in Counters : Add(stacks[s], k)[m] = IF m = k % Modulus THEN k ELSE stacks[s][m]
  BY <1>1, <1>2 DEF Add, Stacks
<1>5. CountAfterAdd(s, k) = Cardinality(Filled(Add(stacks[s], k)))
  <2> PICK stack \in Stacks, n \in Counters : stack = stacks[s] /\ n = k % Modulus
    BY <1>1, <1>2
  <2>1. Cardinality(Filled([stack EXCEPT ![n] = k])) =
          IF stack[n] = Empty THEN Cardinality(Filled(stack)) + 1 ELSE Cardinality(Filled(stack))
    BY <1>1, FillSlot
  <2> QED
    BY <1>2, <2>1 DEF CountAfterAdd, Add
<1>6. CountAfterAdd(s, k) \in Nat /\ CountAfterAdd(s, k) <= MaxStack + 1
  BY <1>3 DEF CountAfterAdd
<1>7. Expected(s, k) \in Counters
  <2>1. udpCounters[s] \in Counters \cup {Empty}
    BY DEF UdpInv, TypeOK
  <2> QED
    BY <1>1, <2>1, CounterFacts DEF Expected
<1> QED
  BY <1>1, <1>4, <1>5, <1>6, <1>7

\* The end of receive: either the stack fits, or the next call finds the slot
\* of the counter filled.
LEMMA SettleLeaves ==
  ASSUME UdpInv, NEW s \in Sources, NEW nb \in Counters, NEW n \in Counters,
         NEW stack \in Stacks, Settle(s, nb, n, stack, Cardinality(Filled(stack)))
  PROVE  /\ udpCounters' \in [Sources -> Counters \cup {Empty}]
         /\ \A t \in Sources \ {s} : udpCounters'[t] = udpCounters[t]
         /\ udpCounters'[s] \in Counters
         /\ \/ /\ pc' = "wait" /\ stackedIp' = NoSource
               /\ Cardinality(Filled(stack)) <= MaxStack
            \/ /\ pc' = "again" /\ stackedIp' = s
               /\ stack[udpCounters'[s]] # Empty
<1>1. udpCounters \in [Sources -> Counters \cup {Empty}]
  BY DEF UdpInv, TypeOK
<1>2. Cardinality(Filled(stack)) \in Nat /\ MaxStack \in Nat
  BY FilledFinite, CounterFacts, BoundsAssumption
<1>3. CASE ~TooMany(Cardinality(Filled(stack)))
  <2>1. /\ pc' = "wait" /\ stackedIp' = NoSource
        /\ udpCounters' = [udpCounters EXCEPT ![s] = nb]
    BY <1>3 DEF Settle
  <2>2. Cardinality(Filled(stack)) <= MaxStack
    BY <1>2, <1>3 DEF TooMany
  <2> QED
    BY <1>1, <2>1, <2>2
<1>4. CASE TooMany(Cardinality(Filled(stack)))
  <2>1. /\ pc' = "again" /\ stackedIp' = s
        /\ udpCounters' = [udpCounters EXCEPT ![s] = FirstStacked(stack, Succ(n))]
    BY <1>4 DEF Settle
  <2>2. Filled(stack) # {}
    BY <1>2, <1>4, FS_EmptySet DEF TooMany
  <2>3. Succ(n) \in Counters
    BY CounterFacts
  <2>4. FirstStacked(stack, Succ(n)) \in Counters /\ stack[FirstStacked(stack, Succ(n))] # Empty
    BY <2>2, <2>3, SearchFinds
  <2> QED
    BY <1>1, <2>1, <2>4
<1> QED
  BY <1>3, <1>4

LEMMA ReceiveKeeps ==
  ASSUME UdpInv, NEW s \in Sources, NEW k \in network[s], Receive(s, k)
  PROVE  UdpInv'
<1>1. pc = "wait" /\ Arrive(s, k)
  BY DEF Receive
<1> PICK stack \in Stacks, n \in Counters : stack = Add(stacks[s], k) /\ n = Expected(s, k)
  BY <1>1, ArrivedIsStacked
<1> DEFINE size == Cardinality(Filled(stack))
<1>2. /\ size \in Nat /\ size <= MaxStack + 1 /\ MaxStack \in Nat
      /\ CountAfterAdd(s, k) = size
  BY <1>1, ArrivedIsStacked, BoundsAssumption
<1>3. /\ k \in Ranks /\ k % Modulus \in Counters
      /\ \A m \in Counters : stack[m] = IF m = k % Modulus THEN k ELSE stacks[s][m]
  BY <1>1, ArrivedIsStacked
<1>4. /\ network' \in [Sources -> SUBSET Ranks]
      /\ received' \in [Sources -> SUBSET Ranks]
      /\ duplicated' \in 0..Duplicates
      /\ UNCHANGED <<sent, lost>>
  BY <1>1, <1>3, BoundsAssumption DEF UdpInv, TypeOK, Arrive
\* A source that was not known has only the new datagram, in the slot expected.
<1>5. udpCounters[s] = Empty =>
        n = k % Modulus /\ \A m \in Counters \ {n} : stack[m] = Empty
  <2> SUFFICES ASSUME udpCounters[s] = Empty
               PROVE  n = k % Modulus /\ \A m \in Counters \ {n} : stack[m] = Empty
    OBVIOUS
  <2>1. n = k % Modulus
    BY DEF Expected
  <2>2. \A m \in Counters : stacks[s][m] = Empty
    BY DEF UdpInv, UnknownHasNothing, Filled
  <2> QED
    BY <1>3, <2>1, <2>2
<1>6. udpCounters \in [Sources -> Counters \cup {Empty}]
  BY DEF UdpInv, TypeOK
<1>7. ASSUME stack[n] # Empty, DeliverExpected(s, n, stack, size)
      PROVE  /\ stacks' \in [Sources -> Stacks] /\ counter' \in [Sources -> 0..Modulus]
             /\ delivered' \in [Sources -> SUBSET Ranks] /\ last' \in [Sources -> Ranks \cup {Empty}]
             /\ \A t \in Sources \ {s} : stacks'[t] = stacks[t] /\ counter'[t] = counter[t]
             /\ counter'[s] = Cardinality(Filled(stacks'[s]))
             /\ counter'[s] <= MaxStack
             /\ udpCounters' \in [Sources -> Counters \cup {Empty}]
             /\ udpCounters'[s] \in Counters
             /\ \A t \in Sources \ {s} : udpCounters'[t] = udpCounters[t]
             /\ \/ pc' = "wait" /\ stackedIp' = NoSource
                \/ pc' = "again" /\ stackedIp' = s
  <2>1. HandleStack(s, stack, Cardinality(Filled(stack)), n)
    BY <1>7 DEF DeliverExpected
  <2>2. stacks' \in [Sources -> Stacks] /\ counter' \in [Sources -> 0..Modulus]
    BY <2>1, HandleStackCounts
  <2>3. delivered' \in [Sources -> SUBSET Ranks] /\ last' \in [Sources -> Ranks \cup {Empty}]
    BY <2>1, HandleStackCounts
  <2>4. \A t \in Sources \ {s} : stacks'[t] = stacks[t] /\ counter'[t] = counter[t]
    BY <2>1, HandleStackCounts
  <2>5. counter'[s] = Cardinality(Filled(stacks'[s]))
    BY <2>1, HandleStackCounts
  <2>6. counter'[s] = size - 1
    <3>1. /\ stack[n] = Empty => counter'[s] = Cardinality(Filled(stack))
          /\ stack[n] # Empty => counter'[s] = Cardinality(Filled(stack)) - 1
      BY <2>1, HandleStackCounts, ZenonT(30)
    <3> QED
      BY <1>7, <3>1
  <2>7. counter'[s] <= MaxStack
    BY <1>2, <2>6
  <2>8. /\ udpCounters' \in [Sources -> Counters \cup {Empty}]
        /\ udpCounters'[s] \in Counters
        /\ \A t \in Sources \ {s} : udpCounters'[t] = udpCounters[t]
        /\ \/ pc' = "wait" /\ stackedIp' = NoSource
           \/ pc' = "again" /\ stackedIp' = s
    <3>1. CASE MoreAfter(stack, n)
      <4>1. pc' = "again" /\ stackedIp' = s /\ UNCHANGED udpCounters
        BY <1>7, <3>1 DEF DeliverExpected
      <4>2. stack[Succ(n)] # Empty /\ Succ(n) \in Counters \ {n}
        BY <3>1, CounterFacts DEF MoreAfter, Stacks
      <4>3. udpCounters[s] # Empty
        BY <1>5, <4>2
      <4> QED
        BY <1>6, <4>1, <4>3
    <3>2. CASE ~MoreAfter(stack, n)
      <4> PICK left \in Stacks : left = [stack EXCEPT ![n] = Empty]
        BY DEF Stacks
      <4>1. Settle(s, n, n, left, size - 1)
        BY <1>7, <3>2 DEF DeliverExpected
      <4>2. Cardinality(Filled(left)) = size - 1
        BY <1>7, ClearSlot
      <4>3. Settle(s, n, n, left, Cardinality(Filled(left)))
        BY <4>1, <4>2
      <4>4. /\ udpCounters' \in [Sources -> Counters \cup {Empty}]
            /\ \A t \in Sources \ {s} : udpCounters'[t] = udpCounters[t]
        BY <4>3, SettleLeaves
      <4>5. /\ udpCounters'[s] \in Counters
            /\ \/ pc' = "wait" /\ stackedIp' = NoSource
               \/ pc' = "again" /\ stackedIp' = s
        BY <4>3, SettleLeaves
      <4> QED
        BY <4>4, <4>5
    <3> QED
      BY <3>1, <3>2
  <2> QED
    BY <2>2, <2>3, <2>4, <2>5, <2>7, <2>8
<1>8. ASSUME stack[n] = Empty, KeepEarly(s, n, stack, size)
      PROVE  /\ stacks' \in [Sources -> Stacks] /\ counter' \in [Sources -> 0..Modulus]
             /\ UNCHANGED <<delivered, last>>
             /\ \A t \in Sources \ {s} : stacks'[t] = stacks[t] /\ counter'[t] = counter[t]
             /\ stacks'[s] = stack /\ counter'[s] = size
             /\ udpCounters' \in [Sources -> Counters \cup {Empty}]
             /\ \A t \in Sources \ {s} : udpCounters'[t] = udpCounters[t]
             /\ udpCounters'[s] \in Counters
             /\ \/ pc' = "wait" /\ stackedIp' = NoSource /\ size <= MaxStack
                \/ pc' = "again" /\ stackedIp' = s /\ stack[udpCounters'[s]] # Empty
  <2>1. /\ stacks' = [stacks EXCEPT ![s] = stack] /\ counter' = [counter EXCEPT ![s] = size]
        /\ UNCHANGED <<delivered, last>>
    BY <1>8 DEF KeepEarly
  <2>2. size \in 0..Modulus
    BY FilledFinite
  <2>3. /\ stacks' \in [Sources -> Stacks] /\ counter' \in [Sources -> 0..Modulus]
        /\ \A t \in Sources \ {s} : stacks'[t] = stacks[t] /\ counter'[t] = counter[t]
        /\ stacks'[s] = stack /\ counter'[s] = size
    <3>1. stacks \in [Sources -> Stacks] /\ counter \in [Sources -> 0..Modulus]
      BY DEF UdpInv, TypeOK, Stacks
    <3> HIDE DEF size
    <3> QED
      BY <2>1, <2>2, <3>1
  <2>4. udpCounters[s] # Empty
    BY <1>3, <1>5, <1>8, CounterFacts
  <2> PICK nb \in Counters : nb = udpCounters[s]
    BY <1>6, <2>4
  <2>5. Settle(s, nb, n, stack, Cardinality(Filled(stack)))
    BY <1>8 DEF KeepEarly
  <2>6. /\ udpCounters' \in [Sources -> Counters \cup {Empty}]
        /\ \A t \in Sources \ {s} : udpCounters'[t] = udpCounters[t]
        /\ udpCounters'[s] \in Counters
    BY <2>5, SettleLeaves
  <2>7. \/ pc' = "wait" /\ stackedIp' = NoSource /\ size <= MaxStack
        \/ pc' = "again" /\ stackedIp' = s /\ stack[udpCounters'[s]] # Empty
    BY <2>5, SettleLeaves
  <2> QED
    BY <2>1, <2>3, <2>6, <2>7
<1>9. \/ stack[n] # Empty /\ DeliverExpected(s, n, stack, size)
      \/ stack[n] = Empty /\ KeepEarly(s, n, stack, size)
  BY <1>2 DEF Receive
<1>10. /\ stacks' \in [Sources -> Stacks] /\ counter' \in [Sources -> 0..Modulus]
       /\ delivered' \in [Sources -> SUBSET Ranks] /\ last' \in [Sources -> Ranks \cup {Empty}]
       /\ udpCounters' \in [Sources -> Counters \cup {Empty}]
       /\ stackedIp' \in Sources \cup {NoSource} /\ pc' \in {"wait", "again"}
  <2>1. delivered \in [Sources -> SUBSET Ranks] /\ last \in [Sources -> Ranks \cup {Empty}]
    BY DEF UdpInv, TypeOK
  <2> QED
    BY <1>7, <1>8, <1>9, <2>1
<1>11. TypeOK'
  BY <1>4, <1>10 DEF UdpInv, TypeOK, Stacks
<1>12. \A t \in Sources \ {s} : /\ stacks'[t] = stacks[t]
                                /\ counter'[t] = counter[t]
                                /\ udpCounters'[t] = udpCounters[t]
  BY <1>7, <1>8, <1>9
<1>13. counter'[s] = Cardinality(Filled(stacks'[s])) /\ udpCounters'[s] \in Counters
  BY <1>7, <1>8, <1>9
<1>14. \/ pc' = "wait" /\ stackedIp' = NoSource /\ counter'[s] <= MaxStack
       \/ /\ pc' = "again" /\ stackedIp' = s /\ udpCounters'[s] \in Counters
          /\ \/ counter'[s] <= MaxStack
             \/ counter'[s] <= MaxStack + 1 /\ stacks'[s][udpCounters'[s]] # Empty
  BY <1>2, <1>7, <1>8, <1>9
<1>15. udpCounters'[s] = Empty => Filled(stacks'[s]) = {}
  BY <1>13, CounterFacts
<1>16. pc = "again" => stackedIp = s
  BY <1>1
<1>17. counter'[s] = Cardinality(Filled(stacks'[s]))
  BY <1>13
<1> QED
  BY <1>11, <1>12, <1>14, <1>15, <1>16, <1>17, OneSourceKeeps

\* Every step keeps the invariant.
LEMMA UdpStep ==
  ASSUME UdpInv, [Next]_vars
  PROVE  UdpInv'
<1>1. CASE \E s \in Sources : Send(s)
  BY <1>1, SendKeeps
<1>2. CASE \E s \in Sources : \E k \in network[s] : Lose(s, k)
  BY <1>2, LoseKeeps
<1>3. CASE \E s \in Sources : \E k \in network[s] : Receive(s, k)
  BY <1>3, ReceiveKeeps
<1>4. CASE ReceiveAgain
  BY <1>4, ReceiveAgainKeeps
<1>5. CASE UNCHANGED vars
  <2>1. TypeOK' /\ UNCHANGED rcvVars
    BY <1>5 DEF UdpInv, TypeOK, vars, rcvVars
  <2> QED
    BY <2>1, ReceiverKept
<1> QED
  BY <1>1, <1>2, <1>3, <1>4, <1>5 DEF Next

\* UdpInv holds in every state: it is inductive.
THEOREM UdpInvariant == Spec => []UdpInv
<1>1. Init => UdpInv
  BY InitUdpInv
<1>2. UdpInv /\ [Next]_vars => UdpInv'
  BY UdpStep
<1> QED
  BY <1>1, <1>2, PTL DEF Spec

\* Every variable of the channel and of the network keeps its type.
THEOREM UdpTypeOK == Spec => []TypeOK
<1>1. UdpInv => TypeOK
  BY DEF UdpInv
<1> QED
  BY <1>1, UdpInvariant, PTL

\* UdpStack: the counter that receive compares with max_stack is the number of
\* datagrams in the stack, whatever was lost, duplicated, reordered or erased.
THEOREM CounterAgrees == Spec => []CounterIsStackSize
<1>1. UdpInv => CounterIsStackSize
  BY DEF UdpInv
<1> QED
  BY <1>1, UdpInvariant, PTL

\* receive never returns 0 with more than max_stack datagrams stacked, nor with
\* a source still to be served.
THEOREM StackBounded == Spec => []StackStaysBounded
<1>1. UdpInv => StackStaysBounded
  BY DEF UdpInv, StackedIsKnown, OneTooManyAtMost, StackStaysBounded
<1> QED
  BY <1>1, UdpInvariant, PTL
-----------------------------------------------------------------------------
(* Ranks modulo Modulus. *)

\* Quotient and remainder.
LEMMA ModSplit ==
  ASSUME NEW k \in Nat
  PROVE  /\ k = (k \div Modulus) * Modulus + (k % Modulus)
         /\ k % Modulus \in 0..(Modulus - 1) /\ k \div Modulus \in Int
<1>1. k = (k \div Modulus) * Modulus + (k % Modulus)
  BY ModulusAssumption
<1>2. k % Modulus \in 0..(Modulus - 1)
  BY ModulusAssumption
<1>3. k \div Modulus \in Int
  BY ModulusAssumption
<1> QED
  BY <1>1, <1>2, <1>3

\* Different multiples of Modulus are that far apart.
LEMMA Multiples ==
  ASSUME NEW a \in Int, NEW b \in Int
  PROVE  /\ (b - a) * Modulus = b * Modulus - a * Modulus
         /\ (b + a) * Modulus = b * Modulus + a * Modulus
         /\ a * Modulus \in Int /\ b * Modulus \in Int
         /\ a > b => a * Modulus >= b * Modulus + Modulus
<1>1. (b - a) * Modulus = b * Modulus - a * Modulus
  BY ModulusAssumption
<1>2. (b + a) * Modulus = b * Modulus + a * Modulus
  BY ModulusAssumption
<1>3. a * Modulus \in Int /\ b * Modulus \in Int
  BY ModulusAssumption
<1>4. ASSUME a > b PROVE a * Modulus >= b * Modulus + Modulus
  <2> DEFINE c == a - b - 1
  <2>1. c \in Nat
    BY <1>4
  <2> HIDE DEF c
  <2>2. c * Modulus \in Nat
    BY <2>1, ModulusAssumption
  <2>3. a = b + (c + 1)
    BY <2>1 DEF c
  <2>4. (b + (c + 1)) * Modulus = b * Modulus + (c * Modulus + Modulus)
    BY <2>1, ModulusAssumption
  <2> QED
    BY <1>3, <2>2, <2>3, <2>4, ModulusAssumption
<1> QED
  BY <1>1, <1>2, <1>3, <1>4

\* Ranks less than Modulus apart have slots of their own.
LEMMA ModDistinct ==
  ASSUME NEW r \in Nat, NEW q \in Nat, r < q, q - r < Modulus
  PROVE  r % Modulus # q % Modulus
<1> DEFINE a == r \div Modulus
           b == q \div Modulus
           x == r % Modulus
           y == q % Modulus
<1>1. r = a * Modulus + x /\ q = b * Modulus + y /\ a \in Int /\ b \in Int /\ x \in Int /\ y \in Int
  BY ModSplit, ModulusAssumption
<1> HIDE DEF a, b, x, y
<1>2. /\ a * Modulus \in Int /\ b * Modulus \in Int
      /\ b > a => b * Modulus >= a * Modulus + Modulus
      /\ a > b => a * Modulus >= b * Modulus + Modulus
  BY <1>1, Multiples
<1>3. x # y
  BY <1>1, <1>2, ModulusAssumption
<1> QED
  BY <1>3 DEF x, y

\* There is one remainder.
LEMMA ModUnique ==
  ASSUME NEW c \in Int, NEW w \in 0..(Modulus - 1), NEW v \in Nat, v = c * Modulus + w
  PROVE  v % Modulus = w
<1> DEFINE b == v \div Modulus
           x == v % Modulus
<1>1. v = b * Modulus + x /\ b \in Int /\ x \in 0..(Modulus - 1)
  BY ModSplit
<1> HIDE DEF b, x
<1>2. /\ b * Modulus \in Int /\ c * Modulus \in Int
      /\ b > c => b * Modulus >= c * Modulus + Modulus
      /\ c > b => c * Modulus >= b * Modulus + Modulus
  BY <1>1, Multiples
<1>3. x = w
  BY <1>1, <1>2, ModulusAssumption
<1> QED
  BY <1>3 DEF x

\* The slot some places after the one of a rank.
LEMMA ModAdd ==
  ASSUME NEW k \in Nat, NEW d \in Nat
  PROVE  ((k % Modulus) + d) % Modulus = (k + d) % Modulus
<1> DEFINE x == k % Modulus
           a == k \div Modulus
           z == x + d
           b == z \div Modulus
           w == z % Modulus
<1>1. k = a * Modulus + x /\ x \in 0..(Modulus - 1) /\ a \in Int
  BY ModSplit
<1> HIDE DEF x, a
<1>2. z \in Nat
  BY <1>1, ModulusAssumption
<1>3. z = b * Modulus + w /\ w \in 0..(Modulus - 1) /\ b \in Int
  BY <1>2, ModSplit
<1>0. z = x + d
  OBVIOUS
<1> HIDE DEF z, b, w
<1>4. /\ (b + a) * Modulus = b * Modulus + a * Modulus
      /\ a * Modulus \in Int /\ b * Modulus \in Int /\ b + a \in Int
  BY <1>1, <1>3, Multiples
<1>5. k + d = (b + a) * Modulus + w
  BY <1>0, <1>1, <1>3, <1>4, ModulusAssumption
<1>6. (k + d) % Modulus = w
  BY <1>3, <1>4, <1>5, ModUnique
<1> QED
  BY <1>0, <1>6 DEF w, x, z

-----------------------------------------------------------------------------
(* The order of the datagrams.  What the network may do at most: a datagram *)
(* is not overtaken by more others than the stack holds, nor by the first   *)
(* one received; and all that may be stacked, lost or in flight at once has *)
(* slots of its own.                                                        *)

Tolerated ==
  /\ Overtakes <= MaxStack /\ ~FirstMayLag
  /\ 1 <= Window /\ MaxStack + Losses + Window + 3 <= Modulus

\* The datagrams of a stack.
Stacked(stack) == {stack[n] : n \in Filled(stack)}

\* Those of ranks that overtook j.
Overtook(ranks, j) == {i \in ranks : i > j}

Missing(s) == {r \in 0..(sent[s] - 1) : r \notin network[s] \cup received[s]}

\* The network keeps its bounds.
NetworkKept(s) ==
  /\ network[s] \cup received[s] \subseteq 0..(sent[s] - 1)
  /\ network[s] \cap received[s] = {}
  /\ \A j \in network[s] : sent[s] - j <= Window
  /\ \A j \in network[s] : Cardinality(Overtook(received[s], j)) <= Overtakes
  /\ Cardinality(Missing(s)) <= lost

\* What was received is delivered, up to the last one, or stacked, after it; and
\* what is in flight comes after the last one delivered.
StackKept(s) ==
  /\ \A n \in Filled(stacks[s]) : stacks[s][n] % Modulus = n
  /\ Stacked(stacks[s]) \subseteq received[s]
  /\ received[s] \subseteq delivered[s] \cup Stacked(stacks[s])
  /\ \A r \in delivered[s] : r <= last[s]
  /\ \A r \in Stacked(stacks[s]) : r > last[s]
  /\ \A j \in network[s] : j > last[s]
  /\ udpCounters[s] = Empty => received[s] = {} /\ last[s] = Empty
  /\ udpCounters[s] # Empty => last[s] \in received[s]

\* udp_counters is the counter of the last one delivered, or of the one before:
\* when receive returns early, it is not updated.
CounterFollows(s) ==
  \/ udpCounters[s] = last[s] % Modulus
  \/ last[s] > 0 /\ udpCounters[s] = (last[s] - 1) % Modulus

\* Or those missing were given up, and it is the counter of the first of the
\* stack, which goes up next: nothing in flight comes before it.
GivenUp(s) ==
  /\ pc = "again" /\ stackedIp = s
  /\ stacks[s][udpCounters[s]] # Empty
  /\ \A r \in Stacked(stacks[s]) : stacks[s][udpCounters[s]] <= r
  /\ \A j \in network[s] : stacks[s][udpCounters[s]] < j

CounterKept(s) == udpCounters[s] # Empty => CounterFollows(s) \/ GivenUp(s)

SourceKept(s) == NetworkKept(s) /\ StackKept(s) /\ CounterKept(s)

\* The inductive invariant: duplicates may undo it.
UdpOrderInv == UdpInv /\ (duplicated = 0 => \A s \in Sources : SourceKept(s))

-----------------------------------------------------------------------------
(* Slots. *)

\* All that a stack holds is in its slot, after rank l and close to it.
Holds(stack, l) ==
  /\ stack \in Stacks
  /\ \A n \in Filled(stack) : /\ stack[n] % Modulus = n /\ stack[n] \in Nat
                              /\ l < stack[n] /\ stack[n] <= l + Modulus - 2

LEMMA StackedInSlot ==
  ASSUME NEW stack \in Stacks, NEW r
  PROVE  r \in Stacked(stack) <=> \E n \in Counters : stack[n] = r /\ r # Empty
BY DEF Stacked, Filled

\* Just before or after rank l, only the rank after it may be found.
LEMMA SlotHolds ==
  ASSUME NEW stack, NEW l \in Nat, Holds(stack, l), NEW e \in Nat, l <= e + 1, e <= l + 1,
         stack[e % Modulus] # Empty
  PROVE  stack[e % Modulus] = e /\ e = l + 1
<1> DEFINE n == e % Modulus
           r == stack[n]
<1>1. n \in Filled(stack)
  BY CounterFacts DEF Filled
<1>2. r % Modulus = n /\ r \in Nat /\ l < r /\ r <= l + Modulus - 2
  BY <1>1 DEF Holds
<1>3. e <= r /\ r - e < Modulus
  <2> HIDE DEF r
  <2> QED
    BY <1>2, ModulusAssumption
<1>4. ~(e < r)
  <2>1. r % Modulus = e % Modulus
    BY <1>2
  <2> HIDE DEF r
  <2> QED
    BY <1>2, <1>3, <2>1, ModDistinct
<1>5. r = e /\ e = l + 1
  <2> HIDE DEF r
  <2> QED
    BY <1>2, <1>3, <1>4
<1> QED
  BY <1>5

\* The search goes up from its first slot.
LEMMA SearchFirst ==
  ASSUME NEW stack, NEW n \in Counters, NEW d \in Counters,
         stack[(n + d) % Modulus] # Empty,
         \A e \in 0..(d - 1) : stack[(n + e) % Modulus] = Empty
  PROVE  FirstStacked(stack, n) = (n + d) % Modulus
<1> DEFINE first == CHOOSE x \in Counters : /\ stack[(n + x) % Modulus] # Empty
                                            /\ \A e \in 0..(x - 1) : stack[(n + e) % Modulus] = Empty
<1>1. /\ first \in Counters /\ stack[(n + first) % Modulus] # Empty
      /\ \A e \in 0..(first - 1) : stack[(n + e) % Modulus] = Empty
  OBVIOUS
<1>2. FirstStacked(stack, n) = (n + first) % Modulus
  BY DEF FirstStacked
<1> HIDE DEF first
<1>3. first \in Nat /\ d \in Nat
  BY <1>1, CounterFacts
<1>4. ~(first < d) /\ ~(d < first)
  <2>1. first < d => first \in 0..(d - 1)
    BY <1>3
  <2>2. d < first => d \in 0..(first - 1)
    BY <1>3
  <2> QED
    BY <1>1, <2>1, <2>2
<1>5. first = d
  BY <1>3, <1>4
<1> QED
  BY <1>2, <1>5

\* After a rank with an empty slot, it finds the first one stacked.
LEMMA SearchFindsLeast ==
  ASSUME NEW stack, NEW l \in Nat, Holds(stack, l), NEW e \in Nat, l <= e, e <= l + 1,
         stack[e % Modulus] = Empty, NEW f \in Stacked(stack), \A r \in Stacked(stack) : f <= r
  PROVE  FirstStacked(stack, Succ(e % Modulus)) = f % Modulus /\ stack[f % Modulus] = f
<1>1. stack \in Stacks
  BY DEF Holds
<1>2. PICK m \in Filled(stack) : stack[m] = f
  BY DEF Stacked
<1>3. f % Modulus = m /\ f \in Nat /\ l < f /\ f <= l + Modulus - 2 /\ m \in Counters /\ f # Empty
  BY <1>2 DEF Holds, Filled
<1>4. f # e
  BY <1>2, <1>3
<1> DEFINE d == f - (e + 1)
           n == (e + 1) % Modulus
<1>5. d \in Counters /\ d \in Nat /\ e + 1 + d = f
  BY <1>3, <1>4, ModulusAssumption DEF Counters
<1>6. n \in Counters /\ Succ(e % Modulus) = n
  BY ModAdd, CounterFacts DEF Succ
<1>7. \A x \in Nat : (n + x) % Modulus = (e + 1 + x) % Modulus
  BY ModAdd
<1> HIDE DEF d, n
<1>8. (n + d) % Modulus = f % Modulus
  BY <1>5, <1>7
<1>9. \A x \in 0..(d - 1) : stack[(n + x) % Modulus] = Empty
  <2> SUFFICES ASSUME NEW x \in 0..(d - 1), stack[(n + x) % Modulus] # Empty PROVE FALSE
    OBVIOUS
  <2> DEFINE q == e + 1 + x
             g == stack[q % Modulus]
  <2>1. x \in Nat /\ q \in Nat /\ q < f /\ q > l
    BY <1>3, <1>5
  <2>2. q % Modulus \in Filled(stack) /\ (n + x) % Modulus = q % Modulus
    BY <1>7, <2>1, CounterFacts DEF Filled
  <2>3. g \in Nat /\ g % Modulus = q % Modulus /\ g <= l + Modulus - 2 /\ g \in Stacked(stack)
    BY <2>2 DEF Holds, Stacked
  <2> HIDE DEF q, g
  <2>4. q < g /\ g - q < Modulus
    BY <1>3, <2>1, <2>3, ModulusAssumption
  <2> QED
    BY <2>1, <2>3, <2>4, ModDistinct
<1>10. FirstStacked(stack, n) = (n + d) % Modulus
  BY <1>2, <1>3, <1>5, <1>6, <1>8, <1>9, SearchFirst
<1> QED
  BY <1>2, <1>3, <1>6, <1>8, <1>10

\* A stack holds as many datagrams as slots.
LEMMA StackedSize ==
  ASSUME NEW stack \in Stacks
  PROVE  /\ IsFiniteSet(Stacked(stack)) /\ Stacked(stack) \subseteq Nat
         /\ Cardinality(Stacked(stack)) <= Cardinality(Filled(stack))
         /\ (\A n \in Filled(stack) : stack[n] % Modulus = n)
              => Cardinality(Filled(stack)) <= Cardinality(Stacked(stack))
<1>1. IsFiniteSet(Filled(stack))
  BY FilledFinite
<1>2. [n \in Filled(stack) |-> stack[n]] \in Surjection(Filled(stack), Stacked(stack))
  BY DEF Surjection, Stacked
<1>3. IsFiniteSet(Stacked(stack)) /\ Cardinality(Stacked(stack)) <= Cardinality(Filled(stack))
  BY <1>1, <1>2, FS_Surjection
<1>4. ASSUME \A n \in Filled(stack) : stack[n] % Modulus = n
      PROVE  Cardinality(Filled(stack)) <= Cardinality(Stacked(stack))
  <2>1. [r \in Stacked(stack) |-> r % Modulus] \in Surjection(Stacked(stack), Filled(stack))
    BY <1>4 DEF Surjection, Stacked
  <2> QED
    BY <1>3, <2>1, FS_Surjection
<1>5. Stacked(stack) \subseteq Nat
  <2>1. \A n \in Filled(stack) : stack[n] \in Ranks
    BY DEF Filled, Stacks
  <2>2. \A n \in Filled(stack) : stack[n] \in Nat
    BY <2>1, CounterFacts
  <2> QED
    BY <2>2 DEF Stacked
<1> QED
  BY <1>3, <1>4, <1>5

\* More than max_stack datagrams are stacked: those in flight were overtaken by
\* fewer, so they all come after the first one stacked.
LEMMA GiveUp ==
  ASSUME Tolerated, NEW stack, NEW l \in Nat, Holds(stack, l), NEW e \in Nat, l <= e, e <= l + 1,
         stack[e % Modulus] = Empty, Cardinality(Filled(stack)) > MaxStack,
         NEW got, got \subseteq Nat, IsFiniteSet(got), Stacked(stack) \subseteq got,
         NEW flying, flying \subseteq Nat, flying \cap got = {},
         \A j \in flying : Cardinality(Overtook(got, j)) <= Overtakes
  PROVE  LET f == FirstStacked(stack, Succ(e % Modulus))
         IN  /\ f \in Counters /\ stack[f] # Empty
             /\ \A r \in Stacked(stack) : stack[f] <= r
             /\ \A j \in flying : stack[f] < j
<1>1. stack \in Stacks /\ \A n \in Filled(stack) : stack[n] % Modulus = n
  BY DEF Holds
<1>2. /\ IsFiniteSet(Stacked(stack)) /\ Stacked(stack) \subseteq Nat
      /\ Cardinality(Filled(stack)) <= Cardinality(Stacked(stack))
  BY <1>1, StackedSize
<1>3. Cardinality(Stacked(stack)) \in Nat /\ Cardinality(Filled(stack)) \in Nat /\ MaxStack \in Nat /\ Overtakes \in Nat
  BY <1>2, FilledFinite, FS_CardinalityType, BoundsAssumption
<1>4. Cardinality(Stacked(stack)) > MaxStack /\ Stacked(stack) # {}
  <2>1. Cardinality(Stacked(stack)) > MaxStack
    BY <1>2, <1>3
  <2>2. Cardinality(Stacked(stack)) # 0
    BY <1>3, <2>1
  <2> QED
    BY <2>1, <2>2, FS_EmptySet
<1>5. PICK g \in Stacked(stack) : \A r \in Stacked(stack) : g <= r
  BY <1>2, <1>4, LeastNatural
<1>6. FirstStacked(stack, Succ(e % Modulus)) = g % Modulus /\ stack[g % Modulus] = g
  BY <1>5, SearchFindsLeast
<1>7. g \in Nat /\ g # Empty /\ g % Modulus \in Counters
  BY <1>2, CounterFacts
<1>8. ASSUME NEW j \in flying
      PROVE  g < j
  <2> SUFFICES ASSUME ~(g < j) PROVE FALSE
    OBVIOUS
  <2>1. j \in Nat /\ g \in got /\ j # g
    BY <1>5
  <2>2. j < g
    BY <1>7, <2>1
  <2>3. \A r \in Stacked(stack) : r \in got /\ r > j
    <3> TAKE r \in Stacked(stack)
    <3>1. r \in Nat /\ g <= r
      BY <1>2, <1>5
    <3> QED
      BY <1>7, <2>1, <2>2, <3>1
  <2> DEFINE A == Overtook(got, j)
             B == Stacked(stack)
  <2>4. B \in SUBSET A /\ A \in SUBSET got
    BY <2>3 DEF Overtook
  <2>5. Cardinality(A) <= Overtakes /\ Overtakes <= MaxStack
    BY DEF Tolerated
  <2> HIDE DEF A, B
  <2>6. IsFiniteSet(A) /\ Cardinality(B) <= Cardinality(A) /\ Cardinality(A) \in Nat
    BY <2>4, FS_Subset, FS_CardinalityType
  <2> QED
    BY <1>3, <1>4, <2>5, <2>6 DEF B
<1> QED
  BY <1>5, <1>6, <1>7, <1>8

-----------------------------------------------------------------------------
(* What was sent and not delivered has slots of its own. *)

LEMMA SourceTyped ==
  ASSUME UdpInv, NEW s \in Sources
  PROVE  /\ sent[s] \in Nat /\ network[s] \subseteq Nat /\ received[s] \subseteq Nat
         /\ received[s] \subseteq Ranks /\ network[s] \subseteq Ranks
         /\ delivered[s] \subseteq Ranks
         /\ stacks[s] \in Stacks /\ last[s] \in Ranks \cup {Empty}
         /\ udpCounters[s] \in Counters \cup {Empty}
         /\ counter[s] = Cardinality(Filled(stacks[s])) /\ counter[s] <= MaxStack + 1
         /\ lost \in Nat /\ lost <= Losses /\ duplicated \in Nat
         /\ MaxStack \in Nat /\ Losses \in Nat /\ Window \in Nat /\ Overtakes \in Nat
<1>1. /\ MaxStack \in Nat /\ Losses \in Nat /\ Window \in Nat /\ Overtakes \in Nat
      /\ MaxSent \in Nat /\ Duplicates \in Nat
  BY BoundsAssumption
<1>2. /\ sent[s] \in 0..MaxSent /\ network[s] \subseteq Ranks /\ received[s] \subseteq Ranks
      /\ delivered[s] \subseteq Ranks
      /\ stacks[s] \in Stacks /\ last[s] \in Ranks \cup {Empty}
      /\ udpCounters[s] \in Counters \cup {Empty}
      /\ lost \in 0..Losses /\ duplicated \in 0..Duplicates /\ counter[s] \in 0..Modulus
  BY DEF UdpInv, TypeOK, Stacks
<1>3. counter[s] = Cardinality(Filled(stacks[s]))
  BY DEF UdpInv, CounterIsStackSize, Filled
<1>4. counter[s] <= MaxStack + 1
  <2>1. counter[s] <= MaxStack \/ counter[s] <= MaxStack + 1
    BY DEF UdpInv, OneTooManyAtMost
  <2> QED
    BY <1>1, <1>2, <2>1, CounterFacts
<1>5. sent[s] \in Nat /\ lost \in Nat /\ lost <= Losses /\ duplicated \in Nat
  BY <1>1, <1>2
<1>6. network[s] \subseteq Nat /\ received[s] \subseteq Nat
  BY <1>2, CounterFacts
<1> QED
  BY <1>1, <1>2, <1>3, <1>4, <1>5, <1>6

LEMMA RanksFinite == \A S \in SUBSET Ranks : IsFiniteSet(S) /\ Cardinality(S) \in Nat
<1>1. IsFiniteSet(Ranks)
  BY BoundsAssumption, FS_Interval DEF Ranks
<1> QED
  BY <1>1, FS_Subset, FS_CardinalityType

\* The size of a union.
LEMMA UnionSize ==
  ASSUME NEW A, NEW B, IsFiniteSet(A), IsFiniteSet(B)
  PROVE  IsFiniteSet(A \cup B) /\ Cardinality(A \cup B) <= Cardinality(A) + Cardinality(B)
<1>1. /\ IsFiniteSet(A \cup B)
      /\ Cardinality(A \cup B) = Cardinality(A) + Cardinality(B) - Cardinality(A \cap B)
  BY FS_Union
<1>2. A \cap B \in SUBSET A
  OBVIOUS
<1>3. Cardinality(A \cap B) \in Nat /\ Cardinality(A) \in Nat /\ Cardinality(B) \in Nat
  BY <1>2, FS_Subset, FS_CardinalityType
<1> QED
  BY <1>1, <1>3

\* All that was sent after the last one delivered is in flight, stacked or lost.
LEMMA Span ==
  ASSUME Tolerated, UdpInv, NEW s \in Sources, NetworkKept(s), StackKept(s), last[s] \in Nat,
         NEW r \in Nat, r < sent[s]
  PROVE  r <= last[s] + Modulus - 2
<1> DEFINE l == last[s]
           n == sent[s]
           N == network[s]
           D == Stacked(stacks[s])
           L == Missing(s)
           S == (l + 1)..(n - 1)
<1>1. l \in Nat /\ n \in Nat /\ MaxStack \in Nat /\ Losses \in Nat /\ Window \in Nat
  BY SourceTyped
<1>2. IsFiniteSet(D) /\ Cardinality(D) <= MaxStack + 1 /\ Cardinality(D) \in Nat
  <2>1. IsFiniteSet(D) /\ Cardinality(D) <= Cardinality(Filled(stacks[s]))
    BY SourceTyped, StackedSize
  <2>2. Cardinality(Filled(stacks[s])) <= MaxStack + 1
    BY SourceTyped
  <2>3. Cardinality(D) \in Nat /\ Cardinality(Filled(stacks[s])) \in Nat
    BY <2>1, FilledFinite, FS_CardinalityType
  <2> QED
    BY <1>1, <2>1, <2>2, <2>3
<1>3. IsFiniteSet(N) /\ Cardinality(N) <= Window /\ Cardinality(N) \in Nat
  <2> DEFINE I == (n - Window)..(n - 1)
  <2>1. \A j \in N : j \in Nat /\ j <= n - 1 /\ n - j <= Window
    BY SourceTyped DEF NetworkKept
  <2>2. \A j \in N : j \in I
    BY <1>1, <2>1
  <2>3. N \in SUBSET I
    BY <2>2
  <2>4. IsFiniteSet(I) /\ Cardinality(I) = Window
    <3>1. n - Window \in Int /\ n - 1 \in Int
      BY <1>1
    <3>2. IsFiniteSet(I) /\ Cardinality(I) = IF n - Window > n - 1 THEN 0 ELSE (n - 1) - (n - Window) + 1
      BY <3>1, FS_Interval
    <3> HIDE DEF I, n
    <3> QED
      BY <1>1, <3>2
  <2> HIDE DEF I, N
  <2> QED
    BY <2>3, <2>4, FS_Subset, FS_CardinalityType
<1>4. IsFiniteSet(L) /\ Cardinality(L) <= Losses /\ Cardinality(L) \in Nat
  <2>0. L \in SUBSET (0..(n - 1))
    BY DEF Missing
  <2>1. IsFiniteSet(0..(n - 1))
    <3>1. 0 \in Int /\ n - 1 \in Int
      BY <1>1
    <3> QED
      BY <3>1, FS_Interval
  <2>2. IsFiniteSet(L)
    BY <2>0, <2>1, FS_Subset
  <2>3. Cardinality(L) <= lost /\ lost <= Losses /\ lost \in Nat
    BY SourceTyped DEF NetworkKept
  <2> QED
    BY <1>1, <2>2, <2>3, FS_CardinalityType
<1>5. S \subseteq (N \cup D) \cup L
  <2> SUFFICES ASSUME NEW q \in S, q \notin N, q \notin D PROVE q \in L
    OBVIOUS
  <2>1. q \in 0..(n - 1) /\ ~(q <= l)
    BY <1>1
  <2>2. q \notin received[s]
    BY <2>1 DEF StackKept
  <2> QED
    BY <2>1, <2>2 DEF Missing
<1> HIDE DEF N, D, L, l, n
<1> DEFINE A == N \cup D
           U == A \cup L
<1>6. IsFiniteSet(A) /\ Cardinality(A) <= Cardinality(N) + Cardinality(D) /\ Cardinality(A) \in Nat
  BY <1>2, <1>3, UnionSize, FS_CardinalityType
<1>7. IsFiniteSet(U) /\ Cardinality(U) <= Cardinality(A) + Cardinality(L) /\ Cardinality(U) \in Nat
  <2> HIDE DEF A
  <2> QED
    BY <1>4, <1>6, UnionSize, FS_CardinalityType
<1>8. S \in SUBSET U
  BY <1>5
<1>9. IsFiniteSet(S) /\ Cardinality(S) <= Cardinality(U) /\ Cardinality(S) = IF l + 1 > n - 1 THEN 0 ELSE (n - 1) - (l + 1) + 1
  <2>1. l + 1 \in Int /\ n - 1 \in Int
    BY <1>1
  <2>2. Cardinality(S) = IF l + 1 > n - 1 THEN 0 ELSE (n - 1) - (l + 1) + 1
    BY <2>1, FS_Interval
  <2> HIDE DEF S, U
  <2> QED
    BY <1>7, <1>8, <2>2, FS_Subset
<1> HIDE DEF S, U, A
<1>10. Cardinality(S) <= Window + (MaxStack + 1) + Losses
  BY <1>1, <1>2, <1>3, <1>4, <1>6, <1>7, <1>9
<1>11. n - 1 <= l + Modulus - 2
  BY <1>1, <1>9, <1>10, ModulusAssumption DEF Tolerated
<1>12. r <= n - 1
  BY <1>1 DEF n
<1>13. r <= l + Modulus - 2
  BY <1>1, <1>11, <1>12, ModulusAssumption
<1> QED
  BY <1>13 DEF l

\* So the stack of a known source holds ranks in their slots.
LEMMA KnownHolds ==
  ASSUME Tolerated, UdpInv, NEW s \in Sources, NetworkKept(s), StackKept(s), udpCounters[s] # Empty
  PROVE  /\ last[s] \in Nat /\ Holds(stacks[s], last[s])
         /\ \A j \in network[s] : j \in Nat /\ last[s] < j /\ j <= last[s] + Modulus - 2
<1>1. last[s] \in Nat
  BY SourceTyped DEF StackKept
<1>2. \A r \in Stacked(stacks[s]) \cup network[s] : r \in Nat /\ r < sent[s] /\ last[s] < r
  <2>1. \A r \in received[s] \cup network[s] : r \in Nat /\ r \in 0..(sent[s] - 1)
    BY SourceTyped DEF NetworkKept
  <2>2. \A r \in received[s] \cup network[s] : r \in Nat /\ r < sent[s]
    BY <2>1, SourceTyped
  <2> QED
    BY <1>1, <2>2 DEF StackKept
<1>3. \A r \in Stacked(stacks[s]) \cup network[s] : r <= last[s] + Modulus - 2
  BY <1>1, <1>2, Span
<1>4. Holds(stacks[s], last[s])
  <2>1. \A n \in Filled(stacks[s]) : stacks[s][n] \in Stacked(stacks[s])
    BY DEF Stacked
  <2> QED
    BY <1>2, <1>3, <2>1, SourceTyped DEF Holds, StackKept
<1> QED
  BY <1>1, <1>2, <1>3, <1>4

-----------------------------------------------------------------------------
(* The network, and the sources a step does not touch. *)

LEMMA MissingFinite ==
  ASSUME UdpInv, NEW s \in Sources
  PROVE  IsFiniteSet(Missing(s)) /\ Cardinality(Missing(s)) \in Nat
<1>1. 0 \in Int /\ sent[s] - 1 \in Int
  BY SourceTyped
<1>2. IsFiniteSet(0..(sent[s] - 1)) /\ Missing(s) \in SUBSET (0..(sent[s] - 1))
  BY <1>1, FS_Interval DEF Missing
<1> QED
  BY <1>2, FS_Subset, FS_CardinalityType

LEMMA InitUdpOrder ==
  ASSUME Init
  PROVE  UdpOrderInv
<1> SUFFICES ASSUME NEW s \in Sources PROVE SourceKept(s)
  BY InitUdpInv DEF UdpOrderInv
<1>1. /\ network[s] = {} /\ received[s] = {} /\ delivered[s] = {} /\ sent[s] = 0 /\ lost = 0
      /\ udpCounters[s] = Empty /\ last[s] = Empty /\ Filled(stacks[s]) = {}
  BY DEF Init, Filled
<1>2. Missing(s) = {} /\ Stacked(stacks[s]) = {}
  BY <1>1 DEF Missing, Stacked
<1>3. NetworkKept(s)
  BY <1>1, <1>2, FS_EmptySet DEF NetworkKept
<1>4. StackKept(s) /\ CounterKept(s)
  BY <1>1, <1>2 DEF StackKept, CounterKept
<1> QED
  BY <1>3, <1>4 DEF SourceKept

\* Losing the datagrams of others does not matter.
LEMMA OtherKept ==
  ASSUME UdpInv, UdpInv', NEW t \in Sources, SourceKept(t), lost <= lost',
         /\ sent'[t] = sent[t] /\ network'[t] = network[t] /\ received'[t] = received[t]
         /\ stacks'[t] = stacks[t] /\ delivered'[t] = delivered[t] /\ last'[t] = last[t]
         /\ udpCounters'[t] = udpCounters[t],
         (pc = "again" /\ stackedIp = t) => (pc' = pc /\ stackedIp' = stackedIp)
  PROVE  SourceKept(t)'
<1>1. Missing(t)' = Missing(t)
  BY DEF Missing
<1>2. lost \in Nat /\ lost' \in Nat
  <2>1. lost \in Nat /\ lost' \in 0..Losses /\ Losses \in Nat
    BY SourceTyped DEF UdpInv, TypeOK
  <2> QED
    BY <2>1
<1>3. Cardinality(Missing(t)) \in Nat /\ Cardinality(Missing(t)) <= lost
  BY MissingFinite DEF SourceKept, NetworkKept
<1> DEFINE M == Cardinality(Missing(t))
<1>4. M <= lost'
  <2> HIDE DEF M
  <2> QED
    BY <1>2, <1>3 DEF M
<1>5. NetworkKept(t)'
  BY <1>1, <1>4 DEF SourceKept, NetworkKept, Overtook
<1>6. StackKept(t)'
  BY DEF SourceKept, StackKept, Stacked, Filled
<1>7. CounterKept(t)'
  BY DEF SourceKept, CounterKept, CounterFollows, GivenUp, Stacked, Filled
<1> QED
  BY <1>5, <1>6, <1>7 DEF SourceKept

LEMMA SendOrder ==
  ASSUME Tolerated, UdpOrderInv, NEW s \in Sources, Send(s)
  PROVE  UdpOrderInv'
<1>1. UdpInv /\ UdpInv'
  BY SendKeeps DEF UdpOrderInv
<1>2. UNCHANGED <<received, lost, duplicated, udpCounters, stacks, stackedIp, delivered, last, pc>>
  BY DEF Send, rcvVars
<1>3. /\ sent'[s] = sent[s] + 1 /\ network'[s] = network[s] \cup {sent[s]}
      /\ \A t \in Sources \ {s} : sent'[t] = sent[t] /\ network'[t] = network[t]
      /\ \A j \in network[s] : sent[s] - j < Window
  BY <1>1 DEF Send, UdpInv, TypeOK
<1> SUFFICES ASSUME duplicated = 0, NEW t \in Sources PROVE SourceKept(t)'
  BY <1>1, <1>2 DEF UdpOrderInv
<1>4. SourceKept(t)
  BY DEF UdpOrderInv
<1>5. CASE t # s
  <2>1. /\ lost <= lost' /\ sent'[t] = sent[t] /\ network'[t] = network[t] /\ received'[t] = received[t]
        /\ stacks'[t] = stacks[t] /\ delivered'[t] = delivered[t] /\ last'[t] = last[t]
        /\ udpCounters'[t] = udpCounters[t] /\ pc' = pc /\ stackedIp' = stackedIp
    BY <1>1, <1>2, <1>3, <1>5, SourceTyped
  <2> QED
    BY <1>1, <1>4, <2>1, OtherKept
<1>6. CASE t = s
  <2> DEFINE m == sent[s]
  <2>1. /\ m \in Nat /\ Window \in Nat /\ Overtakes \in Nat /\ network[s] \subseteq Nat
        /\ \A j \in network[s] \cup received[s] : j \in Nat /\ j < m
    <3>1. m \in Nat /\ Window \in Nat /\ Overtakes \in Nat /\ network[s] \subseteq Nat
      BY <1>1, SourceTyped
    <3>2. \A j \in network[s] \cup received[s] : j \in 0..(m - 1)
      BY <1>4, <1>6 DEF SourceKept, NetworkKept
    <3>3. \A j \in network[s] \cup received[s] : j \in Nat /\ j < m
      BY <3>1, <3>2
    <3> QED
      BY <3>1, <3>3
  <2>2. Missing(s)' = Missing(s)
    <3>1. Missing(s)' = {r \in 0..((m + 1) - 1) : r \notin (network[s] \cup {m}) \cup received[s]}
      BY <1>2, <1>3 DEF Missing
    <3>2. \A r : r \in 0..((m + 1) - 1) /\ r # m <=> r \in 0..(m - 1)
      BY <2>1
    <3> HIDE DEF m
    <3>3. Missing(s)' = {r \in 0..(m - 1) : r \notin network[s] \cup received[s]}
      BY <3>1, <3>2
    <3> QED
      BY <3>3 DEF Missing, m
  <2>3. \A j \in network'[s] : sent'[s] - j <= Window
    <3>1. \A j \in network[s] : sent'[s] - j <= Window
      BY <1>3, <2>1
    <3>2. sent'[s] - m <= Window
      BY <1>3, <2>1 DEF Tolerated
    <3> QED
      BY <1>3, <3>1, <3>2
  <2>4. \A j \in network'[s] : Cardinality(Overtook(received[s], j)) <= Overtakes
    <3>1. \A j \in network[s] : Cardinality(Overtook(received[s], j)) <= Overtakes
      BY <1>4, <1>6 DEF SourceKept, NetworkKept
    <3>2. Overtook(received[s], m) = {}
      BY <2>1 DEF Overtook
    <3>3. Cardinality(Overtook(received[s], m)) <= Overtakes
      BY <2>1, <3>2, FS_EmptySet
    <3> QED
      BY <1>3, <3>1, <3>3
  <2>5. network'[s] \cup received[s] \subseteq 0..(sent'[s] - 1) /\ network'[s] \cap received[s] = {}
    <3>1. \A j \in network[s] \cup received[s] : j \in 0..(sent'[s] - 1) /\ j # m
      BY <1>3, <2>1
    <3>2. m \in 0..(sent'[s] - 1)
      BY <1>3, <2>1
    <3>3. network[s] \cap received[s] = {}
      BY <1>4, <1>6 DEF SourceKept, NetworkKept
    <3> HIDE DEF m
    <3> QED
      BY <1>3, <3>1, <3>2, <3>3 DEF m
  <2>6. NetworkKept(s)'
    <3>1. Cardinality(Missing(s)) <= lost
      BY <1>4, <1>6 DEF SourceKept, NetworkKept
    <3> QED
      BY <1>2, <2>2, <2>3, <2>4, <2>5, <3>1 DEF NetworkKept, Overtook
  <2>7. m > last[s] /\ \A r \in Stacked(stacks[s]) : r < m
    <3>1. last[s] = Empty \/ last[s] \in received[s]
      BY <1>4, <1>6 DEF SourceKept, StackKept
    <3>2. Stacked(stacks[s]) \subseteq received[s]
      BY <1>4, <1>6 DEF SourceKept, StackKept
    <3> HIDE DEF m
    <3>3. m > Empty
      BY <2>1 DEF Empty
    <3> QED
      BY <2>1, <3>1, <3>2, <3>3
  <2>8. StackKept(s)'
    <3>1. \A j \in network'[s] : j > last[s]
      BY <1>3, <1>4, <1>6, <2>7 DEF SourceKept, StackKept
    <3> QED
      BY <1>2, <1>4, <1>6, <3>1 DEF SourceKept, StackKept, Stacked, Filled
  <2>9. CounterKept(s)'
    <3> SUFFICES ASSUME udpCounters[s] # Empty, GivenUp(s) PROVE GivenUp(s)'
      BY <1>2, <1>4, <1>6 DEF SourceKept, CounterKept, CounterFollows
    <3> DEFINE f == stacks[s][udpCounters[s]]
    <3>1. f # Empty /\ \A r \in Stacked(stacks[s]) : f <= r
      BY DEF GivenUp
    <3>2. udpCounters[s] \in Counters
      BY <1>1, SourceTyped
    <3>3. f \in Stacked(stacks[s])
      BY <3>1, <3>2 DEF Stacked, Filled
    <3>4. f < m
      BY <2>7, <3>3
    <3>5. \A j \in network'[s] : f < j
      BY <1>3, <3>4 DEF GivenUp
    <3> QED
      BY <1>2, <3>5 DEF GivenUp, Stacked, Filled
  <2> QED
    BY <1>6, <2>6, <2>8, <2>9 DEF SourceKept
<1> QED
  BY <1>5, <1>6

LEMMA LoseOrder ==
  ASSUME Tolerated, UdpOrderInv, NEW s \in Sources, NEW k \in network[s], Lose(s, k)
  PROVE  UdpOrderInv'
<1>1. UdpInv /\ UdpInv'
  BY LoseKeeps DEF UdpOrderInv
<1>2. /\ UNCHANGED <<sent, received, duplicated, udpCounters, stacks, stackedIp, delivered, last, pc>>
      /\ lost' = lost + 1 /\ lost \in Nat
  BY <1>1, SourceTyped DEF Lose, rcvVars
<1>3. /\ network'[s] = network[s] \ {k}
      /\ \A t \in Sources \ {s} : network'[t] = network[t]
  BY <1>1 DEF Lose, UdpInv, TypeOK
<1> SUFFICES ASSUME duplicated = 0, NEW t \in Sources PROVE SourceKept(t)'
  BY <1>1, <1>2 DEF UdpOrderInv
<1>4. SourceKept(t)
  BY DEF UdpOrderInv
<1>5. CASE t # s
  <2>1. /\ lost <= lost' /\ sent'[t] = sent[t] /\ network'[t] = network[t] /\ received'[t] = received[t]
        /\ stacks'[t] = stacks[t] /\ delivered'[t] = delivered[t] /\ last'[t] = last[t]
        /\ udpCounters'[t] = udpCounters[t] /\ pc' = pc /\ stackedIp' = stackedIp
    BY <1>2, <1>3, <1>5
  <2> QED
    BY <1>1, <1>4, <2>1, OtherKept
<1>6. CASE t = s
  <2>0. k \in 0..(sent[s] - 1) /\ k \notin received[s]
    BY <1>4, <1>6 DEF SourceKept, NetworkKept
  <2>1. Missing(s)' = Missing(s) \cup {k} /\ k \notin Missing(s)
    BY <1>2, <1>3, <2>0 DEF Missing
  <2>2. Cardinality(Missing(s)') <= lost'
    <3> DEFINE M == Missing(s)
               a == Cardinality(M)
    <3>1. IsFiniteSet(M) /\ a \in Nat /\ a <= lost
      BY <1>1, <1>4, <1>6, MissingFinite DEF SourceKept, NetworkKept
    <3>2. Missing(s)' = M \cup {k} /\ k \notin M
      BY <2>1
    <3> HIDE DEF M
    <3>3. Cardinality(Missing(s)') = a + 1
      BY <3>1, <3>2, FS_AddElement
    <3> HIDE DEF a
    <3> QED
      BY <1>2, <3>1, <3>3
  <2>3. NetworkKept(s)'
    <3>1. \A j \in network'[s] : j \in network[s]
      BY <1>3
    <3>2. network'[s] \cup received'[s] \subseteq 0..(sent'[s] - 1) /\ network'[s] \cap received'[s] = {}
      BY <1>2, <1>4, <1>6, <3>1 DEF SourceKept, NetworkKept
    <3>3. /\ \A j \in network'[s] : sent'[s] - j <= Window
          /\ \A j \in network'[s] : Cardinality(Overtook(received'[s], j)) <= Overtakes
      BY <1>2, <1>4, <1>6, <3>1 DEF SourceKept, NetworkKept
    <3> QED
      BY <2>2, <3>2, <3>3 DEF NetworkKept, Overtook
  <2>4. StackKept(s)'
    BY <1>2, <1>3, <1>4, <1>6 DEF SourceKept, StackKept, Stacked, Filled
  <2>5. CounterKept(s)'
    BY <1>2, <1>3, <1>4, <1>6 DEF SourceKept, CounterKept, CounterFollows, GivenUp, Stacked, Filled
  <2> QED
    BY <1>6, <2>3, <2>4, <2>5 DEF SourceKept
<1> QED
  BY <1>5, <1>6

\* A datagram that arrives, and is not duplicated.
LEMMA ArriveOrder ==
  ASSUME UdpInv, UdpInv', NEW s \in Sources, NEW k \in network[s], Arrive(s, k), duplicated' = 0,
         NetworkKept(s)
  PROVE  /\ NetworkKept(s)' /\ duplicated = 0 /\ sent' = sent /\ lost' = lost
         /\ network'[s] = network[s] \ {k} /\ received'[s] = received[s] \cup {k}
         /\ \A t \in Sources \ {s} : network'[t] = network[t] /\ received'[t] = received[t]
         /\ \A j \in network[s] : j < k => received[s] # {} \/ FirstMayLag
<1>1. duplicated' = duplicated /\ network' = [network EXCEPT ![s] = @ \ {k}]
  <2>1. duplicated \in Nat
    BY SourceTyped
  <2>2. ~(duplicated' = duplicated + 1)
    BY <2>1
  <2> QED
    BY <2>2 DEF Arrive
<1>2. /\ network'[s] = network[s] \ {k}
      /\ \A t \in Sources \ {s} : network'[t] = network[t]
  BY <1>1 DEF UdpInv, TypeOK
<1>3. /\ received'[s] = received[s] \cup {k}
      /\ \A t \in Sources \ {s} : received'[t] = received[t]
  BY DEF Arrive, UdpInv, TypeOK
<1>4. sent' = sent /\ lost' = lost
  BY DEF Arrive
<1>5. \A j \in network[s] : j < k => /\ Cardinality(Overtook(received[s], j)) < Overtakes
                                     /\ received[s] # {} \/ FirstMayLag
  BY DEF Arrive, Overtook
<1>6. k \in Nat /\ network[s] \subseteq Nat /\ k \notin received[s] /\ Overtakes \in Nat
  BY SourceTyped DEF NetworkKept
<1>7. \A j \in network'[s] : Cardinality(Overtook(received'[s], j)) <= Overtakes
  <2> TAKE j \in network'[s]
  <2>1. j \in network[s] /\ j # k /\ j \in Nat
    BY <1>2, <1>6
  <2>2. CASE j < k
    <3> DEFINE O == Overtook(received[s], j)
               a == Cardinality(O)
    <3>1. Overtook(received'[s], j) = O \cup {k} /\ k \notin O /\ O \in SUBSET Ranks
      BY <1>3, <1>6, <2>2, SourceTyped DEF Overtook
    <3>2. a < Overtakes /\ IsFiniteSet(O) /\ a \in Nat
      BY <1>5, <2>1, <2>2, <3>1, RanksFinite
    <3> HIDE DEF O
    <3>3. Cardinality(Overtook(received'[s], j)) = a + 1
      BY <3>1, <3>2, FS_AddElement
    <3> HIDE DEF a
    <3> QED
      BY <1>6, <3>2, <3>3
  <2>3. CASE k < j
    <3>1. Overtook(received'[s], j) = Overtook(received[s], j)
      BY <1>3, <1>6, <2>1, <2>3 DEF Overtook
    <3> QED
      BY <2>1, <3>1 DEF NetworkKept
  <2> QED
    BY <1>6, <2>1, <2>2, <2>3
<1>8. Missing(s)' = Missing(s)
  BY <1>2, <1>3, <1>4 DEF Missing
<1>9. /\ network'[s] \cup received'[s] \subseteq 0..(sent'[s] - 1)
      /\ network'[s] \cap received'[s] = {}
      /\ \A j \in network'[s] : sent'[s] - j <= Window
  BY <1>2, <1>3, <1>4 DEF NetworkKept
<1>10. Cardinality(Missing(s)') <= lost'
  BY <1>4, <1>8 DEF NetworkKept
<1>11. NetworkKept(s)'
  BY <1>7, <1>9, <1>10 DEF NetworkKept, Overtook
<1> QED
  BY <1>1, <1>2, <1>3, <1>4, <1>5, <1>11

-----------------------------------------------------------------------------
(* What receive does with a stack. *)

\* A datagram that arrives from a known source finds its slot empty.
LEMMA Stacking ==
  ASSUME NEW stack, NEW l \in Nat, Holds(stack, l), NEW k \in Ranks, k \notin Stacked(stack),
         l < k, k <= l + Modulus - 2
  PROVE  Holds(Add(stack, k), l) /\ Stacked(Add(stack, k)) = Stacked(stack) \cup {k}
<1> DEFINE n == k % Modulus
           after == Add(stack, k)
<1>1. k \in Nat /\ n \in Counters /\ k # Empty /\ stack \in Stacks
  BY CounterFacts DEF Holds
<1>2. stack[n] = Empty
  <2> SUFFICES ASSUME stack[n] # Empty PROVE FALSE
    OBVIOUS
  <2> DEFINE r == stack[n]
  <2>1. n \in Filled(stack)
    BY <1>1 DEF Filled
  <2>2. r % Modulus = n /\ r \in Nat /\ l < r /\ r <= l + Modulus - 2 /\ r # k
    BY <2>1 DEF Holds, Stacked
  <2>3. r % Modulus = k % Modulus
    BY <2>2
  <2> HIDE DEF r, n
  <2>4. (r < k /\ k - r < Modulus) \/ (k < r /\ r - k < Modulus)
    BY <1>1, <2>2, ModulusAssumption
  <2> QED
    BY <1>1, <2>2, <2>3, <2>4, ModDistinct
<1>3. after \in Stacks /\ \A m \in Counters : after[m] = IF m = n THEN k ELSE stack[m]
  BY <1>1 DEF Add, Stacks
<1>4. Filled(after) = Filled(stack) \cup {n} /\ n \notin Filled(stack)
  BY <1>1, <1>2, <1>3 DEF Filled
<1>5. Stacked(after) = Stacked(stack) \cup {k}
  <2>1. \A m \in Filled(stack) : m \in Counters /\ after[m] = stack[m]
    BY <1>3, <1>4 DEF Filled
  <2>2. after[n] = k
    BY <1>1, <1>3
  <2> HIDE DEF after, n
  <2> QED
    BY <1>4, <2>1, <2>2 DEF Stacked
<1>6. ASSUME NEW m \in Filled(after)
      PROVE  after[m] % Modulus = m /\ after[m] \in Nat /\ l < after[m] /\ after[m] <= l + Modulus - 2
  <2>1. CASE m = n
    BY <1>1, <1>3, <2>1
  <2>2. CASE m # n
    <3>1. m \in Filled(stack) /\ after[m] = stack[m]
      BY <1>3, <1>4, <2>2 DEF Filled
    <3> QED
      BY <3>1 DEF Holds
  <2> QED
    BY <2>1, <2>2
<1>7. Holds(after, l)
  BY <1>3, <1>6 DEF Holds
<1> QED
  BY <1>5, <1>7

\* The one that goes up leaves the others stacked.
LEMMA Unstacking ==
  ASSUME NEW stack, NEW l \in Nat, Holds(stack, l), NEW n \in Counters, stack[n] # Empty,
         \A r \in Stacked(stack) : stack[n] <= r
  PROVE  LET left == [stack EXCEPT ![n] = Empty]
         IN  /\ Holds(left, stack[n]) /\ stack[n] \in Nat /\ l < stack[n] /\ stack[n] % Modulus = n
             /\ Filled(left) = Filled(stack) \ {n}
             /\ Stacked(left) = Stacked(stack) \ {stack[n]}
<1> DEFINE left == [stack EXCEPT ![n] = Empty]
           f == stack[n]
<1>1. stack \in Stacks /\ n \in Filled(stack)
  BY DEF Holds, Filled
<1>2. f \in Nat /\ l < f /\ f % Modulus = n
  BY <1>1 DEF Holds
<1>3. left \in Stacks /\ \A m \in Counters : left[m] = IF m = n THEN Empty ELSE stack[m]
  BY <1>1 DEF Stacks
<1>4. Filled(left) = Filled(stack) \ {n}
  BY <1>3 DEF Filled
<1>5. \A m \in Filled(left) : /\ m \in Filled(stack) /\ left[m] = stack[m] /\ m # n
                              /\ stack[m] % Modulus = m /\ stack[m] \in Nat
                              /\ stack[m] <= l + Modulus - 2 /\ stack[m] \in Stacked(stack)
  <2> TAKE m \in Filled(left)
  <2>1. m \in Filled(stack) /\ left[m] = stack[m] /\ m # n
    BY <1>3, <1>4 DEF Filled
  <2> QED
    BY <2>1 DEF Holds, Stacked
<1>6. \A m \in Filled(left) : stack[m] # f
  BY <1>2, <1>5
<1>7. Stacked(left) = Stacked(stack) \ {f}
  <2>1. \A m \in Filled(stack) : m = n \/ m \in Filled(left)
    BY <1>4
  <2>2. Stacked(left) = {stack[m] : m \in Filled(left)}
    BY <1>5 DEF Stacked
  <2> HIDE DEF left
  <2> QED
    BY <1>1, <1>5, <1>6, <2>1, <2>2 DEF Stacked
<1>8. Holds(left, f)
  <2>1. ASSUME NEW m \in Filled(left)
        PROVE  left[m] % Modulus = m /\ left[m] \in Nat /\ f < left[m] /\ left[m] <= f + Modulus - 2
    <3> DEFINE g == stack[m]
    <3>1. g % Modulus = m /\ g \in Nat /\ g # f /\ f <= g /\ g <= l + Modulus - 2 /\ left[m] = g
      BY <1>5, <1>6
    <3> HIDE DEF g, f, left
    <3> QED
      BY <1>2, <3>1, ModulusAssumption
  <2> QED
    BY <1>3, <2>1 DEF Holds
<1> QED
  BY <1>2, <1>4, <1>7, <1>8

\* The first of the stack goes up before all that is in flight.
LEMMA GoesUp ==
  ASSUME NEW s \in Sources, NEW stack, NEW l \in Nat, Holds(stack, l), NEW n \in Counters,
         stack[n] # Empty, \A r \in Stacked(stack) : stack[n] <= r,
         stacks'[s] = [stack EXCEPT ![n] = Empty], delivered'[s] = delivered[s] \cup {stack[n]},
         last'[s] = stack[n], Stacked(stack) \subseteq received'[s],
         received'[s] \subseteq delivered[s] \cup Stacked(stack),
         \A r \in delivered[s] : r \in Nat /\ r <= l,
         \A j \in network'[s] : stack[n] < j, udpCounters'[s] # Empty
  PROVE  StackKept(s)'
<1> DEFINE left == [stack EXCEPT ![n] = Empty]
           f == stack[n]
<1>1. /\ Holds(left, f) /\ f \in Nat /\ l < f /\ Filled(left) = Filled(stack) \ {n}
      /\ Stacked(left) = Stacked(stack) \ {f}
  BY Unstacking
<1>2. f \in Stacked(stack)
  BY DEF Stacked, Filled
<1>3. stacks'[s] = left /\ delivered'[s] = delivered[s] \cup {f} /\ last'[s] = f
  OBVIOUS
<1>4. \A m \in Filled(left) : left[m] % Modulus = m
  BY <1>1 DEF Holds
<1>5. \A r \in delivered'[s] : r <= f
  BY <1>1, <1>3
<1>6. \A r \in Stacked(left) : r > f
  <2>1. \A r \in Stacked(left) : r \in Nat /\ f <= r /\ r # f
    <3>1. \A r \in Stacked(left) : f <= r /\ r # f
      BY <1>1
    <3>2. \A m \in Filled(left) : left[m] \in Nat
      BY <1>1 DEF Holds
    <3>3. \A r \in Stacked(left) : r \in Nat
      BY <3>2 DEF Stacked
    <3> QED
      BY <3>1, <3>3
  <2> HIDE DEF f, left
  <2> QED
    BY <1>1, <2>1
<1>7. Stacked(left) \subseteq received'[s] /\ f \in received'[s]
  BY <1>1, <1>2
<1>8. received'[s] \subseteq delivered'[s] \cup Stacked(left)
  BY <1>1, <1>3
<1>9. \A j \in network'[s] : j > f
  <2>1. \A j \in network'[s] : f < j
    OBVIOUS
  <2> HIDE DEF f
  <2> QED
    BY <2>1
<1>10. udpCounters'[s] # Empty
  OBVIOUS
<1> HIDE DEF left, f
<1>11. Filled(stacks[s])' = Filled(left) /\ Stacked(stacks[s])' = Stacked(left)
  BY <1>3 DEF Stacked, Filled
<1> QED
  BY <1>3, <1>4, <1>5, <1>6, <1>7, <1>8, <1>9, <1>10, <1>11 DEF StackKept

\* At the end of receive udp_counters follows, or those missing are given up.
LEMMA SettleOrder ==
  ASSUME Tolerated, UdpInv, NEW s \in Sources, NEW nb, NEW stack, NEW l \in Nat, Holds(stack, l),
         NEW e \in Nat, l <= e, e <= l + 1, stack[e % Modulus] = Empty,
         Settle(s, nb, e % Modulus, stack, Cardinality(Filled(stack))),
         stacks'[s] = stack, last'[s] = l,
         nb = l % Modulus \/ (l > 0 /\ nb = (l - 1) % Modulus),
         Stacked(stack) \subseteq received'[s], NetworkKept(s)',
         received'[s] \subseteq Ranks, network'[s] \subseteq Ranks
  PROVE  CounterKept(s)'
<1>0. udpCounters \in [Sources -> Counters \cup {Empty}]
  BY DEF UdpInv, TypeOK
<1>1. CASE ~TooMany(Cardinality(Filled(stack)))
  <2>1. udpCounters'[s] = nb
    BY <1>0, <1>1 DEF Settle
  <2> QED
    BY <2>1 DEF CounterKept, CounterFollows
<1>2. CASE TooMany(Cardinality(Filled(stack)))
  <2> DEFINE f == FirstStacked(stack, Succ(e % Modulus))
             got == received'[s]
             flying == network'[s]
  <2>1. pc' = "again" /\ stackedIp' = s /\ udpCounters'[s] = f
    BY <1>0, <1>2 DEF Settle
  <2>2. Cardinality(Filled(stack)) > MaxStack
    BY <1>2 DEF TooMany
  <2>3. got \subseteq Nat /\ IsFiniteSet(got) /\ flying \subseteq Nat
    BY CounterFacts, RanksFinite
  <2>4. flying \cap got = {} /\ \A j \in flying : Cardinality(Overtook(got, j)) <= Overtakes
    BY DEF NetworkKept, Overtook
  <2>5. Stacked(stack) \subseteq got
    OBVIOUS
  <2> HIDE DEF got, flying
  <2>6. /\ f \in Counters /\ stack[f] # Empty
        /\ \A r \in Stacked(stack) : stack[f] <= r
        /\ \A j \in flying : stack[f] < j
    BY <2>2, <2>3, <2>4, <2>5, GiveUp
  <2>7. GivenUp(s)'
    <3> HIDE DEF f
    <3> QED
      BY <2>1, <2>6 DEF GivenUp, Stacked, Filled, flying
  <2> QED
    BY <2>7 DEF CounterKept
<1> QED
  BY <1>1, <1>2

\* When the successor of the last one is stacked, it is the first of the stack
\* and nothing in flight comes before it.
LEMMA NextIsFirst ==
  ASSUME NEW stack, NEW l \in Nat, Holds(stack, l), NEW n \in Counters, stack[n] = l + 1,
         NEW got, Stacked(stack) \subseteq got, NEW flying, flying \subseteq Nat,
         flying \cap got = {}, \A j \in flying : l < j
  PROVE  /\ \A r \in Stacked(stack) : stack[n] <= r
         /\ \A j \in flying : stack[n] < j
<1>1. l + 1 \in Stacked(stack)
  BY CounterFacts DEF Stacked, Filled, Empty
<1>2. \A r \in Stacked(stack) : r \in Nat /\ l < r
  <2>1. \A m \in Filled(stack) : stack[m] \in Nat /\ l < stack[m]
    BY DEF Holds
  <2> QED
    BY <2>1 DEF Stacked
<1>3. \A r \in Stacked(stack) : l + 1 <= r
  BY <1>2
<1>4. \A j \in flying : j \in Nat /\ l < j /\ j # l + 1
  BY <1>1
<1>5. \A j \in flying : l + 1 < j
  BY <1>4
<1> QED
  BY <1>3, <1>5

\* A call that delivers nothing of a source.
LEMMA StaysStacked ==
  ASSUME NEW s \in Sources, NEW stack, Holds(stack, last[s]), stacks'[s] = stack,
         delivered'[s] = delivered[s], last'[s] = last[s],
         Stacked(stack) \subseteq received'[s],
         received'[s] \subseteq delivered[s] \cup Stacked(stack),
         \A r \in delivered[s] : r <= last[s], last[s] \in received'[s],
         network'[s] \subseteq Nat, \A j \in network'[s] : last[s] < j,
         udpCounters'[s] # Empty, last[s] \in Nat
  PROVE  StackKept(s)'
<1>1. \A m \in Filled(stack) : stack[m] % Modulus = m /\ stack[m] \in Nat /\ last[s] < stack[m]
  BY DEF Holds
<1>2. \A r \in Stacked(stack) : r > last[s]
  <2>1. \A r \in Stacked(stack) : r \in Nat /\ last[s] < r
    BY <1>1 DEF Stacked
  <2> QED
    BY <2>1
<1>3. \A j \in network'[s] : j > last[s]
  <2>1. \A j \in network'[s] : j \in Nat /\ last[s] < j
    OBVIOUS
  <2> QED
    BY <2>1
<1> QED
  BY <1>1, <1>2, <1>3 DEF StackKept, Stacked, Filled

-----------------------------------------------------------------------------
(* The receiver keeps the order. *)

\* The state of a known source when a datagram of it has arrived.
LEMMA ArrivedKnown ==
  ASSUME Tolerated, UdpInv, UdpInv', NEW s \in Sources, NEW k \in network[s], pc = "wait",
         Arrive(s, k), duplicated' = 0, SourceKept(s), udpCounters[s] # Empty
  PROVE  /\ last[s] \in Nat /\ last[s] \in received'[s]
         /\ Holds(Add(stacks[s], k), last[s])
         /\ Stacked(Add(stacks[s], k)) \subseteq received'[s]
         /\ received'[s] \subseteq delivered[s] \cup Stacked(Add(stacks[s], k))
         /\ \A r \in delivered[s] : r \in Nat /\ r <= last[s]
         /\ network'[s] \subseteq Nat /\ network'[s] \cap received'[s] = {}
         /\ \A j \in network'[s] : last[s] < j
         /\ NetworkKept(s)' /\ received'[s] \subseteq Ranks /\ network'[s] \subseteq Ranks
<1>1. NetworkKept(s) /\ StackKept(s) /\ k \in Ranks
  BY SourceTyped DEF SourceKept
<1>2. /\ NetworkKept(s)'
      /\ network'[s] = network[s] \ {k} /\ received'[s] = received[s] \cup {k}
  BY <1>1, ArriveOrder
<1>3. /\ last[s] \in Nat /\ Holds(stacks[s], last[s])
      /\ \A j \in network[s] : j \in Nat /\ last[s] < j /\ j <= last[s] + Modulus - 2
  BY <1>1, KnownHolds
<1>4. k \notin Stacked(stacks[s])
  BY <1>1 DEF NetworkKept, StackKept
<1>5. /\ Holds(Add(stacks[s], k), last[s])
      /\ Stacked(Add(stacks[s], k)) = Stacked(stacks[s]) \cup {k}
  BY <1>1, <1>3, <1>4, Stacking
<1>6. \A r \in delivered[s] : r \in Nat /\ r <= last[s]
  <2>1. delivered[s] \subseteq Nat
    BY SourceTyped, CounterFacts
  <2> QED
    BY <1>1, <2>1 DEF StackKept
<1>7. last[s] \in received[s]
  BY <1>1 DEF StackKept
<1>8. network'[s] \cap received'[s] = {}
  BY <1>2 DEF NetworkKept
<1>9. /\ Stacked(stacks[s]) \subseteq received[s]
      /\ received[s] \subseteq delivered[s] \cup Stacked(stacks[s])
  BY <1>1 DEF StackKept
<1>10. received'[s] \subseteq Ranks /\ network'[s] \subseteq Ranks
  BY <1>1, <1>2, SourceTyped
<1> QED
  BY <1>2, <1>3, <1>5, <1>6, <1>7, <1>8, <1>9, <1>10

LEMMA ReceiveKnown ==
  ASSUME Tolerated, UdpInv, UdpInv', NEW s \in Sources, NEW k \in network[s], Receive(s, k),
         duplicated' = 0, SourceKept(s), udpCounters[s] # Empty
  PROVE  SourceKept(s)' /\ (last'[s] # last[s] => last'[s] > last[s])
<1> DEFINE l == last[s]
           stack == Add(stacks[s], k)
           n == Expected(s, k)
           got == received'[s]
           flying == network'[s]
<1>1. pc = "wait" /\ Arrive(s, k)
  BY DEF Receive
<1>2. /\ l \in Nat /\ l \in got /\ Holds(stack, l)
      /\ Stacked(stack) \subseteq got
      /\ got \subseteq delivered[s] \cup Stacked(stack)
      /\ \A r \in delivered[s] : r \in Nat /\ r <= l
      /\ flying \subseteq Nat /\ flying \cap got = {}
      /\ \A j \in flying : l < j
      /\ NetworkKept(s)' /\ got \subseteq Ranks /\ flying \subseteq Ranks
  BY <1>1, ArrivedKnown
<1>3. /\ stack \in Stacks /\ n \in Counters
      /\ CountAfterAdd(s, k) = Cardinality(Filled(stack))
  BY <1>1, ArrivedIsStacked
<1>4. PICK a \in Nat : udpCounters[s] = a % Modulus /\ (a = l \/ (l > 0 /\ a = l - 1))
  <2>1. CounterFollows(s)
    BY <1>1 DEF SourceKept, CounterKept, GivenUp
  <2> QED
    BY <1>2, <2>1 DEF CounterFollows
<1> DEFINE e == a + 1
<1>5. n = e % Modulus /\ e \in Nat /\ l <= e /\ e <= l + 1
  <2>1. n = Succ(a % Modulus)
    BY <1>4 DEF Expected
  <2>2. ((a % Modulus) + 1) % Modulus = (a + 1) % Modulus
    BY ModAdd
  <2> HIDE DEF n
  <2> QED
    BY <1>2, <1>4, <2>1, <2>2 DEF Succ
<1>6. \/ stack[n] # Empty /\ DeliverExpected(s, n, stack, Cardinality(Filled(stack)))
      \/ stack[n] = Empty /\ KeepEarly(s, n, stack, Cardinality(Filled(stack)))
  BY <1>3 DEF Receive
<1>7. udpCounters[s] \in Counters
  BY SourceTyped
<1> HIDE DEF stack, got, flying, n, e
<1>8. ASSUME stack[n] # Empty
      PROVE  stack[n] = e /\ e = l + 1
  BY <1>2, <1>5, <1>8, SlotHolds
<1>9. ASSUME stack[n] # Empty, DeliverExpected(s, n, stack, Cardinality(Filled(stack)))
      PROVE  SourceKept(s)' /\ last'[s] > l
  <2> DEFINE left == [stack EXCEPT ![n] = Empty]
  <2>1. stack[n] = e /\ e = l + 1
    BY <1>8, <1>9
  <2>2. /\ \A r \in Stacked(stack) : stack[n] <= r
        /\ \A j \in flying : stack[n] < j
    BY <1>2, <1>3, <2>1, NextIsFirst
  <2>3. stacks'[s] = left /\ delivered'[s] = delivered[s] \cup {stack[n]} /\ last'[s] = stack[n]
    BY <1>9 DEF DeliverExpected, HandleStack, UdpInv, TypeOK
  <2>4. /\ Holds(left, e) /\ Filled(left) = Filled(stack) \ {n} /\ n \in Filled(stack)
        /\ Stacked(left) = Stacked(stack) \ {stack[n]} /\ left \in Stacks /\ left[n] = Empty
    <3>1. Holds(left, stack[n]) /\ Filled(left) = Filled(stack) \ {n} /\ Stacked(left) = Stacked(stack) \ {stack[n]}
      BY <1>2, <1>3, <1>9, <2>2, Unstacking
    <3>2. n \in Filled(stack) /\ left \in Stacks /\ left[n] = Empty
      BY <1>3, <1>9 DEF Filled, Stacks
    <3> QED
      BY <2>1, <3>1, <3>2
  <2>5. Cardinality(Filled(left)) = Cardinality(Filled(stack)) - 1
    BY <1>3, <1>9, ClearSlot
  <2> HIDE DEF left
  <2>6. CASE MoreAfter(stack, n)
    <3>1. udpCounters'[s] = udpCounters[s]
      BY <1>9, <2>6 DEF DeliverExpected
    <3>2. e - 1 = a /\ e > 0
      BY DEF e
    <3>3. CounterKept(s)'
      BY <1>4, <2>1, <2>3, <3>1, <3>2 DEF CounterKept, CounterFollows
    <3>4. StackKept(s)'
      <4>1. udpCounters'[s] # Empty
        BY <3>1
      <4>2. stacks'[s] = [stack EXCEPT ![n] = Empty]
        BY <2>3 DEF left
      <4>3. Stacked(stack) \subseteq received'[s] /\ received'[s] \subseteq delivered[s] \cup Stacked(stack)
        BY <1>2 DEF got
      <4>4. \A j \in network'[s] : stack[n] < j
        BY <2>2 DEF flying
      <4> QED
        BY <1>2, <1>3, <1>9, <2>2, <2>3, <4>1, <4>2, <4>3, <4>4, GoesUp
    <3> QED
      BY <1>2, <2>1, <2>3, <3>3, <3>4 DEF SourceKept
  <2>7. CASE ~MoreAfter(stack, n)
    <3>1. Settle(s, n, n, left, Cardinality(Filled(left)))
      BY <1>9, <2>5, <2>7 DEF DeliverExpected, left
    <3>2. udpCounters'[s] \in Counters
      BY <1>3, <2>4, <3>1, SettleLeaves
    <3>3. udpCounters'[s] # Empty
      BY <3>2, CounterFacts
    <3>4. CounterKept(s)'
      <4>1. left[e % Modulus] = Empty /\ Settle(s, n, e % Modulus, left, Cardinality(Filled(left)))
        BY <1>5, <2>4, <3>1
      <4>2. stacks'[s] = left /\ last'[s] = e /\ n = e % Modulus /\ e <= e /\ e <= e + 1
        BY <1>5, <2>1, <2>3
      <4>3. Stacked(left) \subseteq received'[s]
        BY <1>2, <2>4 DEF got
      <4>4. NetworkKept(s)' /\ received'[s] \subseteq Ranks /\ network'[s] \subseteq Ranks
        BY <1>2 DEF got, flying
      <4> QED
        BY <1>5, <2>4, <4>1, <4>2, <4>3, <4>4, SettleOrder
    <3>5. StackKept(s)'
      <4>2. stacks'[s] = [stack EXCEPT ![n] = Empty]
        BY <2>3 DEF left
      <4>3. Stacked(stack) \subseteq received'[s] /\ received'[s] \subseteq delivered[s] \cup Stacked(stack)
        BY <1>2 DEF got
      <4>4. \A j \in network'[s] : stack[n] < j
        BY <2>2 DEF flying
      <4> QED
        BY <1>2, <1>3, <1>9, <2>2, <2>3, <3>3, <4>2, <4>3, <4>4, GoesUp
    <3> QED
      BY <1>2, <2>1, <2>3, <3>4, <3>5 DEF SourceKept
  <2> QED
    BY <2>6, <2>7
<1>10. ASSUME stack[n] = Empty, KeepEarly(s, n, stack, Cardinality(Filled(stack)))
       PROVE  SourceKept(s)' /\ last'[s] = last[s]
  <2>1. stacks'[s] = stack /\ delivered'[s] = delivered[s] /\ last'[s] = last[s]
    BY <1>10 DEF KeepEarly, UdpInv, TypeOK
  <2> PICK nb \in Counters : nb = udpCounters[s]
    BY <1>7
  <2>2. Settle(s, nb, n, stack, Cardinality(Filled(stack)))
    BY <1>10 DEF KeepEarly
  <2>3. udpCounters'[s] \in Counters
    BY <1>3, <2>2, SettleLeaves
  <2>4. udpCounters'[s] # Empty
    BY <2>3, CounterFacts
  <2>5. CounterKept(s)'
    <3>1. stack[e % Modulus] = Empty /\ Settle(s, nb, e % Modulus, stack, Cardinality(Filled(stack)))
      BY <1>5, <1>10, <2>2
    <3>2. last'[s] = l /\ (nb = l % Modulus \/ (l > 0 /\ nb = (l - 1) % Modulus))
      BY <1>4, <2>1
    <3>3. NetworkKept(s)' /\ received'[s] \subseteq Ranks /\ network'[s] \subseteq Ranks
      BY <1>2 DEF got, flying
    <3>4. Stacked(stack) \subseteq received'[s]
      BY <1>2 DEF got
    <3> HIDE DEF l
    <3> QED
      BY <1>2, <1>5, <2>1, <3>1, <3>2, <3>3, <3>4, SettleOrder
  <2>6. StackKept(s)'
    <3>1. Stacked(stack) \subseteq received'[s] /\ received'[s] \subseteq delivered[s] \cup Stacked(stack)
      BY <1>2 DEF got
    <3>2. last[s] \in received'[s] /\ network'[s] \subseteq Nat /\ \A j \in network'[s] : last[s] < j
      BY <1>2 DEF got, flying
    <3>3. (\A r \in delivered[s] : r <= last[s]) /\ Holds(stack, last[s]) /\ last[s] \in Nat
      BY <1>2
    <3> QED
      BY <2>1, <2>4, <3>1, <3>2, <3>3, StaysStacked
  <2> QED
    BY <1>2, <2>1, <2>5, <2>6 DEF SourceKept
<1> QED
  BY <1>6, <1>9, <1>10

\* The first datagram of a source goes up at once.
LEMMA ReceiveFirst ==
  ASSUME Tolerated, UdpInv, UdpInv', NEW s \in Sources, NEW k \in network[s], Receive(s, k),
         duplicated' = 0, SourceKept(s), udpCounters[s] = Empty
  PROVE  SourceKept(s)' /\ last'[s] > last[s]
<1> DEFINE stack == Add(stacks[s], k)
           n == Expected(s, k)
           left == [stack EXCEPT ![n] = Empty]
<1>1. pc = "wait" /\ Arrive(s, k)
  BY DEF Receive
<1>2. NetworkKept(s) /\ received[s] = {} /\ last[s] = Empty /\ delivered[s] = {}
  <2>1. NetworkKept(s) /\ received[s] = {} /\ last[s] = Empty /\ \A r \in delivered[s] : r <= last[s]
    BY DEF SourceKept, StackKept
  <2>2. \A r \in delivered[s] : r \in Nat
    BY SourceTyped, CounterFacts
  <2>3. \A r \in delivered[s] : r <= -1 /\ r \in Nat
    BY <2>1, <2>2 DEF Empty
  <2> QED
    BY <2>1, <2>3
<1>3. k \in Nat /\ k \in Ranks /\ k # Empty /\ network[s] \subseteq Nat
  BY SourceTyped, CounterFacts
<1>4. /\ NetworkKept(s)' /\ received'[s] = {k} /\ network'[s] = network[s] \ {k}
      /\ \A j \in network[s] : ~(j < k)
  BY <1>1, <1>2, ArriveOrder DEF Tolerated
<1>5. /\ stack \in Stacks /\ n \in Counters /\ n = k % Modulus
      /\ \A m \in Counters : stack[m] = IF m = n THEN k ELSE Empty
      /\ CountAfterAdd(s, k) = Cardinality(Filled(stack))
  <2>1. n = k % Modulus
    BY DEF Expected
  <2>2. Filled(stacks[s]) = {}
    BY DEF UdpInv, UnknownHasNothing
  <2>3. \A m \in Counters : stacks[s][m] = Empty
    BY <2>2 DEF Filled
  <2>4. /\ stack \in Stacks /\ k % Modulus \in Counters
        /\ \A m \in Counters : stack[m] = IF m = k % Modulus THEN k ELSE stacks[s][m]
        /\ CountAfterAdd(s, k) = Cardinality(Filled(stack))
    BY <1>1, ArrivedIsStacked
  <2> HIDE DEF n, stack
  <2> QED
    BY <2>1, <2>3, <2>4
<1> HIDE DEF stack, n
<1>6. /\ left \in Stacks /\ Filled(left) = {} /\ Filled(stack) = {n} /\ stack[n] = k
      /\ \A m \in Counters : left[m] = Empty
  <2>1. left \in Stacks /\ \A m \in Counters : left[m] = Empty
    BY <1>5 DEF Stacks
  <2>2. \A m \in Counters : stack[m] # Empty <=> m = n
    BY <1>3, <1>5
  <2>3. stack[n] = k
    BY <1>5
  <2> HIDE DEF left
  <2> QED
    BY <1>5, <2>1, <2>2, <2>3 DEF Filled
<1> HIDE DEF left
<1>7. Cardinality(Filled(left)) = 0 /\ Cardinality(Filled(stack)) = 1
  BY <1>6, FS_EmptySet, FS_Singleton
<1>8. DeliverExpected(s, n, stack, 1)
  BY <1>3, <1>5, <1>6, <1>7 DEF Receive, stack, n
<1>9. stacks'[s] = left /\ delivered'[s] = {k} /\ last'[s] = k
  BY <1>2, <1>3, <1>6, <1>8 DEF DeliverExpected, HandleStack, UdpInv, TypeOK, left
<1>10. udpCounters'[s] = k % Modulus /\ udpCounters'[s] # Empty
  <2>1. Succ(n) \in Counters
    BY <1>5, CounterFacts
  <2>2. ~MoreAfter(stack, n)
    BY <1>6, <2>1 DEF MoreAfter, left
  <2>3. Settle(s, n, n, left, 0)
    <3>1. Settle(s, n, n, left, 1 - 1)
      BY <1>8, <2>2 DEF DeliverExpected, left
    <3> QED
      BY <3>1
  <2>4. ~TooMany(0)
    BY BoundsAssumption DEF TooMany
  <2>5. udpCounters' = [udpCounters EXCEPT ![s] = n]
    BY <2>3, <2>4 DEF Settle
  <2>6. udpCounters'[s] = n
    BY <2>5 DEF UdpInv, TypeOK
  <2> QED
    BY <1>5, <2>6, CounterFacts
<1>11. CounterKept(s)'
  BY <1>9, <1>10 DEF CounterKept, CounterFollows
<1>12. StackKept(s)'
  <2>1. Filled(stacks[s])' = {} /\ Stacked(stacks[s])' = {}
    BY <1>6, <1>9 DEF Stacked, Filled
  <2>2. \A j \in network'[s] : j > k
    <3>1. \A j \in network'[s] : j \in Nat /\ ~(j < k) /\ j # k
      BY <1>3, <1>4
    <3> QED
      BY <1>3, <3>1
  <2> QED
    BY <1>3, <1>4, <1>9, <1>10, <2>1, <2>2 DEF StackKept
<1>13. last'[s] > last[s]
  BY <1>2, <1>3, <1>9 DEF Empty
<1> QED
  BY <1>4, <1>11, <1>12, <1>13 DEF SourceKept

\* A call touches one source.
LEMMA OneSourceCall ==
  ASSUME UdpInv, UdpInv', duplicated' = 0 => duplicated = 0, NEW s \in Sources,
         duplicated = 0 => \A t \in Sources : SourceKept(t),
         duplicated' = 0 => SourceKept(s)',
         duplicated' = 0 => \A t \in Sources \ {s} :
           /\ sent'[t] = sent[t] /\ network'[t] = network[t] /\ received'[t] = received[t]
           /\ stacks'[t] = stacks[t] /\ delivered'[t] = delivered[t] /\ last'[t] = last[t]
           /\ udpCounters'[t] = udpCounters[t],
         lost' = lost, pc = "again" => stackedIp = s
  PROVE  UdpOrderInv'
<1> SUFFICES ASSUME duplicated' = 0, NEW t \in Sources PROVE SourceKept(t)'
  BY DEF UdpOrderInv
<1>1. CASE t = s
  BY <1>1
<1>2. CASE t # s
  <2>1. lost <= lost'
    BY SourceTyped
  <2>2. SourceKept(t)
    OBVIOUS
  <2>3. (pc = "again" /\ stackedIp = t) => (pc' = pc /\ stackedIp' = stackedIp)
    BY <1>2
  <2> QED
    BY <1>2, <2>1, <2>2, <2>3, OtherKept
<1> QED
  BY <1>1, <1>2

LEMMA ReceiveOrder ==
  ASSUME Tolerated, UdpOrderInv, NEW s \in Sources, NEW k \in network[s], Receive(s, k)
  PROVE  /\ UdpOrderInv'
         /\ duplicated' = 0 => /\ last'[s] # last[s] => last'[s] > last[s]
                               /\ \A t \in Sources \ {s} : last'[t] = last[t]
<1>1. UdpInv /\ UdpInv'
  BY ReceiveKeeps DEF UdpOrderInv
<1>2. pc = "wait" /\ Arrive(s, k)
  BY DEF Receive
<1>3. duplicated' = 0 => duplicated = 0
  <2>1. duplicated \in Nat
    BY <1>1, SourceTyped
  <2>2. duplicated' = duplicated \/ duplicated' = duplicated + 1
    BY <1>2 DEF Arrive
  <2> QED
    BY <2>1, <2>2
<1>4. duplicated = 0 => \A t \in Sources : SourceKept(t)
  BY DEF UdpOrderInv
<1>5. duplicated' = 0 => SourceKept(s)' /\ (last'[s] # last[s] => last'[s] > last[s])
  BY <1>1, <1>3, <1>4, ReceiveKnown, ReceiveFirst
<1>6. /\ stacks \in [Sources -> Stacks] /\ delivered \in [Sources -> SUBSET Ranks]
      /\ last \in [Sources -> Ranks \cup {Empty}] /\ udpCounters \in [Sources -> Counters \cup {Empty}]
      /\ network \in [Sources -> SUBSET Ranks] /\ received \in [Sources -> SUBSET Ranks]
  BY <1>1 DEF UdpInv, TypeOK, Stacks
<1>7. \A t \in Sources \ {s} :
           /\ stacks'[t] = stacks[t] /\ delivered'[t] = delivered[t] /\ last'[t] = last[t]
           /\ udpCounters'[t] = udpCounters[t]
  <2> DEFINE stack == Add(stacks[s], k)
             n == Expected(s, k)
             count == CountAfterAdd(s, k)
  <2>1. DeliverExpected(s, n, stack, count) \/ KeepEarly(s, n, stack, count)
    BY DEF Receive
  <2> HIDE DEF stack, n, count
  <2>2. CASE DeliverExpected(s, n, stack, count)
    <3>1. HandleStack(s, stack, count, n)
      BY <2>2 DEF DeliverExpected
    <3>2. \A t \in Sources \ {s} : stacks'[t] = stacks[t] /\ delivered'[t] = delivered[t] /\ last'[t] = last[t]
      BY <1>6, <3>1 DEF HandleStack
    <3>3. \A t \in Sources \ {s} : udpCounters'[t] = udpCounters[t]
      BY <1>6, <2>2 DEF DeliverExpected, Settle
    <3> QED
      BY <3>2, <3>3
  <2>3. CASE KeepEarly(s, n, stack, count)
    <3>1. \A t \in Sources \ {s} : stacks'[t] = stacks[t] /\ delivered'[t] = delivered[t] /\ last'[t] = last[t]
      BY <1>6, <2>3 DEF KeepEarly
    <3>2. \A t \in Sources \ {s} : udpCounters'[t] = udpCounters[t]
      BY <1>6, <2>3 DEF KeepEarly, Settle
    <3> QED
      BY <3>1, <3>2
  <2> QED
    BY <2>1, <2>2, <2>3
<1>8. sent' = sent /\ lost' = lost /\ \A t \in Sources \ {s} : network'[t] = network[t] /\ received'[t] = received[t]
  BY <1>2, <1>6 DEF Arrive
<1>9. pc = "again" => stackedIp = s
  BY <1>2
<1>10. UdpOrderInv'
  BY <1>1, <1>3, <1>4, <1>5, <1>7, <1>8, <1>9, OneSourceCall
<1> QED
  BY <1>5, <1>7, <1>10

\* The next call delivers the one before which the others were given up, or
\* nothing; and it moves on when the successor is stacked.
LEMMA AgainKnown ==
  ASSUME UdpInv, UdpInv', ReceiveAgain, NEW s \in Sources, s = stackedIp,
         Tolerated, SourceKept(s), udpCounters[s] \in Counters
  PROVE  SourceKept(s)' /\ (last'[s] # last[s] => last'[s] > last[s])
<1> DEFINE l == last[s]
           stack == stacks[s]
           n == udpCounters[s]
           left == [stack EXCEPT ![n] = Empty]
           got == received[s]
           flying == network[s]
<1>1. /\ pc = "again" /\ UNCHANGED netVars /\ HandleStack(s, stack, counter[s], n)
      /\ IF MoreAfter(stack, n)
         THEN /\ udpCounters' = [udpCounters EXCEPT ![s] = Succ(n)]
              /\ UNCHANGED <<pc, stackedIp>>
         ELSE UNCHANGED udpCounters
  BY DEF ReceiveAgain
<1>2. n # Empty /\ NetworkKept(s) /\ StackKept(s) /\ CounterKept(s)
  BY CounterFacts DEF SourceKept
<1>3. l \in Nat /\ Holds(stack, l) /\ \A j \in flying : j \in Nat /\ l < j
  BY <1>2, KnownHolds
<1>4. /\ Stacked(stack) \subseteq got /\ got \subseteq delivered[s] \cup Stacked(stack)
      /\ l \in got /\ \A r \in delivered[s] : r <= l
  BY <1>2 DEF StackKept
<1>5. \A r \in delivered[s] : r \in Nat /\ r <= l
  <2>1. delivered[s] \subseteq Nat
    BY SourceTyped, CounterFacts
  <2> QED
    BY <1>4, <2>1
<1>6. flying \subseteq Nat /\ flying \cap got = {} /\ stack \in Stacks
  BY <1>2, SourceTyped DEF NetworkKept
<1>7. received'[s] = got /\ network'[s] = flying /\ NetworkKept(s)'
  <2>1. sent' = sent /\ network' = network /\ received' = received /\ lost' = lost
    BY <1>1 DEF netVars
  <2> QED
    BY <1>2, <2>1 DEF NetworkKept, Missing, Overtook
<1>8. udpCounters'[s] # Empty /\ udpCounters'[s] = IF MoreAfter(stack, n) THEN Succ(n) ELSE n
  <2>1. udpCounters \in [Sources -> Counters \cup {Empty}] /\ Succ(n) \in Counters
    BY CounterFacts DEF UdpInv, TypeOK
  <2> HIDE DEF stack
  <2> QED
    BY <1>1, <2>1, CounterFacts
<1>9. /\ stacks'[s] = left
      /\ stack[n] # Empty => last'[s] = stack[n] /\ delivered'[s] = delivered[s] \cup {stack[n]}
      /\ stack[n] = Empty => last'[s] = l /\ delivered'[s] = delivered[s]
  BY <1>1 DEF HandleStack, UdpInv, TypeOK
<1>10. ASSUME MoreAfter(stack, n)
       PROVE  pc' = "again" /\ stackedIp' = s
  BY <1>1, <1>10
<1> HIDE DEF l, n, got, flying, stack
<1>11. CASE GivenUp(s)
  <2> DEFINE f == stack[n]
  <2>1. /\ f # Empty /\ \A r \in Stacked(stack) : f <= r
        /\ \A j \in flying : f < j
    BY <1>11 DEF GivenUp, stack, n, flying
  <2>2. /\ Holds(left, f) /\ f \in Nat /\ l < f /\ f % Modulus = n
        /\ Stacked(left) = Stacked(stack) \ {f}
    BY <1>3, <2>1, Unstacking DEF n
  <2>3. StackKept(s)'
    <3>1. Stacked(stack) \subseteq received'[s] /\ received'[s] \subseteq delivered[s] \cup Stacked(stack)
      BY <1>4, <1>7
    <3>2. (\A j \in network'[s] : stack[n] < j) /\ udpCounters'[s] # Empty /\ n \in Counters
      BY <1>7, <1>8, <2>1 DEF n
    <3>3. stacks'[s] = [stack EXCEPT ![n] = Empty] /\ delivered'[s] = delivered[s] \cup {stack[n]} /\ last'[s] = stack[n]
      BY <1>9, <2>1
    <3>4. stack[n] # Empty /\ \A r \in Stacked(stack) : stack[n] <= r
      BY <2>1
    <3> QED
      BY <1>3, <1>5, <3>1, <3>2, <3>3, <3>4, GoesUp
  <2>4. CounterKept(s)'
    <3>1. last'[s] = f
      BY <1>9, <2>1
    <3>2. CASE ~MoreAfter(stack, n)
      BY <1>8, <2>2, <3>1, <3>2 DEF CounterKept, CounterFollows
    <3>3. CASE MoreAfter(stack, n)
      <4>1. Succ(n) = (f + 1) % Modulus
        BY <2>2, ModAdd DEF Succ
      <4>2. left[Succ(n)] # Empty
        BY <3>3 DEF MoreAfter
      <4>3. left[(f + 1) % Modulus] # Empty /\ f + 1 \in Nat /\ f <= (f + 1) + 1 /\ f + 1 <= f + 1
        BY <2>2, <4>1, <4>2
      <4> HIDE DEF left, f
      <4>4. left[Succ(n)] = f + 1
        BY <2>2, <4>1, <4>3, SlotHolds
      <4>5. Stacked(left) \subseteq got /\ Succ(n) \in Counters
        BY <1>4, <2>2, CounterFacts DEF n
      <4>6. /\ \A r \in Stacked(left) : left[Succ(n)] <= r
            /\ \A j \in flying : left[Succ(n)] < j
        BY <1>6, <2>1, <2>2, <4>4, <4>5, NextIsFirst
      <4>7. stacks'[s] = left /\ udpCounters'[s] = Succ(n) /\ network'[s] = flying
        BY <1>7, <1>8, <1>9, <3>3
      <4>8. GivenUp(s)'
        BY <1>10, <3>3, <4>2, <4>6, <4>7 DEF GivenUp, Stacked, Filled
      <4> QED
        BY <4>8 DEF CounterKept
    <3> QED
      BY <3>2, <3>3
  <2>5. last'[s] > last[s]
    <3>1. last'[s] = f
      BY <1>9, <2>1
    <3> HIDE DEF f
    <3> QED
      BY <1>3, <2>2, <3>1 DEF l
  <2> QED
    BY <1>7, <2>3, <2>4, <2>5 DEF SourceKept
<1>12. CASE CounterFollows(s)
  <2>1. PICK e \in Nat : n = e % Modulus /\ (e = l \/ (l > 0 /\ e = l - 1))
    <3>1. n = l % Modulus \/ (l > 0 /\ n = (l - 1) % Modulus)
      BY <1>12 DEF CounterFollows, n, l
    <3> QED
      BY <1>3, <3>1
  <2>2. e + 1 \in Nat /\ l <= e + 1 /\ e <= l + 1 /\ l <= (e + 1) + 1 /\ e + 1 <= l + 1
    BY <1>3, <2>1
  <2>3. stack[n] = Empty
    <3> SUFFICES ASSUME stack[n] # Empty PROVE FALSE
      OBVIOUS
    <3>1. stack[e % Modulus] # Empty
      BY <2>1
    <3>2. e = l + 1
      BY <1>3, <2>2, <3>1, SlotHolds
    <3> QED
      BY <1>3, <2>1, <3>2
  <2>4. left = stack
    BY <1>6, <2>3 DEF Stacks, n
  <2>5. stacks'[s] = stack /\ delivered'[s] = delivered[s] /\ last'[s] = last[s]
    BY <1>9, <2>3, <2>4 DEF l
  <2>6. StackKept(s)'
    <3>1. Stacked(stack) \subseteq received'[s] /\ received'[s] \subseteq delivered[s] \cup Stacked(stack)
      BY <1>4, <1>7
    <3>2. last[s] \in received'[s] /\ network'[s] \subseteq Nat /\ \A j \in network'[s] : last[s] < j
      BY <1>3, <1>4, <1>6, <1>7 DEF l
    <3>3. (\A r \in delivered[s] : r <= last[s]) /\ Holds(stack, last[s]) /\ last[s] \in Nat
      BY <1>3, <1>4 DEF l
    <3> QED
      BY <1>8, <2>5, <3>1, <3>2, <3>3, StaysStacked
  <2>7. CounterKept(s)'
    <3>1. CASE ~MoreAfter(stack, n)
      BY <1>8, <1>12, <2>5, <3>1 DEF CounterKept, CounterFollows, n
    <3>2. CASE MoreAfter(stack, n)
      <4>1. Succ(n) = (e + 1) % Modulus
        BY <2>1, ModAdd DEF Succ
      <4>2. stack[Succ(n)] # Empty
        BY <2>4, <3>2 DEF MoreAfter
      <4>3. stack[(e + 1) % Modulus] # Empty
        BY <4>1, <4>2
      <4>4. stack[Succ(n)] = l + 1
        BY <1>3, <2>2, <4>1, <4>3, SlotHolds
      <4>5. Succ(n) \in Counters
        BY CounterFacts DEF n
      <4>6. /\ \A r \in Stacked(stack) : stack[Succ(n)] <= r
            /\ \A j \in flying : stack[Succ(n)] < j
        BY <1>3, <1>4, <1>6, <4>4, <4>5, NextIsFirst
      <4>7. stacks'[s] = stack /\ udpCounters'[s] = Succ(n) /\ network'[s] = flying
        BY <1>7, <1>8, <2>5, <3>2
      <4>8. GivenUp(s)'
        BY <1>10, <3>2, <4>2, <4>6, <4>7 DEF GivenUp, Stacked, Filled
      <4> QED
        BY <4>8 DEF CounterKept
    <3> QED
      BY <3>1, <3>2
  <2> QED
    BY <1>7, <2>5, <2>6, <2>7 DEF SourceKept
<1> QED
  BY <1>2, <1>11, <1>12 DEF CounterKept, n

LEMMA AgainOrder ==
  ASSUME Tolerated, UdpOrderInv, ReceiveAgain
  PROVE  /\ UdpOrderInv'
         /\ duplicated' = 0 =>
              \A t \in Sources : last'[t] # last[t] => last'[t] > last[t]
<1>1. UdpInv /\ UdpInv' /\ stackedIp \in Sources /\ udpCounters[stackedIp] \in Counters
  BY ReceiveAgainKeeps DEF UdpOrderInv, UdpInv, StackedIsKnown, ReceiveAgain
<1> PICK s \in Sources : s = stackedIp
  BY <1>1
<1>2. /\ stacks \in [Sources -> Stacks] /\ delivered \in [Sources -> SUBSET Ranks]
      /\ last \in [Sources -> Ranks \cup {Empty}] /\ udpCounters \in [Sources -> Counters \cup {Empty}]
  BY <1>1 DEF UdpInv, TypeOK, Stacks
<1>3. duplicated = 0 => \A t \in Sources : SourceKept(t)
  BY DEF UdpOrderInv
<1>4. UNCHANGED <<sent, network, received, lost, duplicated>>
  BY DEF ReceiveAgain, netVars
<1>5. duplicated' = 0 => SourceKept(s)' /\ (last'[s] # last[s] => last'[s] > last[s])
  BY <1>1, <1>3, <1>4, AgainKnown
<1>6. \A t \in Sources \ {s} :
           /\ stacks'[t] = stacks[t] /\ delivered'[t] = delivered[t] /\ last'[t] = last[t]
           /\ udpCounters'[t] = udpCounters[t]
  <2> DEFINE stack == stacks[s]
             n == udpCounters[s]
  <2>1. HandleStack(s, stack, counter[s], n)
    BY DEF ReceiveAgain
  <2>2. \A t \in Sources \ {s} : udpCounters'[t] = udpCounters[t]
    BY <1>2 DEF ReceiveAgain
  <2> HIDE DEF stack, n
  <2>3. \A t \in Sources \ {s} : stacks'[t] = stacks[t] /\ delivered'[t] = delivered[t] /\ last'[t] = last[t]
    BY <1>2, <2>1 DEF HandleStack
  <2> QED
    BY <2>2, <2>3
<1>7. /\ duplicated' = 0 => duplicated = 0
      /\ lost' = lost /\ (pc = "again" => stackedIp = s)
      /\ \A t \in Sources : sent'[t] = sent[t] /\ network'[t] = network[t] /\ received'[t] = received[t]
  BY <1>4
<1>8. UdpOrderInv'
  BY <1>1, <1>3, <1>5, <1>6, <1>7, OneSourceCall
<1> QED
  BY <1>5, <1>6, <1>8

\* What every step does to the order of a source.
LEMMA OrderStep ==
  ASSUME Tolerated, UdpOrderInv, [Next]_vars
  PROVE  /\ UdpOrderInv'
         /\ duplicated' = 0 => \A t \in Sources : last'[t] # last[t] => last'[t] > last[t]
<1>1. CASE \E s \in Sources : Send(s)
  BY <1>1, SendOrder DEF Send, rcvVars
<1>2. CASE \E s \in Sources : \E k \in network[s] : Lose(s, k)
  BY <1>2, LoseOrder DEF Lose, rcvVars
<1>3. CASE \E s \in Sources : \E k \in network[s] : Receive(s, k)
  BY <1>3, ReceiveOrder
<1>4. CASE ReceiveAgain
  BY <1>4, AgainOrder
<1>5. CASE UNCHANGED vars
  <2>1. UdpInv'
    BY <1>5, UdpStep DEF UdpOrderInv
  <2>2. ASSUME duplicated' = 0, NEW t \in Sources
        PROVE  SourceKept(t)'
    <3>1. UdpInv /\ SourceKept(t) /\ lost <= lost'
      BY <1>5, <2>2, SourceTyped DEF UdpOrderInv, vars
    <3>2. /\ sent'[t] = sent[t] /\ network'[t] = network[t] /\ received'[t] = received[t]
          /\ stacks'[t] = stacks[t] /\ delivered'[t] = delivered[t] /\ last'[t] = last[t]
          /\ udpCounters'[t] = udpCounters[t] /\ pc' = pc /\ stackedIp' = stackedIp
      BY <1>5 DEF vars
    <3> QED
      BY <2>1, <3>1, <3>2, OtherKept
  <2> QED
    BY <1>5, <2>1, <2>2 DEF UdpOrderInv, vars
<1> QED
  BY <1>1, <1>2, <1>3, <1>4, <1>5 DEF Next

\* With the network Tolerated allows, the invariant of the order holds.
THEOREM OrderInvariant == ASSUME Tolerated PROVE Spec => []UdpOrderInv
<1>1. Init => UdpOrderInv
  BY InitUdpOrder
<1>2. UdpOrderInv /\ [Next]_vars => UdpOrderInv'
  BY OrderStep
<1> QED
  BY <1>1, <1>2, PTL DEF Spec

\* UdpChannel::receive: what reached the receiver is delivered or still stacked,
\* through losses, wrap-arounds of the counter and datagrams given up, as long
\* as none is duplicated and the network stays within Tolerated.
THEOREM NothingIsForgotten == ASSUME Tolerated PROVE Spec => []NothingForgotten
<1>1. UdpOrderInv => NothingForgotten
  <2> SUFFICES ASSUME UdpOrderInv, duplicated = 0, NEW s \in Sources, NEW k \in received[s]
               PROVE  k \in delivered[s] \/ \E n \in Counters : stacks[s][n] = k
    BY DEF NothingForgotten
  <2>1. k \in delivered[s] \/ k \in Stacked(stacks[s])
    BY DEF UdpOrderInv, SourceKept, StackKept
  <2> QED
    BY <2>1 DEF Stacked, Filled
<1> QED
  BY <1>1, OrderInvariant, PTL

\* UdpChannel::receive: under the same conditions the datagrams of a source go
\* up in the order they were sent, each once.
THEOREM UdpDeliversInOrder == ASSUME Tolerated PROVE Spec => DeliveredInOrder
<1>1. UdpOrderInv /\ [Next]_vars
        => [duplicated' = 0 => \A s \in Sources : last'[s] # last[s] => last'[s] > last[s]]_vars
  BY OrderStep
<1> QED
  BY <1>1, OrderInvariant, PTL DEF Spec, DeliveredInOrder
=============================================================================
