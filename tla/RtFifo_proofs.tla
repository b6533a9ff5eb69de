--------------------------- MODULE RtFifo_proofs ---------------------------
(***************************************************************************)
(* Theorems about RtFifo for every set of producers, every set of messages *)
(* and every capacity, whether or not the system calls may fail.           *)
(*                                                                         *)
(* The argument: neither PlacesAccounted nor SignalsAccounted is inductive *)
(* by itself.  Both count producers by their program counter, so one needs *)
(* to know who owns the mutex (Ownership) and that a place was taken       *)
(* before a message is queued; a pop needs a message in the fifo, which is *)
(* what SignalsAccounted says once the reader has read its word.           *)
(***************************************************************************)
EXTENDS RtFifo, FiniteSetTheorems, TLAPS

\* The mutex is held exactly between acquireLock and releaseLock.
Ownership ==
  /\ \A p \in Producers : mutex = p <=> pc[p] \in {"queue", "signal"}
  /\ mutex = Reader <=> rpc = "pop"

\* What push and the reader's event hold at each point of the code.
Held ==
  /\ \A p \in Producers : pc[p] # "idle" => msg[p] \in Messages
  /\ elem # NoMsg <=> rpc \in {"post", "onEvent"}

\* The inductive invariant.
FifoInv ==
  /\ TypeOK
  /\ Ownership
  /\ Held
  /\ PlacesAccounted
  /\ SignalsAccounted

-----------------------------------------------------------------------------
(* The two counted sets are finite, whatever the program counters are.      *)

LEMMA CountedFinite ==
  /\ IsFiniteSet(Reserving) /\ Cardinality(Reserving) \in Nat
  /\ IsFiniteSet(Signalling) /\ Cardinality(Signalling) \in Nat
BY ProducersAssumption, FS_Subset, FS_CardinalityType DEF Reserving, Signalling

LEMMA CountedFiniteNext ==
  /\ IsFiniteSet(Reserving') /\ Cardinality(Reserving') \in Nat
  /\ IsFiniteSet(Signalling') /\ Cardinality(Signalling') \in Nat
BY ProducersAssumption, FS_Subset, FS_CardinalityType DEF Reserving, Signalling

\* A step that leaves every program counter alone changes neither count.
LEMMA CountsKept ==
  ASSUME pc' = pc
  PROVE  Reserving' = Reserving /\ Signalling' = Signalling
BY DEF Reserving, Signalling

-----------------------------------------------------------------------------
\* RtFifo.cpp leaves the constructor and init in a consistent state.
LEMMA InitFifoInv == Init => FifoInv
<1> SUFFICES ASSUME Init PROVE FifoInv
  OBVIOUS
<1>1. TypeOK
  BY MaxSizeAssumption DEF Init, TypeOK
<1>2. Ownership /\ Held
  BY NamesAssumption DEF Init, Ownership, Held
<1>3. Reserving = {} /\ Signalling = {}
  BY DEF Init, Reserving, Signalling
<1>4. PlacesAccounted /\ SignalsAccounted
  BY <1>3, FS_EmptySet, MaxSizeAssumption DEF Init, PlacesAccounted, SignalsAccounted
<1> QED
  BY <1>1, <1>2, <1>4 DEF FifoInv

\* Every step of a producer or of the reader keeps the program counters in
\* range, the mutex with its owner and the messages where they are used.
LEMMA NextTypeOK ==
  ASSUME FifoInv, [Next]_vars, PopFindsMessage
  PROVE  TypeOK' /\ Ownership' /\ Held'
<1> USE NamesAssumption
<1>0. TypeOK /\ Ownership /\ Held
  BY DEF FifoInv
<1>1. ASSUME NEW p \in Producers, NEW m \in Messages, PushCall(p, m)
      PROVE  TypeOK' /\ Ownership' /\ Held'
  BY <1>0, <1>1 DEF PushCall, TypeOK, Ownership, Held
<1>2. ASSUME NEW p \in Producers, PushSemWait(p)
      PROVE  TypeOK' /\ Ownership' /\ Held'
  BY <1>0, <1>2 DEF PushSemWait, TypeOK, Ownership, Held
<1>3. ASSUME NEW p \in Producers, PushLock(p)
      PROVE  TypeOK' /\ Ownership' /\ Held'
  BY <1>0, <1>3 DEF PushLock, TypeOK, Ownership, Held
<1>4. ASSUME NEW p \in Producers, PushQueue(p)
      PROVE  TypeOK' /\ Ownership' /\ Held'
  BY <1>0, <1>4 DEF PushQueue, TypeOK, Ownership, Held
<1>5. ASSUME NEW p \in Producers, PushSignal(p)
      PROVE  TypeOK' /\ Ownership' /\ Held'
  BY <1>0, <1>5 DEF PushSignal, TypeOK, Ownership, Held
<1>6. ASSUME NEW p \in Producers, PushSemWaitFails(p)
      PROVE  TypeOK' /\ Ownership' /\ Held'
  BY <1>0, <1>6 DEF PushSemWaitFails, TypeOK, Ownership, Held
<1>7. ASSUME NEW p \in Producers, PushSignalFails(p)
      PROVE  TypeOK' /\ Ownership' /\ Held'
  BY <1>0, <1>7 DEF PushSignalFails, TypeOK, Ownership, Held
<1>8. CASE ReadSignal
  BY <1>0, <1>8 DEF ReadSignal, TypeOK, Ownership, Held
<1>9. CASE PopLock
  BY <1>0, <1>9 DEF PopLock, TypeOK, Ownership, Held
<1>10. CASE PopFront
  <2>1. fifo # <<>>
    BY <1>10 DEF PopFindsMessage, PopFront
  <2>2. Head(fifo) \in Messages /\ Tail(fifo) \in Seq(Messages)
    BY <1>0, <2>1 DEF TypeOK
  <2> QED
    BY <1>0, <1>10, <2>1, <2>2 DEF PopFront, TypeOK, Ownership, Held
<1>11. CASE PopPost
  BY <1>0, <1>11 DEF PopPost, TypeOK, Ownership, Held
<1>12. CASE OnEvent
  BY <1>0, <1>12 DEF OnEvent, TypeOK, Ownership, Held
<1>13. CASE UNCHANGED vars
  BY <1>0, <1>13 DEF vars, TypeOK, Ownership, Held
<1> QED
  BY <1>1, <1>2, <1>3, <1>4, <1>5, <1>6, <1>7, <1>8, <1>9, <1>10, <1>11, <1>12, <1>13
     DEF Next, Push, PushError, Read

-----------------------------------------------------------------------------
\* The reader's word and the mutex guarantee it a message: "Fifo is already
\* empty" is never reported.
LEMMA PopIsSafe == FifoInv => PopFindsMessage
<1> SUFFICES ASSUME FifoInv, rpc = "pop" PROVE fifo # <<>>
  BY DEF PopFindsMessage
<1>1. fifo \in Seq(Messages) /\ pipe \in Nat /\ lostSignals \in Nat
  BY DEF FifoInv, TypeOK
<1>2. Len(fifo) = pipe + Cardinality(Signalling) + lostSignals + 1
  BY DEF FifoInv, SignalsAccounted
<1>3. Len(fifo) > 0
  BY <1>1, <1>2, CountedFinite
<1> QED
  BY <1>1, <1>3

\* A producer that sem_wait let through has a place, whatever the others do:
\* "Size is greater than maximum size" is never reported.
LEMMA PushIsSafe == FifoInv => PushFindsRoom
<1> SUFFICES ASSUME FifoInv, NEW p \in Producers, pc[p] = "queue"
             PROVE  Len(fifo) < MaxSize
  BY DEF PushFindsRoom
<1>1. p \in Reserving
  BY DEF Reserving
<1>2. Cardinality(Reserving) >= 1
  BY <1>1, CountedFinite, FS_EmptySet
<1>3. sem + Len(fifo) + Cardinality(Reserving) + (IF rpc = "post" THEN 1 ELSE 0) = MaxSize
  BY DEF FifoInv, PlacesAccounted
<1>4. sem \in Nat /\ fifo \in Seq(Messages)
  BY DEF FifoInv, TypeOK
<1> QED
  BY <1>2, <1>3, <1>4, CountedFinite, MaxSizeAssumption

\* The fifo is stuck only when every place is held by a message whose signal
\* was lost.
LEMMA WedgeNeedsLostSignals == FifoInv => WedgedOnlyByLostSignals
<1> SUFFICES ASSUME FifoInv, pipe = 0, sem = 0, mutex = Free, Reserving = {}, rpc = "select"
             PROVE  lostSignals = MaxSize
  BY DEF WedgedOnlyByLostSignals
<1>1. Signalling = {}
  BY NamesAssumption DEF FifoInv, Ownership, Signalling
<1>2. Len(fifo) = MaxSize
  BY FS_EmptySet, MaxSizeAssumption DEF FifoInv, TypeOK, PlacesAccounted
<1>3. Len(fifo) = lostSignals
  BY <1>1, FS_EmptySet DEF FifoInv, TypeOK, SignalsAccounted
<1> QED
  BY <1>2, <1>3

-----------------------------------------------------------------------------
\* What the steps of push do to the two counted sets.
LEMMA CountsMoved ==
  ASSUME TypeOK, NEW p \in Producers
  PROVE  /\ PushSemWait(p) => /\ Cardinality(Reserving') = Cardinality(Reserving) + 1
                              /\ Signalling' = Signalling
         /\ PushLock(p) => /\ Reserving' = Reserving
                           /\ Signalling' = Signalling
         /\ PushQueue(p) => /\ Cardinality(Reserving') = Cardinality(Reserving) - 1
                            /\ Cardinality(Signalling') = Cardinality(Signalling) + 1
         /\ PushSignal(p) \/ PushSignalFails(p)
              => /\ Reserving' = Reserving
                 /\ Cardinality(Signalling') = Cardinality(Signalling) - 1
<1>0. pc \in [Producers -> {"idle", "semwait", "lock", "queue", "signal"}]
  BY DEF TypeOK
<1>1. ASSUME PushSemWait(p)
      PROVE  /\ Cardinality(Reserving') = Cardinality(Reserving) + 1
             /\ Signalling' = Signalling
  <2>1. Reserving' = Reserving \cup {p} /\ p \notin Reserving /\ Signalling' = Signalling
    BY <1>0, <1>1 DEF PushSemWait, Reserving, Signalling
  <2> QED
    BY <2>1, CountedFinite, FS_AddElement
<1>2. ASSUME PushLock(p)
      PROVE  Reserving' = Reserving /\ Signalling' = Signalling
  BY <1>0, <1>2 DEF PushLock, Reserving, Signalling
<1>3. ASSUME PushQueue(p)
      PROVE  /\ Cardinality(Reserving') = Cardinality(Reserving) - 1
             /\ Cardinality(Signalling') = Cardinality(Signalling) + 1
  <2>1. Reserving' = Reserving \ {p} /\ p \in Reserving
    BY <1>0, <1>3 DEF PushQueue, Reserving
  <2>2. Signalling' = Signalling \cup {p} /\ p \notin Signalling
    BY <1>0, <1>3 DEF PushQueue, Signalling
  <2>3. Cardinality(Reserving') = Cardinality(Reserving) - 1
    BY <2>1, CountedFinite, FS_RemoveElement
  <2>4. Cardinality(Signalling') = Cardinality(Signalling) + 1
    BY <2>2, CountedFinite, FS_AddElement
  <2> QED
    BY <2>3, <2>4
<1>4. ASSUME PushSignal(p) \/ PushSignalFails(p)
      PROVE  /\ Reserving' = Reserving
             /\ Cardinality(Signalling') = Cardinality(Signalling) - 1
  <2>1. Reserving' = Reserving /\ Signalling' = Signalling \ {p} /\ p \in Signalling
    BY <1>0, <1>4 DEF PushSignal, PushSignalFails, Reserving, Signalling
  <2> QED
    BY <2>1, CountedFinite, FS_RemoveElement
<1> QED
  BY <1>1, <1>2, <1>3, <1>4

\* Every step moves as much in the queue as it moves in the semaphore, on the
\* pipe and among the threads in between.
LEMMA NextAccounted ==
  ASSUME FifoInv, [Next]_vars, PopFindsMessage
  PROVE  PlacesAccounted' /\ SignalsAccounted'
<1>0. /\ TypeOK
      /\ sem + Len(fifo) + Cardinality(Reserving) + (IF rpc = "post" THEN 1 ELSE 0) = MaxSize
      /\ Len(fifo) = pipe + Cardinality(Signalling) + lostSignals
                     + (IF rpc \in {"lock", "pop"} THEN 1 ELSE 0)
      /\ sem \in Nat /\ pipe \in Nat /\ lostSignals \in Nat /\ fifo \in Seq(Messages)
  BY DEF FifoInv, TypeOK, PlacesAccounted, SignalsAccounted
<1>a. fifo \in Seq(Messages)
  BY <1>0
<1>b. ASSUME NEW p \in Producers, PushQueue(p)
      PROVE  Len(fifo') = Len(fifo) + 1
  <2>1. msg[p] \in Messages
    BY <1>b DEF FifoInv, Held, PushQueue
  <2> QED
    BY <1>a, <1>b, <2>1 DEF PushQueue
<1>c. PopFront => Len(fifo') = Len(fifo) - 1
  BY <1>a DEF PopFront, PopFindsMessage
<1>d. /\ sem \in Nat /\ pipe \in Nat /\ lostSignals \in Nat /\ Len(fifo) \in Nat
      /\ Cardinality(Reserving) \in Nat /\ Cardinality(Signalling) \in Nat
  BY <1>0, <1>a, CountedFinite
<1>e. Len(fifo) = pipe + Cardinality(Signalling) + lostSignals
                  + (IF rpc \in {"lock", "pop"} THEN 1 ELSE 0)
  BY <1>0
<1>f. sem + Len(fifo) + Cardinality(Reserving) + (IF rpc = "post" THEN 1 ELSE 0) = MaxSize
  BY <1>0
<1>1. ASSUME NEW p \in Producers, NEW m \in Messages, PushCall(p, m)
      PROVE  PlacesAccounted' /\ SignalsAccounted'
  <2>1. Reserving' = Reserving /\ Signalling' = Signalling
    BY <1>0, <1>1 DEF PushCall, TypeOK, Reserving, Signalling
  <2>2. Len(fifo') = Len(fifo)
    BY <1>1 DEF PushCall
  <2>3. /\ sem' = sem /\ pipe' = pipe /\ rpc' = rpc
        /\ lostSignals' = lostSignals
    BY <1>1 DEF PushCall
  <2>4. PlacesAccounted'
    BY ONLY <1>d, <1>f, <2>1, <2>2, <2>3 DEF PlacesAccounted
  <2>5. SignalsAccounted'
    BY ONLY <1>d, <1>e, <2>1, <2>2, <2>3 DEF SignalsAccounted
  <2> QED
    BY <2>4, <2>5
<1>2. ASSUME NEW p \in Producers, PushSemWait(p)
      PROVE  PlacesAccounted' /\ SignalsAccounted'
  <2>1. Cardinality(Reserving') = Cardinality(Reserving) + 1 /\ Signalling' = Signalling
    BY <1>0, <1>2, CountsMoved
  <2>2. Len(fifo') = Len(fifo)
    BY <1>2 DEF PushSemWait
  <2>3. /\ sem' = sem - 1 /\ pipe' = pipe /\ rpc' = rpc
        /\ lostSignals' = lostSignals
    BY <1>2 DEF PushSemWait
  <2>4. PlacesAccounted'
    BY ONLY <1>d, <1>f, <2>1, <2>2, <2>3 DEF PlacesAccounted
  <2>5. SignalsAccounted'
    BY ONLY <1>d, <1>e, <2>1, <2>2, <2>3 DEF SignalsAccounted
  <2> QED
    BY <2>4, <2>5
<1>3. ASSUME NEW p \in Producers, PushLock(p)
      PROVE  PlacesAccounted' /\ SignalsAccounted'
  <2>1. Reserving' = Reserving /\ Signalling' = Signalling
    BY <1>0, <1>3, CountsMoved
  <2>2. Len(fifo') = Len(fifo)
    BY <1>3 DEF PushLock
  <2>3. /\ sem' = sem /\ pipe' = pipe /\ rpc' = rpc
        /\ lostSignals' = lostSignals
    BY <1>3 DEF PushLock
  <2>4. PlacesAccounted'
    BY ONLY <1>d, <1>f, <2>1, <2>2, <2>3 DEF PlacesAccounted
  <2>5. SignalsAccounted'
    BY ONLY <1>d, <1>e, <2>1, <2>2, <2>3 DEF SignalsAccounted
  <2> QED
    BY <2>4, <2>5
<1>4. ASSUME NEW p \in Producers, PushQueue(p)
      PROVE  PlacesAccounted' /\ SignalsAccounted'
  <2>1. /\ Cardinality(Reserving') = Cardinality(Reserving) - 1
        /\ Cardinality(Signalling') = Cardinality(Signalling) + 1
    BY <1>0, <1>4, CountsMoved
  <2>2. Len(fifo') = Len(fifo) + 1
    BY <1>4, <1>b
  <2>3. /\ sem' = sem /\ pipe' = pipe /\ rpc' = rpc
        /\ lostSignals' = lostSignals
    BY <1>4 DEF PushQueue
  <2>4. PlacesAccounted'
    BY ONLY <1>d, <1>f, <2>1, <2>2, <2>3 DEF PlacesAccounted
  <2>5. SignalsAccounted'
    BY ONLY <1>d, <1>e, <2>1, <2>2, <2>3 DEF SignalsAccounted
  <2> QED
    BY <2>4, <2>5
<1>5. ASSUME NEW p \in Producers, PushSignal(p)
      PROVE  PlacesAccounted' /\ SignalsAccounted'
  <2>1. Reserving' = Reserving /\ Cardinality(Signalling') = Cardinality(Signalling) - 1
    BY <1>0, <1>5, CountsMoved
  <2>2. Len(fifo') = Len(fifo)
    BY <1>5 DEF PushSignal
  <2>3. /\ sem' = sem /\ pipe' = pipe + 1 /\ rpc' = rpc
        /\ lostSignals' = lostSignals
    BY <1>5 DEF PushSignal
  <2>4. PlacesAccounted'
    BY ONLY <1>d, <1>f, <2>1, <2>2, <2>3 DEF PlacesAccounted
  <2>5. SignalsAccounted'
    BY ONLY <1>d, <1>e, <2>1, <2>2, <2>3 DEF SignalsAccounted
  <2> QED
    BY <2>4, <2>5
<1>6. ASSUME NEW p \in Producers, PushSemWaitFails(p)
      PROVE  PlacesAccounted' /\ SignalsAccounted'
  <2>1. Reserving' = Reserving /\ Signalling' = Signalling
    BY <1>0, <1>6 DEF PushSemWaitFails, TypeOK, Reserving, Signalling
  <2>2. Len(fifo') = Len(fifo)
    BY <1>6 DEF PushSemWaitFails
  <2>3. /\ sem' = sem /\ pipe' = pipe /\ rpc' = rpc
        /\ lostSignals' = lostSignals
    BY <1>6 DEF PushSemWaitFails
  <2>4. PlacesAccounted'
    BY ONLY <1>d, <1>f, <2>1, <2>2, <2>3 DEF PlacesAccounted
  <2>5. SignalsAccounted'
    BY ONLY <1>d, <1>e, <2>1, <2>2, <2>3 DEF SignalsAccounted
  <2> QED
    BY <2>4, <2>5
<1>7. ASSUME NEW p \in Producers, PushSignalFails(p)
      PROVE  PlacesAccounted' /\ SignalsAccounted'
  <2>1. Reserving' = Reserving /\ Cardinality(Signalling') = Cardinality(Signalling) - 1
    BY <1>0, <1>7, CountsMoved
  <2>2. Len(fifo') = Len(fifo)
    BY <1>7 DEF PushSignalFails
  <2>3. /\ sem' = sem /\ pipe' = pipe /\ rpc' = rpc
        /\ lostSignals' = lostSignals + 1
    BY <1>7 DEF PushSignalFails
  <2>4. PlacesAccounted'
    BY ONLY <1>d, <1>f, <2>1, <2>2, <2>3 DEF PlacesAccounted
  <2>5. SignalsAccounted'
    BY ONLY <1>d, <1>e, <2>1, <2>2, <2>3 DEF SignalsAccounted
  <2> QED
    BY <2>4, <2>5
<1>8. CASE ReadSignal
  <2>1. Reserving' = Reserving /\ Signalling' = Signalling
    BY <1>8, CountsKept DEF ReadSignal
  <2>2. Len(fifo') = Len(fifo)
    BY <1>8 DEF ReadSignal
  <2>3. /\ sem' = sem /\ pipe' = pipe - 1 /\ lostSignals' = lostSignals
        /\ rpc = "select" /\ rpc' = "lock"
    BY <1>8 DEF ReadSignal
  <2>4. PlacesAccounted'
    BY ONLY <1>d, <1>f, <2>1, <2>2, <2>3 DEF PlacesAccounted
  <2>5. SignalsAccounted'
    BY ONLY <1>d, <1>e, <2>1, <2>2, <2>3 DEF SignalsAccounted
  <2> QED
    BY <2>4, <2>5
<1>9. CASE PopLock
  <2>1. Reserving' = Reserving /\ Signalling' = Signalling
    BY <1>9, CountsKept DEF PopLock
  <2>2. Len(fifo') = Len(fifo)
    BY <1>9 DEF PopLock
  <2>3. /\ sem' = sem /\ pipe' = pipe /\ lostSignals' = lostSignals
        /\ rpc = "lock" /\ rpc' = "pop"
    BY <1>9 DEF PopLock
  <2>4. PlacesAccounted'
    BY ONLY <1>d, <1>f, <2>1, <2>2, <2>3 DEF PlacesAccounted
  <2>5. SignalsAccounted'
    BY ONLY <1>d, <1>e, <2>1, <2>2, <2>3 DEF SignalsAccounted
  <2> QED
    BY <2>4, <2>5
<1>10. CASE PopFront
  <2>1. Reserving' = Reserving /\ Signalling' = Signalling
    BY <1>10, CountsKept DEF PopFront
  <2>2. Len(fifo') = Len(fifo) - 1
    BY <1>10, <1>c
  <2>3. /\ sem' = sem /\ pipe' = pipe /\ lostSignals' = lostSignals
        /\ rpc = "pop" /\ rpc' = "post"
    BY <1>10 DEF PopFront
  <2>4. PlacesAccounted'
    BY ONLY <1>d, <1>f, <2>1, <2>2, <2>3 DEF PlacesAccounted
  <2>5. SignalsAccounted'
    BY ONLY <1>d, <1>e, <2>1, <2>2, <2>3 DEF SignalsAccounted
  <2> QED
    BY <2>4, <2>5
<1>11. CASE PopPost
  <2>1. Reserving' = Reserving /\ Signalling' = Signalling
    BY <1>11, CountsKept DEF PopPost
  <2>2. Len(fifo') = Len(fifo)
    BY <1>11 DEF PopPost
  <2>3. /\ sem' = sem + 1 /\ pipe' = pipe /\ lostSignals' = lostSignals
        /\ rpc = "post" /\ rpc' = "onEvent"
    BY <1>11 DEF PopPost
  <2>4. PlacesAccounted'
    BY ONLY <1>d, <1>f, <2>1, <2>2, <2>3 DEF PlacesAccounted
  <2>5. SignalsAccounted'
    BY ONLY <1>d, <1>e, <2>1, <2>2, <2>3 DEF SignalsAccounted
  <2> QED
    BY <2>4, <2>5
<1>12. CASE OnEvent
  <2>1. Reserving' = Reserving /\ Signalling' = Signalling
    BY <1>12, CountsKept DEF OnEvent
  <2>2. Len(fifo') = Len(fifo)
    BY <1>12 DEF OnEvent
  <2>3. /\ sem' = sem /\ pipe' = pipe /\ lostSignals' = lostSignals
        /\ rpc = "onEvent" /\ rpc' = "select"
    BY <1>12 DEF OnEvent
  <2>4. PlacesAccounted'
    BY ONLY <1>d, <1>f, <2>1, <2>2, <2>3 DEF PlacesAccounted
  <2>5. SignalsAccounted'
    BY ONLY <1>d, <1>e, <2>1, <2>2, <2>3 DEF SignalsAccounted
  <2> QED
    BY <2>4, <2>5
<1>13. CASE UNCHANGED vars
  <2>1. Reserving' = Reserving /\ Signalling' = Signalling
    BY <1>13, CountsKept DEF vars
  <2>2. Len(fifo') = Len(fifo)
    BY <1>13 DEF vars
  <2>3. /\ sem' = sem /\ pipe' = pipe /\ lostSignals' = lostSignals
        /\ rpc' = rpc
    BY <1>13 DEF vars
  <2>4. PlacesAccounted'
    BY ONLY <1>d, <1>f, <2>1, <2>2, <2>3 DEF PlacesAccounted
  <2>5. SignalsAccounted'
    BY ONLY <1>d, <1>e, <2>1, <2>2, <2>3 DEF SignalsAccounted
  <2> QED
    BY <2>4, <2>5
<1> QED
  BY <1>1, <1>2, <1>3, <1>4, <1>5, <1>6, <1>7, <1>8, <1>9, <1>10, <1>11, <1>12, <1>13
     DEF Next, Push, PushError, Read

\* FifoInv is inductive.
LEMMA NextFifoInv == FifoInv /\ [Next]_vars => FifoInv'
BY PopIsSafe, NextTypeOK, NextAccounted DEF FifoInv

-----------------------------------------------------------------------------
(* The theorems. *)

\* FifoInv holds of every state of push, pop and the reader's event loop.
THEOREM FifoInvariant == Spec => []FifoInv
BY InitFifoInv, NextFifoInv, PTL DEF Spec

\* The type invariant: the semaphore never goes below zero, the queue only
\* ever holds messages that were pushed.
THEOREM FifoTypeOK == Spec => []TypeOK
<1>1. FifoInv => TypeOK
  BY DEF FifoInv
<1> QED
  BY <1>1, FifoInvariant, PTL

\* RtFifo::pop never reports an empty fifo, even when pushes fail half way.
THEOREM PopNeverEmpty == Spec => []PopFindsMessage
BY PopIsSafe, FifoInvariant, PTL

\* RtFifo::push never reports a fifo above its maximum size.
THEOREM PushNeverFull == Spec => []PushFindsRoom
BY PushIsSafe, FifoInvariant, PTL

\* No place of the fifo is lost or freed twice, on any path of push and pop.
THEOREM PlacesNeverLost == Spec => []PlacesAccounted
<1>1. FifoInv => PlacesAccounted
  BY DEF FifoInv
<1> QED
  BY <1>1, FifoInvariant, PTL

\* Every message in the queue has a wake-up under way unless its own was lost.
THEOREM SignalsNeverLost == Spec => []SignalsAccounted
<1>1. FifoInv => SignalsAccounted
  BY DEF FifoInv
<1> QED
  BY <1>1, FifoInvariant, PTL

\* The counters of the fifo agree: places, signals, and what push and pop rely on.
THEOREM CountersAgree == Spec => []Accounted
<1>1. PlacesAccounted /\ SignalsAccounted /\ PopFindsMessage /\ PushFindsRoom => Accounted
  BY DEF Accounted
<1> QED
  BY <1>1, PlacesNeverLost, SignalsNeverLost, PopNeverEmpty, PushNeverFull, PTL

\* The fifo wedges only when as many signals as it has places were lost.
THEOREM WedgeOnlyByLostSignals == Spec => []WedgedOnlyByLostSignals
BY WedgeNeedsLostSignals, FifoInvariant, PTL

-----------------------------------------------------------------------------
(* RtFifo implements BoundedQueue: fifo.push is Put, fifo.pop is Take, the  *)
(* end of onEvent is Finish, and every other step is a stutter.             *)

LEMMA InitRefines == Init => Abstract!QInit
BY DEF Init, Abstract!QInit

LEMMA NextRefines ==
  ASSUME FifoInv, [Next]_vars
  PROVE  [Abstract!QNext]_(Abstract!queueVars)
<1> USE DEF Abstract!queueVars
<1>0. PopFindsMessage /\ PushFindsRoom
  BY PopIsSafe, PushIsSafe
<1>1. ASSUME NEW p \in Producers, PushQueue(p)
      PROVE  Abstract!QNext
  <2>1. msg[p] \in Messages /\ Len(fifo) < MaxSize
    BY <1>0, <1>1 DEF FifoInv, Held, PushQueue, PushFindsRoom
  <2>2. Abstract!Put(msg[p])
    BY <1>1, <2>1 DEF PushQueue, Abstract!Put
  <2> QED
    BY <2>1, <2>2 DEF Abstract!QNext
<1>2. CASE PopFront
  <2>1. elem = NoMsg /\ fifo # <<>>
    BY <1>0, <1>2 DEF FifoInv, Held, PopFront, PopFindsMessage
  <2>2. Abstract!Take
    BY <1>2, <2>1 DEF PopFront, Abstract!Take
  <2> QED
    BY <2>2 DEF Abstract!QNext
<1>3. CASE OnEvent
  <2>1. elem # NoMsg
    BY <1>3 DEF FifoInv, Held, OnEvent
  <2>2. Abstract!Finish
    BY <1>3, <2>1 DEF OnEvent, Abstract!Finish
  <2> QED
    BY <2>2 DEF Abstract!QNext
<1>4. ASSUME NEW p \in Producers,
             \/ \E m \in Messages : PushCall(p, m)
             \/ PushSemWait(p) \/ PushLock(p) \/ PushSignal(p)
             \/ PushSemWaitFails(p) \/ PushSignalFails(p)
      PROVE  UNCHANGED <<fifo, elem>>
  BY <1>4 DEF PushCall, PushSemWait, PushLock, PushSignal, PushSemWaitFails, PushSignalFails
<1>5. ASSUME ReadSignal \/ PopLock \/ PopPost \/ UNCHANGED vars
      PROVE  UNCHANGED <<fifo, elem>>
  BY <1>5 DEF ReadSignal, PopLock, PopPost, vars
<1> QED
  BY <1>1, <1>2, <1>3, <1>4, <1>5 DEF Next, Push, PushError, Read

\* Whatever the interleaving and whichever calls fail, the two channels see a
\* bounded first-in first-out queue.
THEOREM FifoImplementsBoundedQueue == Spec => ImplementsBoundedQueue
BY InitRefines, NextRefines, FifoInvariant, PTL
   DEF Spec, ImplementsBoundedQueue, Abstract!QSpec
=============================================================================
