----------------------------- MODULE Rt_proofs -----------------------------
(***************************************************************************)
(* Theorems about the threads of opensand-rt: the event table of one       *)
(* channel (RtChannel), for any number of descriptors and events, of which *)
(* other threads take and give back as many as they like, and the stack of *)
(* blocks (Runtime), of any height, capacity of its fifos and routes.      *)
(*                                                                         *)
(* The argument for the table: a descriptor leaves the table, the set      *)
(* given to select and the process in one step (updateEvents), and the     *)
(* kernel gives out only descriptors that nobody has open; so the owner of *)
(* a descriptor is the one who opened it last.  What is needed besides is  *)
(* that the break pipe never counts as an event, that the set of select is *)
(* the table and that pipe, and that a batch is empty when the table       *)
(* changes.                                                                *)
(*                                                                         *)
(* The argument for WaitCyclesNeedUpShare: an upward channel waits for the *)
(* upward channel above it or for its own downward channel, a downward one *)
(* for the downward channel below it unless it shares upward.  In a circle *)
(* without such a share there is no lowest downward channel, hence no      *)
(* downward channel at all, and then no highest upward one either.         *)
(***************************************************************************)
EXTENDS RtChannel, Runtime, WellFoundedInduction, TLAPS

\* The set of select is kept together with the table.
SetFollowsTable ==
  /\ inputFds = DOMAIN events \cup {RSelBreak}
  /\ \A f \in inputFds : f <= maxInputFd

\* The break pipe is the channel's own and no event's; what can be read on it is
\* counted in breakWords.
BreakPipeKept ==
  /\ RSelBreak \in open \ others
  /\ RSelBreak \notin raised \cup dead
  /\ \A e \in Events : e.fd # RSelBreak

\* Only while it is processed does a batch hold anything.
BatchOver == pc # "process" => batch = {}

\* The inductive invariant.
ChannelInv ==
  /\ TypeOK
  /\ DescriptorsOwned
  /\ SetFollowsTable
  /\ BreakPipeKept
  /\ BatchEventsExist
  /\ BatchOver

-----------------------------------------------------------------------------
(* RtChannel: descriptors, maxima and the table with the new events. *)

\* Every set of naturals that is not empty has a least element.
LEMMA LeastNatural ==
  ASSUME NEW T, T \subseteq Nat, T # {}
  PROVE  \E x \in T : \A y \in T : x <= y
<1> DEFINE R == OpToRel(<, Nat)
<1>1. \A x, y \in Nat : <<x, y>> \in R <=> x < y
  BY DEF OpToRel
<1>2. IsWellFoundedOn(R, Nat)
  BY NatLessThanWellFounded
<1> HIDE DEF R
<1>3. PICK x \in T : \A y \in T : ~ (<<y, x>> \in R)
  BY <1>2, WFMin
<1>4. \A y \in T : x \in Nat /\ y \in Nat /\ ~ (y < x)
  BY <1>1, <1>3
<1> QED
  BY <1>4

\* Every bounded one has a greatest element.
LEMMA GreatestNatural ==
  ASSUME NEW T, T \subseteq Nat, T # {}, NEW n \in Nat, \A x \in T : x <= n
  PROVE  \E x \in T : \A y \in T : y <= x
<1> DEFINE U == {n - x : x \in T}
<1>1. U \subseteq Nat /\ U # {}
  <2>1. \A x \in T : x \in Nat /\ n - x \in Nat
    <3> TAKE x \in T
    <3>1. x \in Nat /\ x <= n
      OBVIOUS
    <3> QED
      BY <3>1
  <2> QED
    BY <2>1
<1>2. PICK u \in U : \A v \in U : u <= v
  BY <1>1, LeastNatural
<1>3. PICK x \in T : u = n - x
  OBVIOUS
<1>4. \A y \in T : y <= x
  <2> TAKE y \in T
  <2>1. x \in Nat /\ y \in Nat
    OBVIOUS
  <2>2. n - x <= n - y
    BY <1>2, <1>3
  <2> QED
    BY <2>1, <2>2
<1> QED
  BY <1>4

LEMMA FdsAreNaturals ==
  Fds \subseteq Nat /\ {RSelBreak, WSelBreak, StopFd, FifoFd} \subseteq Fds /\ MaxFd \in Nat
BY MaxFdAssumption DEF Fds, RSelBreak, WSelBreak, StopFd, FifoFd

LEMMA MaxOfIsGreatest ==
  ASSUME NEW S, S \subseteq Nat, S # {}, NEW n \in Nat, \A x \in S : x <= n
  PROVE  MaxOf(S) \in S /\ \A x \in S : x <= MaxOf(S)
<1>1. \E x \in S : \A y \in S : y <= x
  BY GreatestNatural
<1> QED
  BY <1>1 DEF MaxOf

LEMMA ElementOfSeq ==
  ASSUME NEW R, NEW s \in Seq(R), NEW i \in 1..Len(s)
  PROVE  s[i] \in R
OBVIOUS

LEMMA LowestIsFree ==
  ASSUME FreeFds # {}
  PROVE  LowestFree \in Fds /\ LowestFree \notin open
<1> PICK S : S = FreeFds
  OBVIOUS
<1>1. S \subseteq Nat /\ S # {}
  BY FdsAreNaturals DEF FreeFds
<1>2. \E f \in S : \A g \in S : f <= g
  BY <1>1, LeastNatural
<1>3. LowestFree \in FreeFds
  BY <1>2 DEF LowestFree
<1> QED
  BY <1>3 DEF FreeFds

\* Merging the new events makes the table of them and the old ones, and of
\* nothing else.
LEMMA WithNewIsEvents ==
  ASSUME TypeOK
  PROVE  /\ DOMAIN WithNew = DOMAIN events \cup {e.fd : e \in SeqRange(newEvents)}
         /\ \A f \in DOMAIN WithNew : [fd |-> f, id |-> WithNew[f]] \in Events
<1>1. DOMAIN WithNew = DOMAIN events \cup {e.fd : e \in SeqRange(newEvents)}
  BY DEF WithNew
<1>2. ASSUME NEW f \in DOMAIN WithNew
      PROVE  [fd |-> f, id |-> WithNew[f]] \in Events
  <2> PICK its : its = {i \in 1..Len(newEvents) : newEvents[i].fd = f}
    OBVIOUS
  <2>1. WithNew[f] = IF its = {} THEN events[f] ELSE newEvents[MaxOf(its)].id
    BY <1>1 DEF WithNew
  <2>2. newEvents \in Seq([fd : Fds, id : 1..MaxEvents])
    BY DEF TypeOK
  <2>3. CASE its = {}
    <3>1. f \notin {e.fd : e \in SeqRange(newEvents)}
      BY <2>3 DEF SeqRange
    <3> QED
      BY <1>1, <2>1, <2>3, <3>1 DEF Events
  <2>4. CASE its # {}
    <3> PICK n \in Nat : n = Len(newEvents)
      BY <2>2
    <3>1. its \subseteq Nat /\ \A i \in its : i <= n
      OBVIOUS
    <3>2. MaxOf(its) \in its
      BY <2>4, <3>1, MaxOfIsGreatest
    <3> PICK i \in 1..Len(newEvents) : i = MaxOf(its) /\ newEvents[i].fd = f
      BY <3>2
    <3>3. newEvents[i] \in [fd : Fds, id : 1..MaxEvents]
      <4> PICK R : R = [fd : Fds, id : 1..MaxEvents]
        OBVIOUS
      <4>1. newEvents \in Seq(R)
        BY <2>2
      <4>2. newEvents[i] \in R
        BY <4>1, ElementOfSeq
      <4> QED
        BY <4>2
    <3>4. newEvents[i] = [fd |-> f, id |-> newEvents[i].id]
      BY <3>3
    <3>5. newEvents[i] \in Events
      BY DEF Events, SeqRange
    <3> QED
      BY <2>1, <2>4, <3>4, <3>5
  <2> QED
    BY <2>3, <2>4
<1> QED
  BY <1>1, <1>2

LEMMA RangeInSet ==
  ASSUME NEW R, NEW s \in Seq(R)
  PROVE  SeqRange(s) \subseteq R
BY ElementOfSeq DEF SeqRange

LEMMA EventsTyped ==
  ASSUME TypeOK
  PROVE  Events \subseteq [fd : Fds, id : 1..MaxEvents]
<1> PICK R : R = [fd : Fds, id : 1..MaxEvents]
  OBVIOUS
<1>1. newEvents \in Seq(R)
  BY DEF TypeOK
<1>2. SeqRange(newEvents) \subseteq R
  BY <1>1, RangeInSet
<1>3. {[fd |-> f, id |-> events[f]] : f \in DOMAIN events} \subseteq R
  BY DEF TypeOK
<1> QED
  BY <1>2, <1>3 DEF Events

LEMMA RangeOfAppend ==
  ASSUME NEW R, NEW s \in Seq(R), NEW x \in R
  PROVE  Append(s, x) \in Seq(R) /\ SeqRange(Append(s, x)) = SeqRange(s) \cup {x}
<1>1. /\ Append(s, x) \in Seq(R)
      /\ Len(s) \in Nat
      /\ Len(Append(s, x)) = Len(s) + 1
      /\ \A i \in 1..Len(s) : Append(s, x)[i] = s[i]
      /\ Append(s, x)[Len(s) + 1] = x
  OBVIOUS
<1>2. 1..(Len(s) + 1) = 1..Len(s) \cup {Len(s) + 1}
  BY <1>1
<1> QED
  BY <1>1, <1>2 DEF SeqRange

-----------------------------------------------------------------------------
(* The invariant is inductive: one lemma per action that touches the table, *)
(* the descriptors or the batch.                                            *)

LEMMA InitEstablishes == Init => ChannelInv
<1> SUFFICES ASSUME Init PROVE ChannelInv
  OBVIOUS
<1>1. {0, 1, 2, 3} \subseteq Fds /\ 1 \in 1..MaxEvents /\ 2 \in 1..MaxEvents
  BY MaxFdAssumption, MaxEventsAssumption DEF Fds
<1>2. DOMAIN events = {}
  BY DEF Init
<1>3. newEvents = <<[fd |-> 2, id |-> 1], [fd |-> 3, id |-> 2]>>
  BY DEF Init, StopFd, FifoFd
<1>4. Events = {[fd |-> 2, id |-> 1], [fd |-> 3, id |-> 2]}
  BY <1>2, <1>3 DEF Events, SeqRange
<1>5. newEvents \in Seq([fd : Fds, id : 1..MaxEvents])
  <2>1. [fd |-> 2, id |-> 1] \in [fd : Fds, id : 1..MaxEvents]
    BY <1>1
  <2>2. [fd |-> 3, id |-> 2] \in [fd : Fds, id : 1..MaxEvents]
    BY <1>1
  <2> PICK R : R = [fd : Fds, id : 1..MaxEvents]
    OBVIOUS
  <2> PICK a : a = [fd |-> 2, id |-> 1]
    OBVIOUS
  <2> PICK b : b = [fd |-> 3, id |-> 2]
    OBVIOUS
  <2>3. a \in R /\ b \in R /\ newEvents = <<a, b>>
    BY <2>1, <2>2, <1>3
  <2>4. newEvents \in Seq(R)
    BY <2>3
  <2> QED
    BY <2>4
<1>6. TypeOK
  BY <1>1, <1>2, <1>5 DEF Init, TypeOK, RSelBreak, WSelBreak, StopFd, FifoFd
<1>7. DescriptorsOwned
  BY <1>4 DEF Init, DescriptorsOwned, RSelBreak, WSelBreak, StopFd, FifoFd
<1>8. SetFollowsTable
  BY <1>2 DEF Init, SetFollowsTable, RSelBreak
<1>9. BreakPipeKept
  BY <1>4 DEF Init, BreakPipeKept, RSelBreak, WSelBreak, StopFd, FifoFd
<1>10. BatchEventsExist /\ BatchOver
  BY DEF Init, BatchEventsExist, BatchOver
<1> QED
  BY <1>6, <1>7, <1>8, <1>9, <1>10 DEF ChannelInv

\* What a step that leaves the table, the lists and the set of select alone
\* keeps: most steps of the loop and all of the outside.
LEMMA TableKept ==
  ASSUME ChannelInv, UNCHANGED tableVars
  PROVE  /\ Events' = Events
         /\ SetFollowsTable'
         /\ DOMAIN events' \subseteq Fds
         /\ \A f \in DOMAIN events' : events'[f] \in 1..MaxEvents
         /\ newEvents' \in Seq([fd : Fds, id : 1..MaxEvents])
         /\ removedEvents' \in Seq(Fds)
         /\ inputFds' \subseteq Fds
         /\ maxInputFd' \in Fds
BY DEF ChannelInv, TypeOK, tableVars, Events, SetFollowsTable

LEMMA AddEventPreserves == ChannelInv /\ AddEvent => ChannelInv'
<1> SUFFICES ASSUME ChannelInv, AddEvent PROVE ChannelInv'
  OBVIOUS
<1> PICK f : f = LowestFree
  OBVIOUS
<1> PICK new : new = [fd |-> f, id |-> serial + 1]
  OBVIOUS
<1> PICK R : R = [fd : Fds, id : 1..MaxEvents]
  OBVIOUS
<1>1. f \in Fds /\ f \notin open
  BY LowestIsFree DEF AddEvent
<1>2. serial \in Nat /\ serial + 1 \in 1..MaxEvents
  BY MaxEventsAssumption DEF ChannelInv, TypeOK, AddEvent
<1>3. new \in R
  BY <1>1, <1>2
<1>4. f \notin DOMAIN events
  <2> SUFFICES ASSUME f \in DOMAIN events PROVE FALSE
    OBVIOUS
  <2>1. [fd |-> f, id |-> events[f]] \in Events
    BY DEF Events
  <2>2. f \in open
    BY <2>1 DEF ChannelInv, DescriptorsOwned
  <2> QED
    BY <1>1, <2>2
<1>5. /\ newEvents' = Append(newEvents, new)
      /\ breakWords' = breakWords + 1
  BY <1>4 DEF AddEvent
<1>6. newEvents \in Seq(R)
  BY DEF ChannelInv, TypeOK
<1>7. newEvents' \in Seq(R) /\ SeqRange(newEvents') = SeqRange(newEvents) \cup {new}
  <2> PICK s : s = newEvents
    OBVIOUS
  <2>1. s \in Seq(R)
    BY <1>6
  <2>2. Append(s, new) \in Seq(R)
    BY <1>3, <2>1, RangeOfAppend
  <2>3. SeqRange(Append(s, new)) = SeqRange(s) \cup {new}
    BY ONLY <1>3, <2>1, RangeOfAppend
  <2>4. newEvents' = Append(s, new)
    BY <1>5
  <2> QED
    BY <2>2, <2>3, <2>4
<1>8. events' = events
  BY DEF AddEvent
<1>9. Events' = Events \cup {new}
  BY <1>7, <1>8 DEF Events
<1>10. open' = open \cup {f} /\ serial' = serial + 1
  BY DEF AddEvent
<1>11. TypeOK'
  <2>1. newEvents' \in Seq([fd : Fds, id : 1..MaxEvents])
    BY <1>7
  <2> QED
    BY <1>1, <1>2, <1>5, <1>10, <2>1 DEF ChannelInv, TypeOK, AddEvent
<1>12. DescriptorsOwned'
  <2>1. \A e \in Events : e.fd \in open /\ e.fd \notin others
    BY DEF ChannelInv, DescriptorsOwned
  <2>2. new.fd = f
    OBVIOUS
  <2>3. f \notin others
    BY <1>1 DEF ChannelInv, TypeOK
  <2>4. others' = others
    BY DEF AddEvent
  <2>5. \A e \in Events' : e.fd \in open' \ others'
    BY <1>9, <1>10, <2>1, <2>2, <2>3, <2>4
  <2>6. \A d, e \in Events : d.fd = e.fd => d = e
    BY DEF ChannelInv, DescriptorsOwned
  <2>7. \A d, e \in Events' : d.fd = e.fd => d = e
    BY <1>1, <1>9, <2>1, <2>2, <2>6
  <2> QED
    BY <2>5, <2>7 DEF DescriptorsOwned
<1>13. SetFollowsTable'
  BY DEF ChannelInv, SetFollowsTable, AddEvent
<1>14. BreakPipeKept'
  <2>1. f # RSelBreak
    BY <1>1 DEF ChannelInv, BreakPipeKept
  <2> QED
    BY <1>9, <1>10, <2>1 DEF ChannelInv, BreakPipeKept, AddEvent
<1>15. BatchEventsExist' /\ BatchOver'
  BY <1>9 DEF ChannelInv, BatchEventsExist, BatchOver, AddEvent
<1> QED
  BY <1>11, <1>12, <1>13, <1>14, <1>15 DEF ChannelInv

LEMMA RemoveEventPreserves ==
  ASSUME ChannelInv, NEW f \in Fds, RemoveEvent(f)
  PROVE  ChannelInv'
<1>1. Events' = Events
  BY DEF RemoveEvent, Events
<1>2. TypeOK'
  <2>1. removedEvents \in Seq(Fds)
    BY DEF ChannelInv, TypeOK
  <2>2. removedEvents' \in Seq(Fds)
    BY <2>1 DEF RemoveEvent
  <2> QED
    BY <2>2 DEF ChannelInv, TypeOK, RemoveEvent
<1> QED
  BY <1>1, <1>2 DEF ChannelInv, DescriptorsOwned, SetFollowsTable, BreakPipeKept,
                    BatchEventsExist, BatchOver, RemoveEvent

\* The one step in which the table and the set of select change.
LEMMA UpdateEventsPreserves == ChannelInv /\ UpdateEvents => ChannelInv'
<1> SUFFICES ASSUME ChannelInv, UpdateEvents PROVE ChannelInv'
  OBVIOUS
<1> PICK T : T = DOMAIN WithNew
  OBVIOUS
<1> PICK removed : removed = SeqRange(removedEvents) \cap T
  OBVIOUS
<1> PICK added : added = {e.fd : e \in SeqRange(newEvents)}
  OBVIOUS
<1> PICK highest : highest = MaxOf({maxInputFd} \cup added)
  OBVIOUS
<1>1. /\ events' = Without(WithNew, removed)
      /\ inputFds' = (inputFds \cup added) \ removed
      /\ maxInputFd' = IF highest \in removed THEN MaxOf({0} \cup T) ELSE highest
      /\ open' = open \ removed
      /\ raised' = raised \ removed
      /\ dead' = dead \ removed
  BY DEF UpdateEvents
<1>2. /\ newEvents' = <<>> /\ removedEvents' = <<>>
      /\ pc' = "select"
      /\ UNCHANGED <<others, breakWords, batch, serial>>
      /\ batch = {}
  BY DEF UpdateEvents, ChannelInv, BatchOver
<1>3. /\ T = DOMAIN events \cup added
      /\ \A f \in T : [fd |-> f, id |-> WithNew[f]] \in Events
  BY WithNewIsEvents DEF ChannelInv
<1>4. Events \subseteq [fd : Fds, id : 1..MaxEvents]
  BY EventsTyped DEF ChannelInv
<1>5. \A f \in T : f \in Fds /\ WithNew[f] \in 1..MaxEvents
  BY <1>3, <1>4
<1>6. /\ DOMAIN events' = T \ removed
      /\ \A f \in DOMAIN events' : events'[f] = WithNew[f]
  BY <1>1 DEF Without
<1>7. Events' \subseteq Events
  <2>1. SeqRange(newEvents') = {}
    BY <1>2 DEF SeqRange
  <2>2. \A f \in DOMAIN events' : [fd |-> f, id |-> events'[f]] \in Events
    BY <1>3, <1>6
  <2> QED
    BY <2>1, <2>2 DEF Events
<1>8. \A e \in Events' : e.fd \notin removed
  <2>1. SeqRange(newEvents') = {}
    BY <1>2 DEF SeqRange
  <2>2. Events' = {[fd |-> f, id |-> events'[f]] : f \in DOMAIN events'}
    BY <2>1 DEF Events
  <2> QED
    BY <1>6, <2>2
<1>9. RSelBreak \notin T
  <2> SUFFICES ASSUME RSelBreak \in T PROVE FALSE
    OBVIOUS
  <2>1. [fd |-> RSelBreak, id |-> WithNew[RSelBreak]] \in Events
    BY <1>3
  <2> QED
    BY <2>1 DEF ChannelInv, BreakPipeKept
<1>10. MaxFd \in Nat /\ Fds = 0..MaxFd /\ T \subseteq Fds /\ maxInputFd \in Fds /\ added \subseteq T
  BY FdsAreNaturals, <1>3, <1>5 DEF Fds, ChannelInv, TypeOK
<1>11. highest \in {maxInputFd} \cup added /\ \A x \in {maxInputFd} \cup added : x <= highest
  <2> PICK S : S = {maxInputFd} \cup added
    OBVIOUS
  <2>1. S \subseteq Nat /\ S # {} /\ \A x \in S : x <= MaxFd
    BY <1>10
  <2> QED
    BY <1>10, <2>1, MaxOfIsGreatest
<1>12. MaxOf({0} \cup T) \in {0} \cup T /\ \A x \in {0} \cup T : x <= MaxOf({0} \cup T)
  <2> PICK S : S = {0} \cup T
    OBVIOUS
  <2>1. S \subseteq Nat /\ S # {} /\ \A x \in S : x <= MaxFd
    BY <1>10
  <2> QED
    BY <1>10, <2>1, MaxOfIsGreatest
<1>13. maxInputFd' \in Fds
  <2>1. highest \in Fds /\ MaxOf({0} \cup T) \in Fds
    BY <1>10, <1>11, <1>12
  <2> QED
    BY <1>1, <2>1
<1>14. inputFds' = DOMAIN events' \cup {RSelBreak}
  BY <1>1, <1>3, <1>6, <1>9 DEF ChannelInv, SetFollowsTable
<1>15. SetFollowsTable'
  <2>1. \A f \in inputFds : f \in Nat /\ f <= maxInputFd
    <3>1. inputFds \subseteq Fds
      BY DEF ChannelInv, TypeOK
    <3>2. \A f \in inputFds : f <= maxInputFd
      BY DEF ChannelInv, SetFollowsTable
    <3> QED
      BY FdsAreNaturals, <3>1, <3>2
  <2>2. \A f \in inputFds' : f <= maxInputFd'
    <3> SUFFICES ASSUME NEW f \in inputFds' PROVE f <= maxInputFd'
      OBVIOUS
    <3>1. f \in inputFds \cup added /\ f \in {0} \cup T
      BY <1>1, <1>6, <1>14 DEF RSelBreak
    <3>2. f <= highest
      BY <1>10, <1>11, <2>1, <3>1
    <3>3. f <= MaxOf({0} \cup T)
      BY <1>12, <3>1
    <3> QED
      BY <1>1, <3>2, <3>3
  <2> QED
    BY <1>14, <2>2 DEF SetFollowsTable
<1>16. \A e \in Events : e.fd \in open \ others /\ e.fd # RSelBreak
  BY DEF ChannelInv, DescriptorsOwned, BreakPipeKept
<1>17. TypeOK'
  <2>1. DOMAIN events' \subseteq Fds /\ \A f \in DOMAIN events' : events'[f] \in 1..MaxEvents
    BY <1>5, <1>6
  <2>2. /\ newEvents' \in Seq([fd : Fds, id : 1..MaxEvents])
        /\ removedEvents' \in Seq(Fds)
    BY <1>2
  <2>3. inputFds' \subseteq Fds
    BY <1>1, <1>10 DEF ChannelInv, TypeOK
  <2>4. others' \subseteq open'
    <3>1. \A f \in removed : f \notin others
      BY <1>3, <1>16
    <3> QED
      BY <1>1, <1>2, <3>1 DEF ChannelInv, TypeOK
  <2>5. open' \subseteq Fds /\ raised' \subseteq Fds /\ dead' \subseteq Fds
    BY <1>1 DEF ChannelInv, TypeOK
  <2>6. /\ breakWords' \in Nat
        /\ batch' \subseteq [fd : Fds, id : 1..MaxEvents]
        /\ serial' \in 1..MaxEvents
    BY <1>2 DEF ChannelInv, TypeOK
  <2> QED
    BY <1>2, <1>13, <2>1, <2>2, <2>3, <2>4, <2>5, <2>6 DEF TypeOK
<1>18. DescriptorsOwned'
  <2>1. \A e \in Events' : e.fd \in open' \ others'
    BY <1>1, <1>2, <1>7, <1>8, <1>16
  <2>2. \A d, e \in Events : d.fd = e.fd => d = e
    BY DEF ChannelInv, DescriptorsOwned
  <2> QED
    BY <1>7, <2>1, <2>2 DEF DescriptorsOwned
<1>19. BreakPipeKept'
  <2>1. RSelBreak \in open' \ others'
    BY <1>1, <1>2, <1>9 DEF ChannelInv, BreakPipeKept
  <2>2. RSelBreak \notin raised' \cup dead'
    BY <1>1 DEF ChannelInv, BreakPipeKept
  <2> QED
    BY <1>7, <1>16, <2>1, <2>2 DEF BreakPipeKept, RSelBreak
<1>20. BatchEventsExist' /\ BatchOver'
  BY <1>2 DEF BatchEventsExist, BatchOver
<1> QED
  BY <1>15, <1>17, <1>18, <1>19, <1>20 DEF ChannelInv

\* The steps of the loop besides updateEvents: the batch comes from the table.
LEMMA SelectPreserves == ChannelInv /\ SelectAndHandle => ChannelInv'
<1> SUFFICES ASSUME ChannelInv, SelectAndHandle PROVE ChannelInv'
  OBVIOUS
<1>1. UNCHANGED <<open, others, tableVars, dead, serial>>
  BY DEF SelectAndHandle
<1>2. Events' = Events /\ SetFollowsTable'
  BY <1>1, TableKept
<1>3. Events \subseteq [fd : Fds, id : 1..MaxEvents]
  BY EventsTyped DEF ChannelInv
<1>4. batch = {}
  BY DEF ChannelInv, BatchOver, SelectAndHandle
<1>5. {[fd |-> f, id |-> events[f]] : f \in Handled} \subseteq Events
  BY DEF Handled, Reached, Events
<1>6. breakWords' \in Nat
  <2>1. RSelBreak \in Readfds => breakWords > 0
    BY DEF Readfds, ChannelInv, BreakPipeKept
  <2> QED
    BY <2>1 DEF SelectAndHandle, ChannelInv, TypeOK
<1>7. /\ raised' \subseteq raised
      /\ batch' \subseteq Events
      /\ pc' \in {"exited", "update", "process"}
      /\ pc' # "process" => batch' = {}
  <2>1. CASE StopFd \in Reached
    BY <1>4, <2>1 DEF SelectAndHandle
  <2>2. CASE StopFd \notin Reached
    BY <1>5, <2>2 DEF SelectAndHandle
  <2> QED
    BY <2>1, <2>2
<1>8. TypeOK'
  <2>1. batch' \subseteq [fd : Fds, id : 1..MaxEvents]
    BY <1>3, <1>7
  <2> QED
    BY <1>1, <1>6, <1>7, <2>1, TableKept DEF ChannelInv, TypeOK
<1>9. DescriptorsOwned'
  BY <1>1, <1>2 DEF ChannelInv, DescriptorsOwned
<1>10. BreakPipeKept'
  BY <1>1, <1>2, <1>7 DEF ChannelInv, BreakPipeKept
<1>11. BatchEventsExist' /\ BatchOver'
  BY <1>2, <1>7 DEF BatchEventsExist, BatchOver
<1> QED
  BY <1>2, <1>8, <1>9, <1>10, <1>11 DEF ChannelInv

LEMMA SelectFailsPreserves == ChannelInv /\ SelectFails => ChannelInv'
<1> SUFFICES ASSUME ChannelInv, SelectFails PROVE ChannelInv'
  OBVIOUS
<1>1. UNCHANGED <<open, others, tableVars, dead, serial, breakWords, batch>>
  BY DEF SelectFails
<1>2. Events' = Events /\ SetFollowsTable'
  BY <1>1, TableKept
<1>3. raised' = raised \cup {StopFd} /\ StopFd # RSelBreak
  BY DEF SelectFails, StopFd, RSelBreak
<1>4. TypeOK'
  BY <1>1, <1>3, FdsAreNaturals, TableKept DEF ChannelInv, TypeOK, SelectFails
<1> QED
  BY <1>1, <1>2, <1>3, <1>4 DEF ChannelInv, DescriptorsOwned, BreakPipeKept,
                                BatchEventsExist, BatchOver, SelectFails

LEMMA ReadBreakPreserves == ChannelInv /\ ReadBreak => ChannelInv'
<1> SUFFICES ASSUME ChannelInv, ReadBreak PROVE ChannelInv'
  OBVIOUS
<1>1. UNCHANGED <<open, others, tableVars, raised, dead, batch, serial>>
  BY DEF ReadBreak
<1>2. Events' = Events /\ SetFollowsTable'
  BY <1>1, TableKept
<1>3. TypeOK'
  BY <1>1, TableKept DEF ChannelInv, TypeOK, ReadBreak
<1> QED
  BY <1>1, <1>2, <1>3 DEF ChannelInv, DescriptorsOwned, BreakPipeKept,
                          BatchEventsExist, BatchOver, ReadBreak

LEMMA EventProcessedPreserves ==
  ASSUME ChannelInv, NEW e \in batch, EventProcessed(e)
  PROVE  ChannelInv'
<1>1. UNCHANGED <<open, others, tableVars, breakWords, raised, dead, serial>>
  BY DEF EventProcessed
<1>2. Events' = Events /\ SetFollowsTable'
  BY <1>1, TableKept
<1>3. batch' = batch \ {e} /\ pc' = IF batch = {e} THEN "update" ELSE "process"
  BY DEF EventProcessed
<1>4. TypeOK'
  BY <1>1, <1>3, TableKept DEF ChannelInv, TypeOK
<1> QED
  BY <1>1, <1>2, <1>3, <1>4 DEF ChannelInv, DescriptorsOwned, BreakPipeKept,
                                BatchEventsExist, BatchOver

-----------------------------------------------------------------------------
(* The outside. *)

LEMMA RaisePreserves ==
  ASSUME ChannelInv, NEW f \in Fds, Raise(f) \/ Disconnect(f)
  PROVE  ChannelInv'
<1>1. /\ UNCHANGED <<open, others, tableVars, breakWords, batch, pc, serial>>
      /\ f # RSelBreak
      /\ raised' \subseteq raised \cup {f}
      /\ dead' \subseteq dead \cup {f}
  BY DEF Raise, Disconnect
<1>2. Events' = Events /\ SetFollowsTable'
  BY <1>1, TableKept
<1>3. TypeOK'
  BY <1>1, TableKept DEF ChannelInv, TypeOK
<1> QED
  BY <1>1, <1>2, <1>3 DEF ChannelInv, DescriptorsOwned, BreakPipeKept,
                          BatchEventsExist, BatchOver

LEMMA OtherThreadOpensPreserves == ChannelInv /\ OtherThreadOpens => ChannelInv'
<1> SUFFICES ASSUME ChannelInv, OtherThreadOpens PROVE ChannelInv'
  OBVIOUS
<1> PICK f : f = LowestFree
  OBVIOUS
<1>1. /\ UNCHANGED <<tableVars, breakWords, raised, dead, batch, pc, serial>>
      /\ open' = open \cup {f}
      /\ others' = others \cup {f}
  BY DEF OtherThreadOpens
<1>2. f \in Fds /\ f \notin open
  BY LowestIsFree DEF OtherThreadOpens
<1>3. Events' = Events /\ SetFollowsTable'
  BY <1>1, TableKept
<1>4. TypeOK'
  BY <1>1, <1>2, TableKept DEF ChannelInv, TypeOK
<1>5. DescriptorsOwned'
  BY <1>1, <1>2, <1>3 DEF ChannelInv, DescriptorsOwned
<1>6. BreakPipeKept'
  BY <1>1, <1>2, <1>3 DEF ChannelInv, BreakPipeKept
<1> QED
  BY <1>1, <1>3, <1>4, <1>5, <1>6 DEF ChannelInv, BatchEventsExist, BatchOver

LEMMA OtherThreadClosesPreserves ==
  ASSUME ChannelInv, NEW f \in Fds, OtherThreadCloses(f)
  PROVE  ChannelInv'
<1>1. /\ UNCHANGED <<tableVars, breakWords, raised, dead, batch, pc, serial>>
      /\ open' = open \ {f}
      /\ others' = others \ {f}
      /\ f \in others
  BY DEF OtherThreadCloses
<1>2. Events' = Events /\ SetFollowsTable'
  BY <1>1, TableKept
<1>3. TypeOK'
  BY <1>1, TableKept DEF ChannelInv, TypeOK
<1>4. DescriptorsOwned'
  BY <1>1, <1>2 DEF ChannelInv, DescriptorsOwned
<1>5. BreakPipeKept'
  BY <1>1, <1>2 DEF ChannelInv, BreakPipeKept
<1> QED
  BY <1>1, <1>2, <1>3, <1>4, <1>5 DEF ChannelInv, BatchEventsExist, BatchOver

-----------------------------------------------------------------------------
(* Theorems. *)

\* ChannelInv is an invariant of the channel.
THEOREM ChannelInvariant == Spec => []ChannelInv
<1>1. Init => ChannelInv
  BY InitEstablishes
<1>2. ChannelInv /\ [Next]_vars => ChannelInv'
  <2> SUFFICES ASSUME ChannelInv, [Next]_vars PROVE ChannelInv'
    OBVIOUS
  <2>1. CASE UpdateEvents
    BY <2>1, UpdateEventsPreserves
  <2>2. CASE SelectAndHandle
    BY <2>2, SelectPreserves
  <2>3. CASE ReadBreak
    BY <2>3, ReadBreakPreserves
  <2>4. CASE \E e \in batch : EventProcessed(e)
    BY <2>4, EventProcessedPreserves
  <2>5. CASE SelectFails
    BY <2>5, SelectFailsPreserves
  <2>6. CASE AddEvent
    BY <2>6, AddEventPreserves
  <2>7. CASE \E f \in Fds : RemoveEvent(f)
    BY <2>7, RemoveEventPreserves
  <2>8. CASE \E f \in Fds : Raise(f) \/ Disconnect(f)
    BY <2>8, RaisePreserves
  <2>9. CASE \E f \in Fds : OtherThreadCloses(f)
    BY <2>9, OtherThreadClosesPreserves
  <2>10. CASE OtherThreadOpens
    BY <2>10, OtherThreadOpensPreserves
  <2>11. CASE UNCHANGED vars
    <3>1. UNCHANGED <<open, others, tableVars, breakWords, raised, dead, batch, pc, serial>>
      BY <2>11 DEF vars, tableVars
    <3>2. Events' = Events /\ SetFollowsTable' /\ TypeOK'
      BY <3>1, TableKept DEF ChannelInv, TypeOK
    <3> QED
      BY <3>1, <3>2 DEF ChannelInv, DescriptorsOwned, BreakPipeKept,
                        BatchEventsExist, BatchOver
  <2> QED
    BY <2>1, <2>2, <2>3, <2>4, <2>5, <2>6, <2>7, <2>8, <2>9, <2>10, <2>11
    DEF Next, Loop, Calls, Outside
<1> QED
  BY <1>1, <1>2, PTL DEF Spec

\* The type invariant of the channel.
THEOREM ChannelTypeOK == Spec => []TypeOK
<1>1. ChannelInv => TypeOK
  BY DEF ChannelInv
<1> QED
  BY <1>1, ChannelInvariant, PTL

\* The duplicated-descriptor error of addEvent and updateEvents is never met,
\* and no event is left on a descriptor that another thread has since opened,
\* however many descriptors are opened and closed meanwhile.
THEOREM DescriptorsAlwaysOwned == Spec => []DescriptorsOwned
<1>1. ChannelInv => DescriptorsOwned
  BY DEF ChannelInv
<1> QED
  BY <1>1, ChannelInvariant, PTL

\* onEvent is never given an event that was deleted.
THEOREM BatchNeverDangles == Spec => []BatchEventsExist
<1>1. ChannelInv => BatchEventsExist
  BY DEF ChannelInv
<1> QED
  BY <1>1, ChannelInvariant, PTL

\* When it calls select the channel watches its events and the break pipe, all
\* of them below the bound it gives, and nothing else, although the maximum it
\* keeps is not lowered by the removals.
THEOREM SelectWatchesItsEvents == Spec => []WatchesItsEvents
<1>1. ChannelInv => WatchesItsEvents
  <2> SUFFICES ASSUME ChannelInv
               PROVE  Watched = DOMAIN events \cup {RSelBreak} /\ Watched \subseteq open \ others
    BY DEF WatchesItsEvents
  <2>1. Watched = DOMAIN events \cup {RSelBreak}
    BY DEF ChannelInv, SetFollowsTable, Watched
  <2>2. \A f \in DOMAIN events : f \in open \ others
    <3> SUFFICES ASSUME NEW f \in DOMAIN events PROVE f \in open \ others
      OBVIOUS
    <3>1. [fd |-> f, id |-> events[f]] \in Events
      BY DEF Events
    <3> QED
      BY <3>1 DEF ChannelInv, DescriptorsOwned
  <2> QED
    BY <2>1, <2>2 DEF ChannelInv, BreakPipeKept
<1> QED
  BY <1>1, ChannelInvariant, PTL

-----------------------------------------------------------------------------
(* Runtime: channels and fifos. *)

\* createBlock connects each channel to channels of the stack only.
LEMMA TargetsAreFifos ==
  \A c \in Channels : Targets(c) \subseteq Fifos
<1> TAKE c \in Channels
<1>1. Opposite(c) \in Channels
  BY DEF Channels, Opposite
<1>2. HasNext(c) => NextOf(c) \in Channels
  BY NBlocksAssumption DEF Channels, Blocks, HasNext, NextOf
<1>3. \A r \in Routes[c] : r \in {"next", "opp"}
  BY RoutesAssumption
<1> QED
  BY <1>1, <1>2, <1>3 DEF Targets, OutFifo, Fifos

-----------------------------------------------------------------------------
(* StackTypeOK is inductive. *)

LEMMA InitTypeOK == StackInit => StackTypeOK
<1> SUFFICES ASSUME StackInit PROVE StackTypeOK
  OBVIOUS
<1>1. 0 \in 0..FifoSize /\ 1 \in Blocks /\ MaxSends \in Nat
  BY SizesAssumption, NBlocksAssumption DEF Blocks
<1>2. \A c \in Channels : out[c] \in Seq(Targets(c)) /\ Len(out[c]) <= MaxSends
  BY <1>1 DEF StackInit
<1> QED
  BY <1>1, <1>2 DEF StackInit, StackTypeOK

LEMMA SelectKeepsType == ASSUME StackTypeOK, NEW c \in Channels, Select(c) PROVE StackTypeOK'
<1>1. queued' \in [Fifos -> 0..FifoSize]
  BY SizesAssumption DEF StackTypeOK, Select, Readable, Fifos
<1>2. todo' \in [Channels -> SUBSET {"prev", "opp", "ext"}]
  <2> PICK ext \in SUBSET (IF c \in External THEN {"ext"} ELSE {}) :
        todo' = [todo EXCEPT ![c] = Readable(c) \cup ext]
    BY DEF Select
  <2>1. Readable(c) \cup ext \in SUBSET {"prev", "opp", "ext"}
    BY DEF Readable
  <2> QED
    BY <2>1 DEF StackTypeOK
<1>3. thread' \in [Channels -> {"none", "select", "batch", "exited"}]
  BY DEF StackTypeOK, Select
<1>4. UNCHANGED <<out, procSignal, thrSignal, status, mainVars>>
  BY DEF Select
<1> QED
  BY <1>1, <1>2, <1>3, <1>4 DEF StackTypeOK, mainVars

LEMMA ExitKeepsType == ASSUME StackTypeOK, NEW c \in Channels, Exit(c) PROVE StackTypeOK'
BY DEF StackTypeOK, Exit, mainVars

LEMMA ProcessEventKeepsType == ASSUME StackTypeOK, NEW c \in Channels, ProcessEvent(c) PROVE StackTypeOK'
<1> PICK e \in todo[c], n \in 0..MaxSends : \E sends \in [1..n -> Targets(c)] :
      /\ todo' = [todo EXCEPT ![c] = @ \ {e}]
      /\ out' = [out EXCEPT ![c] = sends]
      /\ AfterEvent(c, todo[c] \ {e}, sends)
  BY DEF ProcessEvent
<1> PICK sends \in [1..n -> Targets(c)] :
      /\ todo' = [todo EXCEPT ![c] = @ \ {e}]
      /\ out' = [out EXCEPT ![c] = sends]
      /\ AfterEvent(c, todo[c] \ {e}, sends)
  OBVIOUS
<1>1. sends \in Seq(Targets(c)) /\ Len(sends) <= MaxSends
  BY SizesAssumption
<1>2. \A d \in Channels : out'[d] \in Seq(Targets(d)) /\ Len(out'[d]) <= MaxSends
  BY <1>1 DEF StackTypeOK
<1>3. todo' \in [Channels -> SUBSET {"prev", "opp", "ext"}]
  BY DEF StackTypeOK
<1>4. thread' \in [Channels -> {"none", "select", "batch", "exited"}]
  BY DEF StackTypeOK, AfterEvent
<1>5. UNCHANGED <<queued, procSignal, thrSignal, status, mainVars>>
  BY DEF ProcessEvent
<1> QED
  BY <1>2, <1>3, <1>4, <1>5 DEF StackTypeOK, mainVars

LEMMA PushMessageKeepsType == ASSUME StackTypeOK, NEW c \in Channels, PushMessage(c) PROVE StackTypeOK'
<1>1. /\ out[c] # <<>> /\ queued[Head(out[c])] < FifoSize
      /\ queued' = [queued EXCEPT ![Head(out[c])] = @ + 1]
      /\ out' = [out EXCEPT ![c] = Tail(@)]
      /\ AfterEvent(c, todo[c], Tail(out[c]))
      /\ UNCHANGED <<todo, procSignal, thrSignal, status, mainVars>>
  BY DEF PushMessage
<1>2. out[c] \in Seq(Targets(c)) /\ Len(out[c]) <= MaxSends
  BY DEF StackTypeOK
<1>3. /\ Head(out[c]) \in Targets(c) /\ Tail(out[c]) \in Seq(Targets(c))
      /\ Len(Tail(out[c])) <= MaxSends
  BY <1>1, <1>2, SizesAssumption
<1>4. queued' \in [Fifos -> 0..FifoSize]
  BY <1>1, <1>3, TargetsAreFifos, SizesAssumption DEF StackTypeOK
<1>5. \A d \in Channels : out'[d] \in Seq(Targets(d)) /\ Len(out'[d]) <= MaxSends
  BY <1>1, <1>3 DEF StackTypeOK
<1>6. thread' \in [Channels -> {"none", "select", "batch", "exited"}]
  BY <1>1 DEF StackTypeOK, AfterEvent
<1> QED
  BY <1>1, <1>4, <1>5, <1>6 DEF StackTypeOK, mainVars

LEMMA InitSpecificKeepsType == ASSUME StackTypeOK, InitSpecific PROVE StackTypeOK'
<1> DEFINE pushed(f) == IF \E c \in {<<blk, "up">>, <<blk, "down">>} :
                             HasNext(c) /\ f = OutFifo(c, "next")
                        THEN InitPushes[<<blk, f[1][2]>>] ELSE 0
<1>1. /\ \A f \in Fifos : queued[f] + pushed(f) <= FifoSize
      /\ queued' = [f \in Fifos |-> queued[f] + pushed(f)]
  BY DEF InitSpecific
<1>2. \A f \in Fifos : pushed(f) \in Nat
  <2> TAKE f \in Fifos
  <2>1. f[1] \in Channels
    BY DEF Fifos
  <2>2. <<blk, f[1][2]>> \in Channels
    BY <2>1 DEF Channels, StackTypeOK
  <2>3. InitPushes[<<blk, f[1][2]>>] \in Nat
    BY <2>2, RoutesAssumption
  <2> QED
    BY <2>3
<1>3. queued' \in [Fifos -> 0..FifoSize]
  <2> SUFFICES ASSUME NEW f \in Fifos PROVE queued[f] + pushed(f) \in 0..FifoSize
    BY <1>1
  <2>1. queued[f] \in 0..FifoSize
    BY DEF StackTypeOK
  <2>2. pushed(f) \in Nat /\ queued[f] + pushed(f) <= FifoSize
    BY <1>1, <1>2
  <2> HIDE DEF pushed
  <2> QED
    BY <2>1, <2>2, SizesAssumption
<1>4. at' \in {"init", "startUp"} /\ blk' \in Blocks
  BY NBlocksAssumption DEF StackTypeOK, InitSpecific, Goto, Blocks
<1>5. UNCHANGED <<thread, todo, out, procSignal, thrSignal, status>>
  BY DEF InitSpecific
<1> QED
  BY <1>3, <1>4, <1>5 DEF StackTypeOK

LEMMA StartKeepsType == ASSUME StackTypeOK, StartUp \/ StartDown PROVE StackTypeOK'
<1>1. <<blk, "up">> \in Channels /\ <<blk, "down">> \in Channels
  BY DEF StackTypeOK, Channels
<1>2. CASE StartUp
  BY <1>1, <1>2 DEF StackTypeOK, StartUp, Goto
<1>3. CASE StartDown
  BY <1>1, <1>3, NBlocksAssumption DEF StackTypeOK, StartDown, Goto, Blocks
<1> QED
  BY <1>2, <1>3

\* stop: kill and join, block after block.
LEMMA StopKeepsType ==
  ASSUME StackTypeOK, WaitSignal \/ KillUp \/ KillDown \/ JoinUp \/ JoinDown PROVE StackTypeOK'
<1>1. <<blk, "up">> \in Channels /\ <<blk, "down">> \in Channels /\ 1 \in Blocks
  BY NBlocksAssumption DEF StackTypeOK, Channels, Blocks
<1>2. CASE WaitSignal
  BY <1>1, <1>2 DEF StackTypeOK, WaitSignal, Goto, chanVars
<1>3. CASE KillUp
  BY <1>1, <1>3 DEF StackTypeOK, KillUp, Kill, Goto, chanVars
<1>4. CASE KillDown
  BY <1>1, <1>4 DEF StackTypeOK, KillDown, Kill, Goto, chanVars
<1>5. CASE JoinUp
  BY <1>5 DEF StackTypeOK, JoinUp, Goto, chanVars
<1>6. CASE JoinDown
  BY <1>6, NBlocksAssumption DEF StackTypeOK, JoinDown, Goto, chanVars, Blocks
<1> QED
  BY <1>2, <1>3, <1>4, <1>5, <1>6

\* Errors and signals.
LEMMA ErrorsKeepType ==
  ASSUME StackTypeOK, MainError \/ ReceiveSignal \/ \E c \in Channels : ReportCritical(c)
  PROVE  StackTypeOK'
<1>1. CASE InitFails
  BY <1>1 DEF StackTypeOK, InitFails, Goto, chanVars
<1>2. CASE StartFails
  BY <1>2 DEF StackTypeOK, StartFails, Goto, chanVars
<1>3. CASE ReceiveSignal
  BY <1>3 DEF StackTypeOK, ReceiveSignal, chanVars, mainVars
<1>4. CASE \E c \in Channels : ReportCritical(c)
  BY <1>4 DEF StackTypeOK, ReportCritical, chanVars, mainVars
<1> QED
  BY <1>1, <1>2, <1>3, <1>4 DEF MainError

\* The state of every channel, fifo and of the main thread keeps its type: no
\* fifo ever holds more than FifoSize messages or less than none.
THEOREM RuntimeTypeOK == StackSpec => []StackTypeOK
<1>1. StackTypeOK /\ [StackNext]_stackVars => StackTypeOK'
  <2> SUFFICES ASSUME StackTypeOK, [StackNext]_stackVars PROVE StackTypeOK'
    OBVIOUS
  <2>1. CASE \E c \in Channels : ChannelStep(c)
    BY <2>1, SelectKeepsType, ExitKeepsType, ProcessEventKeepsType, PushMessageKeepsType DEF ChannelStep
  <2>2. CASE MainStep
    BY <2>2, InitSpecificKeepsType, StartKeepsType, StopKeepsType DEF MainStep
  <2>3. CASE MainError \/ ReceiveSignal \/ \E c \in Channels : ReportCritical(c)
    BY <2>3, ErrorsKeepType
  <2>4. CASE UNCHANGED stackVars
    BY <2>4 DEF StackTypeOK, stackVars
  <2> QED
    BY <2>1, <2>2, <2>3, <2>4 DEF StackNext
<1> QED
  BY <1>1, InitTypeOK, PTL DEF StackSpec

-----------------------------------------------------------------------------
(* Circles of waiting channels. *)

\* Where a blocked channel waits: at the next channel of its direction, or at
\* the opposite channel of its block.
LEMMA WaitsAtNeighbour ==
  ASSUME StackTypeOK, NEW c \in Channels, Blocked(c)
  PROVE  \/ HasNext(c) /\ WaitsFor(c) = NextOf(c)
         \/ Head(out[c]) = OutFifo(c, "opp") /\ WaitsFor(c) = Opposite(c)
<1>1. Head(out[c]) \in Targets(c)
  BY DEF StackTypeOK, Blocked
<1>2. PICK r \in Routes[c] : (r = "next" => HasNext(c)) /\ Head(out[c]) = OutFifo(c, r)
  BY <1>1 DEF Targets
<1>3. r \in {"next", "opp"}
  BY RoutesAssumption
<1>4. CASE r = "opp"
  BY <1>2, <1>4 DEF WaitsFor, OutFifo
<1>5. CASE r = "next"
  BY <1>2, <1>5 DEF WaitsFor, OutFifo
<1> QED
  BY <1>3, <1>4, <1>5

LEMMA CirclesShareUp == StackTypeOK => WaitCycleNeedsUpShare
<1> SUFFICES ASSUME StackTypeOK, NEW S \in WaitCycles,
                    \A c \in S : ~ (c[2] = "down" /\ Head(out[c]) = OutFifo(c, "opp"))
             PROVE  FALSE
  BY DEF WaitCycleNeedsUpShare
<1>1. S \subseteq Channels /\ S # {} /\ \A c \in S : Blocked(c) /\ WaitsFor(c) \in S
  BY DEF WaitCycles
<1>2. \A c \in Channels : /\ c[1] \in 1..NBlocks /\ c[2] \in {"up", "down"}
                          /\ c = <<c[1], c[2]>>
  BY DEF Channels, Blocks
\* A downward channel of the circle waits for the one below it.
<1>3. \A c \in S : c[2] = "down" => c[1] < NBlocks /\ <<c[1] + 1, "down">> \in S
  <2> SUFFICES ASSUME NEW c \in S, c[2] = "down"
               PROVE  c[1] < NBlocks /\ <<c[1] + 1, "down">> \in S
    OBVIOUS
  <2>1. c \in Channels /\ Blocked(c) /\ WaitsFor(c) \in S
    BY <1>1
  <2>2. HasNext(c) /\ WaitsFor(c) = NextOf(c)
    BY <2>1, WaitsAtNeighbour
  <2> QED
    BY <2>1, <2>2 DEF HasNext, NextOf
<1>4. \A c \in S : c[2] # "down"
  <2> DEFINE T == {NBlocks - c[1] : c \in {d \in S : d[2] = "down"}}
  <2> SUFFICES ASSUME T # {} PROVE FALSE
    OBVIOUS
  <2>1. T \subseteq Nat
    <3>1. \A c \in S : c[1] \in Nat /\ c[1] <= NBlocks
      BY <1>1, <1>2, NBlocksAssumption
    <3> QED
      BY <3>1, NBlocksAssumption
  <2>2. PICK x \in T : \A y \in T : x <= y
    BY <2>1, LeastNatural
  <2>3. PICK c \in S : c[2] = "down" /\ x = NBlocks - c[1]
    OBVIOUS
  <2>4. <<c[1] + 1, "down">> \in S /\ c[1] \in Nat
    BY <1>1, <1>2, <1>3, <2>3
  <2>5. NBlocks - (c[1] + 1) \in T
    <3> PICK d \in S : d = <<c[1] + 1, "down">>
      BY <2>4
    <3>1. d[1] = c[1] + 1 /\ d[2] = "down"
      OBVIOUS
    <3> QED
      BY <3>1
  <2>6. x <= NBlocks - (c[1] + 1)
    BY <2>2, <2>5
  <2> QED
    BY <2>3, <2>4, <2>6, NBlocksAssumption
\* An upward one waits for the one above it.
<1>5. \A c \in S : c[1] > 1 /\ <<c[1] - 1, "up">> \in S
  <2> SUFFICES ASSUME NEW c \in S PROVE c[1] > 1 /\ <<c[1] - 1, "up">> \in S
    OBVIOUS
  <2>1. c \in Channels /\ Blocked(c) /\ WaitsFor(c) \in S /\ c[2] = "up"
    BY <1>1, <1>2, <1>4
  <2>2. WaitsFor(c) # Opposite(c)
    BY <1>4, <2>1 DEF Opposite
  <2>3. HasNext(c) /\ WaitsFor(c) = NextOf(c)
    BY <2>1, <2>2, WaitsAtNeighbour
  <2> QED
    BY <2>1, <2>3 DEF HasNext, NextOf
<1>6. PICK x \in {c[1] : c \in S} : \A y \in {c[1] : c \in S} : x <= y
  <2>1. {c[1] : c \in S} \subseteq Nat /\ {c[1] : c \in S} # {}
    BY <1>1, <1>2
  <2> QED
    BY <2>1, LeastNatural
<1>7. PICK c \in S : x = c[1]
  OBVIOUS
<1>8. c[1] - 1 \in {d[1] : d \in S}
  <2> PICK d \in S : d = <<c[1] - 1, "up">>
    BY <1>5
  <2>1. d[1] = c[1] - 1
    OBVIOUS
  <2> QED
    BY <2>1
<1> QED
  BY <1>1, <1>2, <1>6, <1>7, <1>8

\* Bounded fifos in both directions can make channels wait for one another in a
\* circle only where a downward channel shares with its upward channel: whatever
\* the height of the stack, the size of its fifos and what its blocks send.
THEOREM WaitCyclesNeedUpShare == StackSpec => []WaitCycleNeedsUpShare
BY RuntimeTypeOK, CirclesShareUp, PTL
=============================================================================
