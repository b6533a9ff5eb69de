----------------------------- MODULE UdpChannel -----------------------------
(***************************************************************************)
(* The UDP channels of opensand-core that carry the emulated satellite     *)
(* link and the interconnection of split gateways (common/UdpChannel.cpp). *)
(* Each datagram starts with a counter of one byte; the receiver keeps, per *)
(* source address, the counter it last delivered and a stack of one slot   *)
(* per counter value, in which it puts every datagram before it delivers   *)
(* those that are in sequence.  When the stack holds more than max_stack   *)
(* datagrams it gives up those that are missing.                           *)
(*                                                                         *)
(* The network holds datagrams at most Window ranks apart, loses some,     *)
(* delivers at most Overtakes later ones of the same source before a given *)
(* one, and hands over at most Duplicates of them twice.  A datagram is    *)
(* its source and its rank among those the source sent; the counter is the *)
(* rank modulo Modulus (256 in the code).                                  *)
(*                                                                         *)
(* receive also assigns through the end() iterator when a source is new.   *)
(* The byte it overwrites is in the send buffer, or the send counter of a  *)
(* channel that does not send, depending on the library: neither is read   *)
(* by the receiver.                                                        *)
(***************************************************************************)
EXTENDS Integers, FiniteSets

CONSTANTS
  Sources,     \* the senders, by IP address
  Modulus,     \* number of values of the sequencing byte
  MaxStack,    \* max_stack
  MaxSent,     \* bound on what a source sends
  Overtakes,   \* how many later datagrams may overtake one
  Window,      \* span of ranks that can be in flight at once
  Losses,      \* how many datagrams the network may lose
  Duplicates,  \* how many datagrams it may hand over twice
  FirstMayLag, \* whether even the first datagram received may overtake others
  NoSource     \* stacked_ip is empty

ASSUME SourcesAssumption == IsFiniteSet(Sources) /\ NoSource \notin Sources
ASSUME ModulusAssumption == Modulus \in Nat /\ Modulus >= 2
ASSUME BoundsAssumption ==
  /\ MaxStack \in Nat /\ MaxSent \in Nat /\ Overtakes \in Nat
  /\ Window \in Nat /\ Losses \in Nat /\ Duplicates \in Nat /\ FirstMayLag \in BOOLEAN

Ranks == 0..(MaxSent - 1)
Counters == 0..(Modulus - 1)
Empty == -1    \* an empty slot, an unknown source, nothing delivered yet

VARIABLES
  sent,        \* datagrams each source has sent
  network,     \* ranks in flight, per source
  received,    \* ranks that reached the receiver (history)
  lost,        \* datagrams the network lost so far
  duplicated,  \* datagrams it handed over twice so far
  udpCounters, \* udp_counters, Empty for an unknown source
  stacks,      \* per source, the datagram in each slot
  counter,     \* the counter of each UdpStack
  stackedIp,   \* stacked_ip
  delivered,   \* the ranks passed to the upper layers (history)
  last,        \* the last of them, per source (history)
  pc           \* "wait" for an event, or "again" in the loop of the caller

vars == <<sent, network, received, lost, duplicated, udpCounters, stacks,
          counter, stackedIp, delivered, last, pc>>
netVars == <<sent, network, received, lost, duplicated>>
rcvVars == <<udpCounters, stacks, counter, stackedIp, delivered, last, pc>>

Init ==
  /\ sent = [s \in Sources |-> 0]
  /\ network = [s \in Sources |-> {}]
  /\ received = [s \in Sources |-> {}]
  /\ lost = 0
  /\ duplicated = 0
  /\ udpCounters = [s \in Sources |-> Empty]
  /\ stacks = [s \in Sources |-> [n \in Counters |-> Empty]]
  /\ counter = [s \in Sources |-> 0]
  /\ stackedIp = NoSource
  /\ delivered = [s \in Sources |-> {}]
  /\ last = [s \in Sources |-> Empty]
  /\ pc = "wait"

-----------------------------------------------------------------------------
(* The sender and the network. *)

\* send: the counter written in the datagram is sent[s] % Modulus.
Send(s) ==
  /\ sent[s] < MaxSent
  /\ \A j \in network[s] : sent[s] - j < Window
  /\ sent' = [sent EXCEPT ![s] = @ + 1]
  /\ network' = [network EXCEPT ![s] = @ \cup {sent[s]}]
  /\ UNCHANGED <<received, lost, duplicated, rcvVars>>

Lose(s, k) ==
  /\ lost < Losses
  /\ k \in network[s]
  /\ network' = [network EXCEPT ![s] = @ \ {k}]
  /\ lost' = lost + 1
  /\ UNCHANGED <<sent, received, duplicated, rcvVars>>

\* k reaches the receiver: no datagram in flight that it overtakes has been
\* overtaken too often already.
Arrive(s, k) ==
  /\ k \in network[s]
  /\ \A j \in network[s] :
       j < k => /\ Cardinality({i \in received[s] : i > j}) < Overtakes
                /\ FirstMayLag \/ received[s] # {}
  /\ received' = [received EXCEPT ![s] = @ \cup {k}]
  /\ \/ /\ network' = [network EXCEPT ![s] = @ \ {k}]
        /\ UNCHANGED duplicated
     \/ /\ duplicated < Duplicates
        /\ duplicated' = duplicated + 1
        /\ UNCHANGED network
  /\ UNCHANGED <<sent, lost>>

-----------------------------------------------------------------------------
(* UdpStack. *)

Succ(n) == (n + 1) % Modulus

\* add: what was in the slot is erased.
Add(stack, k) == [stack EXCEPT ![k % Modulus] = k]

\* Slips in add: the count is not taken back for what is erased, or is not
\* raised again after it.
CountAfterAddTwice(s, k) == counter[s] + 1
CountAfterAddLosesOne(s, k) ==
  IF stacks[s][k % Modulus] = Empty THEN counter[s] + 1 ELSE counter[s] - 1
CountAfterAdd(s, k) ==
  IF stacks[s][k % Modulus] = Empty THEN counter[s] + 1 ELSE counter[s]

\* A slip: the search stops after the datagram, not at it.
AfterFirstStacked(stack, n) ==
  (n + 1 + CHOOSE d \in Counters :
             /\ stack[(n + d) % Modulus] # Empty
             /\ \A e \in 0..(d - 1) : stack[(n + e) % Modulus] = Empty) % Modulus

\* The first slot that holds a datagram, from slot n on.
FirstStacked(stack, n) ==
  (n + CHOOSE d \in Counters :
         /\ stack[(n + d) % Modulus] # Empty
         /\ \A e \in 0..(d - 1) : stack[(n + e) % Modulus] = Empty) % Modulus

\* handleStack: the datagram in slot n, if there is one, goes up; the source
\* stays the stacked one while the next slot is not empty.
HandleStack(s, stack, count, n) ==
  /\ stacks' = [stacks EXCEPT ![s] = [stack EXCEPT ![n] = Empty]]
  /\ IF stack[n] = Empty
     THEN counter' = [counter EXCEPT ![s] = count] /\ UNCHANGED <<delivered, last>>
     ELSE /\ counter' = [counter EXCEPT ![s] = count - 1]
          /\ delivered' = [delivered EXCEPT ![s] = @ \cup {stack[n]}]
          /\ last' = [last EXCEPT ![s] = stack[n]]

MoreAfter(stack, n) == [stack EXCEPT ![n] = Empty][Succ(n)] # Empty

-----------------------------------------------------------------------------
(* The receiver. *)

\* The counter expected from s when rank k arrives.
Expected(s, k) ==
  IF udpCounters[s] = Empty THEN k % Modulus ELSE Succ(udpCounters[s])

\* More than max_stack datagrams are stacked.
TooManyFromMaxOn(count) == count >= MaxStack
TooManyLate(count) == count > MaxStack + 1
TooMany(count) == count > MaxStack

\* The end of receive, n being the counter that was expected: when the stack is
\* too full, the datagrams missing before its first one are given up, and the
\* next call delivers that one.
Settle(s, nb, n, stack, count) ==
  \/ /\ ~TooMany(count)
     /\ pc' = "wait"
     /\ stackedIp' = NoSource
     /\ udpCounters' = [udpCounters EXCEPT ![s] = nb]
  \/ /\ TooMany(count)
     /\ pc' = "again"
     /\ stackedIp' = s
     /\ udpCounters' = [udpCounters EXCEPT ![s] = FirstStacked(stack, Succ(n))]

\* The datagram expected from s is stacked, now or since earlier: it goes up.
\* When its successor is stacked too, receive returns at once, before it
\* updates udp_counters.
DeliverExpected(s, n, stack, count) ==
  /\ HandleStack(s, stack, count, n)
  /\ \/ /\ MoreAfter(stack, n)
        /\ pc' = "again"
        /\ stackedIp' = s
        /\ UNCHANGED udpCounters
     \/ /\ ~MoreAfter(stack, n)
        /\ Settle(s, n, n, [stack EXCEPT ![n] = Empty], count - 1)

\* It is not: the new datagram waits in the stack.
KeepEarly(s, n, stack, count) ==
  /\ stacks' = [stacks EXCEPT ![s] = stack]
  /\ counter' = [counter EXCEPT ![s] = count]
  /\ UNCHANGED <<delivered, last>>
  /\ Settle(s, udpCounters[s], n, stack, count)

\* receive, with nothing stacked: the datagram is put in its slot first.
Receive(s, k) ==
  /\ pc = "wait"
  /\ Arrive(s, k)
  /\ LET stack == Add(stacks[s], k)
         count == CountAfterAdd(s, k)
         n == Expected(s, k)
     IN  \/ stack[n] # Empty /\ DeliverExpected(s, n, stack, count)
         \/ stack[n] = Empty /\ KeepEarly(s, n, stack, count)

\* The caller calls receive again: handleStack(buf, data_len) on stacked_ip.
ReceiveAgain ==
  /\ pc = "again"
  /\ LET s == stackedIp
         n == udpCounters[s]
     IN  /\ HandleStack(s, stacks[s], counter[s], n)
         /\ IF MoreAfter(stacks[s], n)
            THEN /\ udpCounters' = [udpCounters EXCEPT ![s] = Succ(n)]
                 /\ UNCHANGED <<pc, stackedIp>>
            ELSE /\ pc' = "wait"
                 /\ stackedIp' = NoSource
                 /\ UNCHANGED udpCounters
  /\ UNCHANGED netVars

Next ==
  \/ \E s \in Sources : Send(s)
  \/ \E s \in Sources : \E k \in network[s] : Lose(s, k) \/ Receive(s, k)
  \/ ReceiveAgain

Spec == Init /\ [][Next]_vars

-----------------------------------------------------------------------------
(* Properties. *)

TypeOK ==
  /\ sent \in [Sources -> 0..MaxSent]
  /\ network \in [Sources -> SUBSET Ranks]
  /\ received \in [Sources -> SUBSET Ranks]
  /\ lost \in 0..Losses
  /\ duplicated \in 0..Duplicates
  /\ udpCounters \in [Sources -> Counters \cup {Empty}]
  /\ stacks \in [Sources -> [Counters -> Ranks \cup {Empty}]]
  /\ counter \in [Sources -> 0..Modulus]
  /\ stackedIp \in Sources \cup {NoSource}
  /\ delivered \in [Sources -> SUBSET Ranks]
  /\ last \in [Sources -> Ranks \cup {Empty}]
  /\ pc \in {"wait", "again"}

\* The counter of a stack is the number of datagrams it holds, whatever was
\* duplicated, erased or given up.
CounterIsStackSize ==
  \A s \in Sources : counter[s] = Cardinality({n \in Counters : stacks[s][n] # Empty})

\* Between two events the stack never holds more than max_stack datagrams, and
\* no source is left to be served.
StackStaysBounded ==
  pc = "wait" => stackedIp = NoSource /\ \A s \in Sources : counter[s] <= MaxStack

\* Datagrams of one source go up in the order they were sent, each once, as
\* long as none was duplicated or overtaken by more than max_stack others, nor
\* by the first one received: the losses and the wrap-around do not matter.
DeliveredInOrder ==
  [][duplicated' = 0 => \A s \in Sources : last'[s] # last[s] => last'[s] > last[s]]_vars

\* A datagram that reached the receiver is delivered or in the stack: nothing
\* is erased or skipped without having been delivered, under the same conditions.
NothingForgotten ==
  duplicated = 0 => \A s \in Sources : \A k \in received[s] :
    k \in delivered[s] \/ \E n \in Counters : stacks[s][n] = k

\* UdpChannel.h: the stacks "keep the UDP datagram arrived too early": once the
\* ones before it are delivered, it does not stay in the stack.
NothingEarlyStaysStacked ==
  pc = "wait" =>
    \A s \in Sources : \A n \in Counters :
      stacks[s][n] # Empty => stacks[s][n] # last[s] + 1
=============================================================================
