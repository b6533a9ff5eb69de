---------------------------- MODULE SlottedAloha ----------------------------
(***************************************************************************)
(* The random access of the return link: the terminals of one Slotted      *)
(* Aloha category (SlottedAlohaTal) send each packet in NbReplicas slots   *)
(* of a frame, keep it until it is acknowledged and send it again when its *)
(* timeout, counted in frames, is over; the NCC (SlottedAlohaNcc) removes  *)
(* the collisions of a frame, acknowledges what is left and puts the PDUs  *)
(* of each terminal together (TerminalContextSaloha).                      *)
(*                                                                         *)
(* Packets of one burst of the encapsulation share the identifier base_id. *)
(* A frame takes effect at the NCC or is lost when it is sent, its travel  *)
(* being part of the wait for the next tick of the NCC; acknowledgements   *)
(* travel for any time and may be lost.  One carrier, one QoS, the backoff *)
(* BEB.                                                                    *)
(***************************************************************************)
EXTENDS Integers, Sequences, FiniteSets, SequencesExt

CONSTANTS
  Terminals,
  Simulated,           \* terminals whose traffic the NCC simulates
  Slots,               \* slots of a frame
  NbReplicas,          \* nb_replicas
  NbMaxPackets,        \* nb_max_packets of a terminal in a frame
  MaxRetransmissions,  \* nb_max_retransmissions
  TimeoutSaf,          \* timeout_saf
  FifoSize,            \* packets in the MAC fifo
  CwMax, Multiple,     \* parameters of the backoff
  BurstSizes,          \* packets in a burst of the encapsulation
  MaxBursts,           \* bursts each terminal receives
  MaxRestarts,         \* restarts of terminals
  MayLose              \* whether frames and acknowledgements may be lost

ASSUME SlotsAssumption ==
  /\ Slots \in Nat \ {0} /\ NbReplicas \in Nat \ {0}
  /\ NbMaxPackets \in Nat /\ NbMaxPackets * NbReplicas <= Slots
ASSUME CountsAssumption ==
  /\ MaxRetransmissions \in Nat /\ TimeoutSaf \in Nat \ {0} /\ FifoSize \in Nat \ {0}
  /\ CwMax \in Nat /\ Multiple \in Nat
  /\ BurstSizes \subseteq Nat \ {0} /\ MaxBursts \in Nat /\ MaxRestarts \in Nat
  /\ MayLose \in BOOLEAN
ASSUME NamesAssumption == Terminals \cap Simulated = {}

SlotIds == 0..(Slots - 1)

VARIABLES
  baseId,    \* base_id of each terminal
  fifo,      \* its MAC fifo
  waitAck,   \* packets_wait_ack
  retrans,   \* retransmission_packets
  cw,        \* the contention window
  backoff,   \* the backoff, in frames
  acks,      \* acknowledgements on their way to each terminal
  algo,      \* "DSA" or "CRDSA"
  slots,     \* the transmissions each slot of the NCC received
  waitProp,  \* wait_propagation: the fragments of the PDUs of each terminal
  bursts,    \* identifier and size of each burst of each terminal (history)
  acked,     \* the packets that left each terminal acknowledged (history)
  handed,    \* the PDUs passed to the encapsulation (history)
  restarts   \* restarts so far

talVars == <<baseId, fifo, waitAck, retrans, cw, backoff>>
nccVars == <<slots, waitProp, handed>>
vars == <<talVars, acks, nccVars, bursts, acked, restarts, algo>>

\* A slip: the place in the burst is left out.
UniqueIdWithoutSeq(p) == <<p.id, p.pduNb>>

\* What a packet is for the protocol: getUniqueId.
UniqueId(p) == <<p.id, p.seq, p.pduNb>>

\* What a packet holds: its place in a burst of the encapsulation.
Content(p) == <<p.burst, p.seq>>
Contents(s) == {Content(s[i]) : i \in DOMAIN s}

\* The numbers of a set in increasing order.
InOrder(S) ==
  [r \in 1..Cardinality(S) |-> CHOOSE x \in S : Cardinality({y \in S : y < x}) = r - 1]

\* The elements of a sequence at some places, in their order.
Picked(s, places) == [i \in 1..Cardinality(places) |-> s[InOrder(places)[i]]]

\* A packet as it is sent: the header, without the state the terminal keeps.
\* nbr, which no header holds, tells its transmissions apart.
OnAir(t, p) == [tal |-> t, burst |-> p.burst, id |-> p.id, seq |-> p.seq,
                pduNb |-> p.pduNb, nbr |-> p.nbr]

Init ==
  /\ baseId = [t \in Terminals |-> 0]
  /\ fifo = [t \in Terminals |-> <<>>]
  /\ waitAck = [t \in Terminals |-> <<>>]
  /\ retrans = [t \in Terminals |-> <<>>]
  /\ cw = [t \in Terminals |-> 1]
  /\ backoff \in [Terminals -> 0..1]
  /\ acks = [t \in Terminals |-> {}]
  /\ algo \in {"DSA", "CRDSA"}
  /\ slots = [k \in SlotIds |-> {}]
  /\ waitProp = [t \in Terminals |-> {}]
  /\ bursts = [t \in Terminals |-> <<>>]
  /\ acked = [t \in Terminals |-> {}]
  /\ handed = [t \in Terminals |-> {}]
  /\ restarts = 0

-----------------------------------------------------------------------------
(* The terminal. *)

\* A burst comes from the encapsulation: each packet gets its header, then a
\* place in the fifo.  When the fifo is full the rest of the burst is dropped,
\* and base_id moves on only if the header of the last packet was made.
NewBurst(t, n) ==
  LET room == FifoSize - Len(fifo[t])
      stored == IF n <= room THEN n ELSE room
      packet(i) == [burst |-> Len(bursts[t]) + 1, id |-> baseId[t], seq |-> i - 1,
                    pduNb |-> n, nbr |-> 0, timeout |-> TimeoutSaf]
  IN  /\ Len(bursts[t]) < MaxBursts
      /\ fifo' = [fifo EXCEPT ![t] = @ \o [i \in 1..stored |-> packet(i)]]
      /\ baseId' = [baseId EXCEPT ![t] = IF stored >= n - 1 THEN @ + 1 ELSE @]
      /\ bursts' = [bursts EXCEPT ![t] = Append(@, [id |-> baseId[t], size |-> n])]
      /\ UNCHANGED <<waitAck, retrans, cw, backoff, acks, nccVars, acked, restarts, algo>>

\* A slip: the timeout stops one frame early.
AgedToOne(s) == [i \in DOMAIN s |-> [s[i] EXCEPT !.timeout = IF @ > 1 THEN @ - 1 ELSE 1]]

\* decTimeout on every packet that waits for an acknowledgement.
Aged(s) == [i \in DOMAIN s |-> [s[i] EXCEPT !.timeout = IF @ > 0 THEN @ - 1 ELSE 0]]

TimedOut(p) == p.timeout = 0
CanBeRetransmitted(p) == p.nbr < MaxRetransmissions
Again(p) == [p EXCEPT !.nbr = @ + 1, !.timeout = TimeoutSaf]

\* The places of the packets whose timeout has ended, and of those of them that are
\* sent again, before what already waits to be.
Over(w) == {i \in DOMAIN w : TimedOut(Aged(w)[i])}
Repeated(w) == {i \in Over(w) : CanBeRetransmitted(w[i])}
Resend(w, r) == Picked([i \in Repeated(w) |-> Again(w[i])], Repeated(w)) \o r
Smaller(m, n) == IF m <= n THEN m ELSE n

\* BEB: what the contention window becomes when a packet is given up, and when
\* n of them are.
Wider(w, i) == IF w * Multiple <= CwMax THEN w * Multiple ELSE CwMax
CwAfter(n, w) == FoldLeft(Wider, w, [i \in 1..n |-> i])

\* The first packets of the queue take their replicas of the sorted slots.
Placed(t, queue, n, chosen) ==
  LET order == InOrder(chosen)
  IN  [k \in SlotIds |->
         {OnAir(t, queue[i]) : i \in {j \in 1..n :
            \E r \in 1..NbReplicas : order[(j - 1) * NbReplicas + r] = k}}]

\* What is sent reaches the NCC, or is lost.
Transmit(placed) ==
  \/ slots' = [k \in SlotIds |-> slots[k] \cup placed[k]]
  \/ MayLose /\ UNCHANGED slots

\* schedule, on a frame tick.
TalTick(t) ==
  LET aged == Aged(waitAck[t])
      ready == backoff[t] <= 1
      lost == Cardinality(Over(waitAck[t]) \ Repeated(waitAck[t]))
      resend == Resend(waitAck[t], retrans[t])
      queue == resend \o fifo[t]
      n == Smaller(Len(queue), NbMaxPackets)
      first == Smaller(n, Len(resend))
  IN  /\ \/ /\ ~ready
            /\ backoff' = [backoff EXCEPT ![t] = @ - 1]
            /\ waitAck' = [waitAck EXCEPT ![t] = aged]
            /\ UNCHANGED <<fifo, retrans, cw, slots>>
         \/ /\ ready
            /\ cw' = [cw EXCEPT ![t] = CwAfter(lost, @)]
            /\ \E b \in 0..(IF lost > 0 THEN cw'[t] ELSE 0) : backoff' = [backoff EXCEPT ![t] = b]
            /\ waitAck' = [waitAck EXCEPT ![t] =
                 Picked(aged, DOMAIN aged \ Over(waitAck[t])) \o SubSeq(queue, 1, n)]
            /\ retrans' = [retrans EXCEPT ![t] = SubSeq(resend, first + 1, Len(resend))]
            /\ fifo' = [fifo EXCEPT ![t] = SubSeq(@, n - first + 1, Len(@))]
            /\ \E chosen \in {c \in SUBSET SlotIds : Cardinality(c) = n * NbReplicas} :
                 Transmit(Placed(t, queue, n, chosen))
      /\ UNCHANGED <<baseId, acks, waitProp, handed, bursts, acked, restarts, algo>>

\* A slip: the packet stays in the list.
ReceiveAckKeeps(t, id) ==
  LET found == {i \in DOMAIN waitAck[t] : UniqueId(waitAck[t][i]) = id}
  IN  /\ id \in acks[t]
      /\ acks' = [acks EXCEPT ![t] = @ \ {id}]
      /\ acked' = [acked EXCEPT ![t] = @ \cup {Content(waitAck[t][i]) : i \in found}]
      /\ cw' = [cw EXCEPT ![t] = 1]
      /\ \E b \in 0..1 : backoff' = [backoff EXCEPT ![t] = b]
      /\ UNCHANGED <<baseId, fifo, waitAck, retrans, nccVars, bursts, restarts, algo>>

\* onRcvFrame: the first packet waiting with this identifier is acknowledged,
\* and the backoff starts anew; else the acknowledgement is ignored.
ReceiveAck(t, id) ==
  LET found == {i \in DOMAIN waitAck[t] : UniqueId(waitAck[t][i]) = id}
      i == CHOOSE j \in found : \A k \in found : j <= k
  IN  /\ id \in acks[t]
      /\ acks' = [acks EXCEPT ![t] = @ \ {id}]
      /\ \/ /\ found # {}
            /\ waitAck' = [waitAck EXCEPT ![t] = RemoveAt(@, i)]
            /\ acked' = [acked EXCEPT ![t] = @ \cup {Content(waitAck[t][i])}]
            /\ cw' = [cw EXCEPT ![t] = 1]
            /\ \E b \in 0..1 : backoff' = [backoff EXCEPT ![t] = b]
         \/ found = {} /\ UNCHANGED <<waitAck, acked, cw, backoff>>
      /\ UNCHANGED <<baseId, fifo, retrans, nccVars, bursts, restarts, algo>>

LoseAck(t, id) ==
  /\ MayLose
  /\ id \in acks[t]
  /\ acks' = [acks EXCEPT ![t] = @ \ {id}]
  /\ UNCHANGED <<talVars, nccVars, bursts, acked, restarts, algo>>

\* The process of the terminal is started again; addTerminal keeps the context
\* the NCC has of it.
Restart(t) ==
  /\ restarts < MaxRestarts
  /\ restarts' = restarts + 1
  /\ baseId' = [baseId EXCEPT ![t] = 0]
  /\ fifo' = [fifo EXCEPT ![t] = <<>>]
  /\ waitAck' = [waitAck EXCEPT ![t] = <<>>]
  /\ retrans' = [retrans EXCEPT ![t] = <<>>]
  /\ cw' = [cw EXCEPT ![t] = 1]
  /\ \E b \in 0..1 : backoff' = [backoff EXCEPT ![t] = b]
  /\ UNCHANGED <<acks, nccVars, bursts, acked, algo>>

-----------------------------------------------------------------------------
(* The NCC. *)

Key(q) == <<q.tal, UniqueId(q)>>
Keys(S) == {Key(q) : q \in S}
EachSlot(frame) == [k \in 1..Cardinality(DOMAIN frame) |-> k - 1]

\* simulateTraffic: every simulated terminal has one packet in the frame.
NoiseFrom(x) == [tal |-> x, burst |-> 0, id |-> 0, seq |-> 0, pduNb |-> 0, nbr |-> 0]
Noises == [Simulated -> {c \in SUBSET SlotIds : Cardinality(c) = NbReplicas}]
WithNoise(noise) ==
  [k \in SlotIds |-> slots[k] \cup {NoiseFrom(x) : x \in {y \in Simulated : k \in noise[y]}}]

\* Dsa: a packet alone in its slot is accepted, unless it already is.
DsaAccepts(frame) ==
  LET AcceptAlone(accepted, k) ==
        accepted \cup {[slot |-> k, pkt |-> p] : p \in
           {q \in frame[k] : frame[k] = {q} /\ Key(q) \notin Keys({a.pkt : a \in accepted})}}
  IN  FoldLeft(AcceptAlone, {}, EachSlot(frame))

\* Crdsa, one slot: the packets accepted before leave it; one left is accepted.
SuppressAndAccept(st, k) ==
  LET left == {p \in st.left[k] : Key(p) \notin Keys({a.pkt : a \in st.accepted})}
  IN  [left |-> [st.left EXCEPT ![k] = left],
       accepted |-> st.accepted \cup
         {[slot |-> k, pkt |-> p] : p \in {q \in left : left = {q}}}]

\* A pass that accepts nothing is the last: as many as slots always suffice.
CrdsaPass(st, pass) == FoldLeft(SuppressAndAccept, st, EachSlot(st.left))
\* A slip: a single pass over the slots.
CrdsaAcceptsOnePass(frame) == CrdsaPass([left |-> frame, accepted |-> {}], 1).accepted
CrdsaAccepts(frame) ==
  FoldLeft(CrdsaPass, [left |-> frame, accepted |-> {}], EachSlot(frame)).accepted

\* removeCollisions, and the sort by slot.
Accepted(frame) ==
  LET set == IF algo = "CRDSA" THEN CrdsaAccepts(frame) ELSE DsaAccepts(frame)
      order == InOrder({a.slot : a \in set})
  IN  [i \in DOMAIN order |-> (CHOOSE a \in set : a.slot = order[i]).pkt]

\* A slip: compares before the packet is counted.
AddPacketOneShort(st, p) ==
  LET before == {q \in st.wait[p.tal] : q.id = p.id}
      complete == Cardinality(before) + 1 >= p.pduNb - 1
  IN  [wait |-> [st.wait EXCEPT ![p.tal] = IF complete THEN @ \ before ELSE @ \cup {p}],
       handed |-> [st.handed EXCEPT ![p.tal] = IF complete THEN @ \cup {before \cup {p}} ELSE @],
       acks |-> [st.acks EXCEPT ![p.tal] = @ \cup {UniqueId(p)}]]

\* addPacket: as many fragments of this identifier as the packet says the PDU
\* has are a complete PDU.  (The removal of the oldest content, after 65536
\* PDUs, is left out.)
AddPacket(st, p) ==
  LET pdu == {q \in st.wait[p.tal] : q.id = p.id} \cup {p}
      complete == Cardinality(pdu) = p.pduNb
  IN  [wait |-> [st.wait EXCEPT ![p.tal] = IF complete THEN @ \ pdu ELSE @ \cup {p}],
       handed |-> [st.handed EXCEPT ![p.tal] = IF complete THEN @ \cup {pdu} ELSE @],
       acks |-> [st.acks EXCEPT ![p.tal] = @ \cup {UniqueId(p)}]]

\* schedule, on a frame tick: nothing when nothing was received; the packets
\* that were simulated are dropped.
NccTick ==
  /\ \E k \in SlotIds : slots[k] # {}
  /\ \E noise \in Noises :
       LET all == Accepted(WithNoise(noise))
           real == Picked(all, {i \in DOMAIN all : all[i].tal \in Terminals})
           st == FoldLeft(AddPacket, [wait |-> waitProp, handed |-> handed, acks |-> acks], real)
       IN  /\ waitProp' = st.wait
           /\ handed' = st.handed
           /\ acks' = st.acks
  /\ slots' = [k \in SlotIds |-> {}]
  /\ UNCHANGED <<talVars, bursts, acked, restarts, algo>>

-----------------------------------------------------------------------------
Next ==
  \/ NccTick
  \/ \E t \in Terminals :
       \/ \E n \in BurstSizes : NewBurst(t, n)
       \/ TalTick(t)
       \/ \E id \in acks[t] : ReceiveAck(t, id) \/ LoseAck(t, id)
       \/ Restart(t)

Spec == Init /\ [][Next]_vars

\* Every terminal receives its start-of-frames; nothing is asked of the NCC, of
\* the links or of the encapsulation.
FairSpec == Spec /\ \A t \in Terminals : WF_vars(TalTick(t))

-----------------------------------------------------------------------------
(* Properties. *)

Transmission == [tal : Terminals, burst : 1..MaxBursts, id : Nat, seq : Nat,
                 pduNb : BurstSizes, nbr : 0..MaxRetransmissions]
IsPacket(p) ==
  /\ p.burst \in 1..MaxBursts /\ p.pduNb \in BurstSizes /\ p.seq \in 0..(p.pduNb - 1)
  /\ p.nbr \in 0..MaxRetransmissions /\ p.timeout \in 0..TimeoutSaf

TypeOK ==
  /\ \A t \in Terminals :
       /\ Len(fifo[t]) <= FifoSize
       /\ \A i \in DOMAIN fifo[t] : IsPacket(fifo[t][i]) /\ fifo[t][i].nbr = 0
       /\ \A i \in DOMAIN waitAck[t] : IsPacket(waitAck[t][i])
       /\ \A i \in DOMAIN retrans[t] : IsPacket(retrans[t][i]) /\ retrans[t][i].nbr > 0
       /\ baseId[t] \in 0..Len(bursts[t])
       /\ cw[t] <= CwMax \/ cw[t] = 1
       /\ backoff[t] \in 0..cw[t]
       /\ waitProp[t] \subseteq Transmission
       /\ \A pdu \in handed[t] : pdu \subseteq Transmission
  /\ \A k \in SlotIds : slots[k] \subseteq Transmission

\* Everything a terminal holds.
Stored(t) == fifo[t] \o retrans[t] \o waitAck[t]

\* A packet is held once: to be sent, to be sent again or waiting for its
\* acknowledgement; and no longer once it is acknowledged.  The places keep their
\* bounds (TypeOK).
PacketInOnePlace ==
  /\ TypeOK
  /\ \A t \in Terminals :
       /\ Cardinality(Contents(Stored(t))) = Len(Stored(t))
       /\ Contents(Stored(t)) \cap acked[t] = {}

\* Two bursts of a terminal share an identifier: after a restart, or after a
\* burst that did not fit in the fifo.
Reused(t, id) ==
  \E i, j \in DOMAIN bursts[t] : i # j /\ bursts[t][i].id = id /\ bursts[t][j].id = id

Taken(t) == {Content(q) : q \in waitProp[t] \cup UNION handed[t]}

\* An acknowledged packet is not lost: the NCC put it in a PDU, unless its
\* identifier was given out again.
AckedWasTaken ==
  \A t \in Terminals : \A c \in acked[t] :
    c \in Taken(t) \/ Reused(t, bursts[t][c[1]].id)

IsWhole(t, pdu) ==
  \E b \in DOMAIN bursts[t] :
    /\ Contents(SetToSeq(pdu)) = {b} \X (0..(bursts[t][b].size - 1))
    /\ Cardinality(pdu) = bursts[t][b].size

\* A PDU passed to the encapsulation is a burst, with each of its packets once,
\* and no burst is passed twice, whatever collides and is lost: all PDUs that
\* break this hold a packet that was sent again or an identifier given out
\* again.
HandedUpWhole ==
  \A t \in Terminals : \A pdu \in handed[t] :
    \/ \E q \in pdu : q.nbr > 0 \/ Reused(t, q.id)
    \/ /\ IsWhole(t, pdu)
       /\ \A other \in handed[t] \ {pdu} :
            Contents(SetToSeq(other)) \cap Contents(SetToSeq(pdu)) # {} =>
              \E q \in other : q.nbr > 0

\* Interference cancellation goes as far as it can: what CRDSA leaves undecoded
\* is a set of packets that hide one another, and nothing it decodes is in one.
\* Checked for all ways to place four packets, twice each, in four slots, once
\* and for all before any burst comes: nothing in it depends on the rest.
HideOneAnother(X, frame) ==
  \A k \in DOMAIN frame :
    Keys(frame[k]) \cap X # {} => Cardinality({q \in frame[k] : Key(q) \in X}) >= 2
Placements == [1..4 -> {c \in SUBSET (0..3) : Cardinality(c) = 2}]
CrdsaIsComplete ==
  (algo = "CRDSA" /\ \A t \in Terminals : bursts[t] = <<>>) => \A where \in Placements :
    LET frame == [k \in 0..3 |-> {NoiseFrom(x) : x \in {y \in 1..4 : k \in where[y]}}]
        all == {Key(NoiseFrom(x)) : x \in 1..4}
        decoded == Keys({a.pkt : a \in CrdsaAccepts(frame)})
    IN  /\ HideOneAnother(all \ decoded, frame)
        /\ \A X \in SUBSET all : HideOneAnother(X, frame) => X \cap decoded = {}
        /\ Keys({a.pkt : a \in DsaAccepts(frame)}) \subseteq decoded

\* TerminalContextSaloha.h: "Fragments are propagated once all fragments of the
\* complete PDU are received".
PropagatedOnceComplete ==
  \A t \in Terminals : \A pdu \in handed[t] :
    \A q \in pdu : {p.seq : p \in pdu} = 0..(q.pduNb - 1)

\* Whatever is lost, a terminal is done with every burst: each of its packets is
\* acknowledged, or given up after its retransmissions.
BurstsStored(t) == {p.burst : p \in ToSet(Stored(t))}
Settles ==
  \A t \in Terminals : \A b \in 1..MaxBursts : b \in BurstsStored(t) ~> b \notin BurstsStored(t)
=============================================================================
