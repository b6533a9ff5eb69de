--------------------------- MODULE DamaScheduling ---------------------------
(***************************************************************************)
(* The NCC side of DAMA for one category with its one carrier: DamaCtrl    *)
(* keeps a context for each terminal that logged on, DamaCtrlRcsCommon     *)
(* takes the requests of the SACs and the commands of the PEP, and at each *)
(* superframe DamaCtrlRcs2Legacy shares the time slots of the carrier:     *)
(* first the CRA, then the RBDC, the VBDC and the FCA.  What it gave is    *)
(* sent in the TTP.                                                        *)
(*                                                                         *)
(* Rates are in kbit/s, volumes in kbit, capacities in slots, and the      *)
(* conversions round as the code does.  The credit, a double in the code,  *)
(* is a number of 1/CreditUnit kbit/s.  The waveform of a terminal is one  *)
(* that the carrier has or none.                                           *)
(***************************************************************************)
EXTENDS Integers, Sequences, FiniteSets, SequencesExt

CONSTANTS
  Terminals,      \* identifiers of terminals
  Contracts,      \* what a logon may ask: [cra, maxRbdc, maxVbdc]
  Capacity,       \* slots of the carrier in a superframe
  PacketBits,     \* bits of a slot, the coding included
  FrameDuration,  \* ms
  CodingNum, CodingDen, \* coding_rate
  RbdcTimeout,    \* rbdc_timeout_sf
  PepTimeout,     \* 100 in the code
  FcaKbps,        \* fca_kbps
  RbdcRequests,   \* rates in the requests
  VbdcRequests,   \* volumes in the requests
  PepCommands,    \* commands of the PEP: [cra, maxRbdc, rbdc], 0 for none
  CreditScale,    \* multiple of every sum of requests under congestion
  CreditCap       \* bound: credits above it are not told apart

ASSUME UnitsAssumption ==
  /\ PacketBits \in Nat \ {0} /\ FrameDuration \in Nat \ {0} /\ Capacity \in Nat
  /\ CodingNum \in Nat \ {0} /\ CodingDen \in Nat /\ CodingNum <= CodingDen
  /\ CreditScale \in Nat \ {0} /\ CreditCap \in Nat
ASSUME RequestsAssumption ==
  /\ IsFiniteSet(Terminals)
  /\ Contracts \subseteq [cra : Nat, maxRbdc : Nat, maxVbdc : Nat]
  /\ PepCommands \subseteq [cra : Nat, maxRbdc : Nat, rbdc : Nat]
  /\ RbdcRequests \subseteq Nat /\ VbdcRequests \subseteq Nat
  /\ RbdcTimeout \in Nat /\ PepTimeout \in Nat /\ FcaKbps \in Nat

VARIABLES
  order,       \* the logged terminals, in the order of the category
  ctx,         \* their contexts
  usable,      \* terminals with a waveform the carrier has
  enableRbdc,  \* enable_rbdc
  enableVbdc,  \* enable_vbdc
  frame        \* history: what the superframe that just ran gave, else NoFrame

vars == <<order, ctx, usable, enableRbdc, enableVbdc, frame>>

Smaller(a, b) == IF a < b THEN a ELSE b
Larger(a, b) == IF a > b THEN a ELSE b
CeilDiv(a, b) == (a + b - 1) \div b

-----------------------------------------------------------------------------
(* Conversions: ceilings, but for the rate with the coding. *)

AddFec(n) == (n * CodingDen) \div CodingNum
\* A slip: rounded down.
RemoveFecDown(n) == (n * CodingNum) \div CodingDen

RemoveFec(n) == CeilDiv(n * CodingNum, CodingDen)
KbpsToPktpf(k) == CeilDiv(k * FrameDuration, PacketBits)
PktpfToKbps(p) == CeilDiv(p * PacketBits, FrameDuration)
KbitsToPkt(k) == CeilDiv(k * 1000, PacketBits)
PktToKbits(p) == CeilDiv(p * PacketBits, 1000)
PsToPf(k) == CeilDiv(k * FrameDuration, 1000)

\* The slots a rate needs, the rate some slots give, and the same for volumes.
RateSlots(k) == KbpsToPktpf(AddFec(k))
SlotsRate(p) == RemoveFec(PktpfToKbps(p))
VolumeSlots(k) == KbitsToPkt(AddFec(k))
SlotsVolume(p) == RemoveFec(PktToKbits(p))

CreditUnit == CreditScale * FrameDuration * CodingNum
Capped(credit) == Smaller(credit, CreditCap * CreditUnit)

\* The credit for num / den of a slot.
SlotCredit(num, den) == num * (CreditScale \div den) * PacketBits * CodingDen

-----------------------------------------------------------------------------
(* Contexts of the terminals. *)

Nothing == [cra |-> 0, rbdc |-> 0, vbdc |-> 0, fca |-> 0]

Context(contract) ==
  [cra |-> contract.cra, maxRbdc |-> contract.maxRbdc, maxVbdc |-> contract.maxVbdc,
   timer |-> 0, rbdc |-> 0, credit |-> 0, vbdc |-> 0]

Off == Context([cra |-> 0, maxRbdc |-> 0, maxVbdc |-> 0])
Logged == ToSet(order)

RequireRbdc(c, kbps, timeout) ==
  [c EXCEPT !.rbdc = Smaller(kbps, c.maxRbdc), !.credit = 0, !.timer = timeout]

RequireVbdc(c, kb) == [c EXCEPT !.vbdc = Smaller(@ + kb, c.maxVbdc)]

\* A slip: what is allocated stays requested.
GrantVbdcKeeps(c, kb) == c

GrantVbdc(c, kb) == [c EXCEPT !.vbdc = Larger(@ - kb, 0)]

-----------------------------------------------------------------------------
(* The allocation of a superframe, step by step on a record w: the contexts, *)
(* what each terminal has by kind (in slots, and in kbit/s or kbit), the     *)
(* slots left, what the RBDC requests are worth, whether a step failed.      *)

\* The timer goes down; a credit that remains adds a slot to the request, which
\* takes the timer up again and the credit down.
ResetContext(t, c) ==
  LET r == [c EXCEPT !.timer = Larger(@ - 1, 0)]
      slot == PktpfToKbps(1)
  IN  IF r.timer = 0 \/ r.credit = 0 THEN r
      ELSE IF t \notin usable THEN [r EXCEPT !.credit = 0]
      ELSE [RequireRbdc(r, r.rbdc + slot, RbdcTimeout)
              EXCEPT !.credit = Larger(c.credit - slot * CreditUnit, 0)]

Reset ==
  [ctx |-> [t \in Terminals |-> IF t \in Logged THEN ResetContext(t, ctx[t]) ELSE Off],
   slots |-> [t \in Terminals |-> Nothing],
   alloc |-> [t \in Terminals |-> Nothing],
   wanted |-> [t \in Terminals |-> 0],
   left |-> Capacity,
   ok |-> \A t \in Logged \ usable : ctx[t].timer <= 1 \/ ctx[t].credit = 0,
   hung |-> FALSE]

\* One after the other, in full or not at all.
CraOf(w, t) ==
  LET need == RateSlots(w.ctx[t].cra)
  IN  IF t \notin usable \/ need > w.left THEN w
      ELSE [w EXCEPT !.alloc[t].cra = SlotsRate(need),
                     !.slots[t].cra = need,
                     !.left = @ - need]

\* It fails if less rate is allocated than requested, all terminals together.
AllocateCra(w) ==
  LET done == FoldLeft(CraOf, w, order)
      rate(c) == SumFunctionOnSet([t \in Terminals |-> c[t].cra], Logged \cap usable)
  IN  [done EXCEPT !.ok = rate(done.alloc) >= rate(w.ctx)]

\* std::stable_sort in descending order of key.
Descending(s, key) ==
  LET before(i, j) == key[s[i]] > key[s[j]] \/ (key[s[i]] = key[s[j]] /\ i < j)
      rank(j) == 1 + Cardinality({i \in 1..Len(s) : before(i, j)})
  IN  [r \in 1..Len(s) |-> s[CHOOSE j \in 1..Len(s) : rank(j) = r]]

\* A slip: the fair share is rounded up.
FairShareUp(need, total, capacity) ==
  IF total <= capacity THEN need ELSE CeilDiv(need * capacity, total)

\* The integer part of a request under the fair share.
FairShare(need, total, capacity) ==
  IF total <= capacity THEN need ELSE (need * capacity) \div total

\* The second step: one slot more for a terminal with more credit than that.
ExtraSlot(w, t) ==
  LET c == w.ctx[t]
      slot == SlotsRate(1)
  IN  IF /\ t \in usable
         /\ w.left > 0
         /\ c.credit > slot * CreditUnit
         /\ c.maxRbdc - w.alloc[t].rbdc - w.alloc[t].cra > slot
      THEN [w EXCEPT !.alloc[t].rbdc = @ + slot,
                     !.ctx[t].credit = @ - slot * CreditUnit,
                     !.slots[t].rbdc = @ + 1,
                     !.left = @ - 1]
      ELSE w

\* A slip: requests are served in the order of the category.
SharesInOrder(need, capacity) ==
  LET before(t) == {k \in DOMAIN order : \A j \in 1..k : order[j] # t}
  IN  [t \in Terminals |->
         Smaller(need[t], Larger(0, capacity - SumFunctionOnSet(need, {order[k] : k \in before(t)})))]

Shares(need, capacity) == [t \in Terminals |-> FairShare(need[t], SumFunction(need), capacity)]

\* A slip: the second step is taken also when every request was served.
CongestedAlways(total, capacity) == TRUE

\* fair_share > 1
Congested(total, capacity) == total > capacity

AllocateRbdc(w) ==
  LET need == [t \in Terminals |->
                 IF t \in Logged \cap usable THEN RateSlots(w.ctx[t].rbdc) ELSE 0]
      total == SumFunction(need)
      share == Shares(need, w.left)
      rest(t) == (need[t] * w.left) % total
      served(t) ==
        IF Congested(total, w.left) /\ t \in Logged \cap usable
        THEN [w.ctx[t] EXCEPT !.credit = Capped(@ + SlotCredit(rest(t), total))]
        ELSE w.ctx[t]
      first == [w EXCEPT !.ctx = [t \in Terminals |-> served(t)],
                         !.alloc = [t \in Terminals |->
                                      [w.alloc[t] EXCEPT !.rbdc = SlotsRate(share[t])]],
                         !.slots = [t \in Terminals |-> [w.slots[t] EXCEPT !.rbdc = share[t]]],
                         !.wanted = need,
                         !.left = @ - SumFunction(share)]
  IN  IF w.left = 0 \/ total = 0 THEN w
      ELSE IF Congested(total, w.left)
      THEN FoldLeft(ExtraSlot, first, Descending(order, [t \in Terminals |-> first.ctx[t].credit]))
      ELSE first

\* As much of the volume as there are slots.
VbdcOf(w, t) ==
  LET given == Smaller(VolumeSlots(w.ctx[t].vbdc), w.left)
  IN  IF t \notin usable \/ given = 0 THEN w
      ELSE [w EXCEPT !.ctx[t] = GrantVbdc(@, SlotsVolume(given)),
                     !.alloc[t].vbdc = SlotsVolume(given),
                     !.slots[t].vbdc = given,
                     !.left = @ - given]

AllocateVbdc(w) == FoldLeft(VbdcOf, w, Descending(order, [t \in Terminals |-> w.ctx[t].vbdc]))

\* The loop over the terminals does not go on from one without waveform.
FcaOf(w, t) ==
  LET given == Smaller(RateSlots(FcaKbps), w.left)
  IN  IF w.hung \/ w.left = 0 THEN w
      ELSE IF t \notin usable THEN [w EXCEPT !.hung = TRUE]
      ELSE [w EXCEPT !.alloc[t].fca = SlotsRate(given),
                     !.slots[t].fca = given,
                     !.left = @ - given]

AllocateFca(w) ==
  IF FcaKbps = 0 THEN w
  ELSE FoldLeft(FcaOf, w, Descending(order, [t \in Terminals |-> w.ctx[t].credit]))

\* computeTerminalsAllocations, which stops at the first step that fails.
Allocation ==
  LET cra == AllocateCra(Reset)
      rbdc == IF enableRbdc THEN AllocateRbdc(cra) ELSE cra
      vbdc == IF enableVbdc THEN AllocateVbdc(rbdc) ELSE rbdc
  IN  IF ~Reset.ok THEN Reset ELSE IF ~cra.ok THEN cra ELSE AllocateFca(vbdc)

-----------------------------------------------------------------------------
(* Actions.  Nothing happens any more once the allocation hangs. *)

NoFrame ==
  [slots |-> [t \in Terminals |-> Nothing], wanted |-> [t \in Terminals |-> 0],
   left |-> Capacity, ttp |-> [t \in Terminals |-> 0], outcome |-> "none"]

\* What happens between superframes: the history of the last one is forgotten.
Between == frame.outcome # "hung" /\ frame' = NoFrame

Init ==
  /\ order = <<>>
  /\ ctx = [t \in Terminals |-> Off]
  /\ usable = Terminals
  /\ enableRbdc = FALSE /\ enableVbdc = FALSE
  /\ frame = NoFrame

\* A terminal that is already known keeps its context, whatever it asks now.
Logon(t, contract) ==
  /\ Between
  /\ t \notin Logged
  /\ order' = Append(order, t)
  /\ ctx' = [ctx EXCEPT ![t] = Context(contract)]
  /\ UNCHANGED <<usable, enableRbdc, enableVbdc>>

Logoff(t) ==
  /\ Between
  /\ t \in Logged
  /\ \E k \in DOMAIN order : order[k] = t /\ order' = RemoveAt(order, k)
  /\ ctx' = [ctx EXCEPT ![t] = Off]
  /\ UNCHANGED <<usable, enableRbdc, enableVbdc>>

\* The RBDC part of a SAC: the CRA is taken off, what is above the maximum too.
SacRbdc(t, kbps) ==
  /\ Between
  /\ t \in Logged
  /\ ctx' = [ctx EXCEPT ![t] = RequireRbdc(@, Larger(kbps - @.cra, 0), RbdcTimeout)]
  /\ enableRbdc' = TRUE
  /\ UNCHANGED <<order, usable, enableVbdc>>

\* The VBDC part of a SAC, added to what is requested already.
SacVbdc(t, kb) ==
  /\ Between
  /\ t \in Logged
  /\ ctx' = [ctx EXCEPT ![t] = RequireVbdc(@, Smaller(kb, @.maxVbdc))]
  /\ enableVbdc' = TRUE
  /\ UNCHANGED <<order, usable, enableRbdc>>

\* The parts of a command that are not zero; the request of the terminal is not
\* brought below a new maximum, and enable_rbdc is not set.
ApplyPepCommand(t, command) ==
  /\ Between
  /\ t \in Logged
  /\ LET c == [ctx[t] EXCEPT !.cra = IF command.cra = 0 THEN @ ELSE command.cra,
                             !.maxRbdc = IF command.maxRbdc = 0 THEN @ ELSE command.maxRbdc]
     IN  ctx' = [ctx EXCEPT ![t] =
                   IF command.rbdc = 0 THEN c ELSE RequireRbdc(c, command.rbdc, PepTimeout)]
  /\ UNCHANGED <<order, usable, enableRbdc, enableVbdc>>

\* What a terminal receives, or the carrier it is on, changes its waveform.
LinkChanges(t) ==
  /\ Between
  /\ usable' = IF t \in usable THEN usable \ {t} ELSE usable \cup {t}
  /\ UNCHANGED <<order, ctx, enableRbdc, enableVbdc>>

\* The volume for each terminal in the TTP, none without a waveform.
Assignment(t, alloc) ==
  IF t \in usable THEN alloc.vbdc + PsToPf(alloc.cra + alloc.rbdc + alloc.fca) ELSE 0

\* An allocation that fails is sent all the same.
SuperFrame ==
  /\ frame.outcome # "hung"
  /\ \E w \in {Allocation} :
       /\ ctx' = w.ctx
       /\ frame' = [slots |-> w.slots, wanted |-> w.wanted, left |-> w.left,
                    ttp |-> [t \in Terminals |-> Assignment(t, w.alloc[t])],
                    outcome |-> IF w.hung THEN "hung" ELSE IF w.ok THEN "done" ELSE "aborted"]
  /\ UNCHANGED <<order, usable, enableRbdc, enableVbdc>>

Requests ==
  \E t \in Terminals :
    \/ \E contract \in Contracts : Logon(t, contract)
    \/ Logoff(t)
    \/ \E kbps \in RbdcRequests : SacRbdc(t, kbps)
    \/ \E kb \in VbdcRequests : SacVbdc(t, kb)
    \/ \E command \in PepCommands : ApplyPepCommand(t, command)

Next == Requests \/ SuperFrame \/ \E t \in Terminals : LinkChanges(t)

Spec == Init /\ [][Next]_vars

-----------------------------------------------------------------------------
(* Properties. *)

TypeOK ==
  /\ IsInjective(order) /\ Logged \subseteq Terminals
  /\ \A t \in Terminals :
       /\ DOMAIN ctx[t] = DOMAIN Off
       /\ \A field \in DOMAIN Off : ctx[t][field] \in Nat
       /\ t \notin Logged => ctx[t] = Off
       /\ \A kind \in DOMAIN Nothing : frame.slots[t][kind] \in Nat
       /\ frame.ttp[t] \in Nat
  /\ usable \subseteq Terminals
  /\ enableRbdc \in BOOLEAN /\ enableVbdc \in BOOLEAN
  /\ frame.left \in Nat
  /\ frame.outcome \in {"none", "done", "aborted", "hung"}

GivenTo(t) == SumFunction(frame.slots[t])

\* The slots of a carrier are given once: what the four allocations gave, each
\* with its own loop and its own roundings, never exceeds its capacity, whichever of
\* them are added, and no count, unsigned in the code, goes below 0 (TypeOK).
SlotsWithinCapacity ==
  /\ TypeOK
  /\ \A kinds \in SUBSET DOMAIN Nothing :
       SumFunction([t \in Terminals |-> SumFunctionOnSet(frame.slots[t], kinds)]) <= Capacity

\* A terminal gets no more RBDC slots than its own request is worth, though the
\* second step spends credit that comes from earlier requests.
RbdcWithinRequest == \A t \in Terminals : frame.slots[t].rbdc <= frame.wanted[t]

\* Two terminals whose RBDC requests are worth the same get the same, up to one
\* slot, wherever they are in the category and whatever credit they have.
EqualRequestsEqualShares ==
  \A a, b \in Terminals :
    frame.wanted[a] = frame.wanted[b] => frame.slots[a].rbdc - frame.slots[b].rbdc <= 1

\* After a superframe that went to its end, slots are left, or went to the FCA,
\* only if no volume waits for a terminal that could use them.
LeftMeansServed ==
  frame.outcome \in {"done", "hung"} /\ frame.left + SumFunction([t \in Terminals |-> frame.slots[t].fca]) > 0
    => \A t \in usable : ctx[t].vbdc = 0

\* The TTP lets a terminal use all the slots that were taken for it: the volumes
\* and rates, rounded several times, cover them.
AssignmentCoversSlots ==
  \A t \in Terminals :
    frame.ttp[t] * 1000 * CodingDen >= GivenTo(t) * PacketBits * CodingNum
=============================================================================
