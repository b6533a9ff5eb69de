# A TLA+ model of OpenSAND

OpenSAND emulates a satellite network: one process per satellite, gateway and
terminal, each a stack of *blocks* (LAN adaptation, encapsulation, DVB,
physical layer, satellite carriers), connected by UDP. This directory holds
TLA+ modules of its core, the TLC configurations that check them on small
instances, and proofs that TLAPS checks for every value of the constants.

    tlc -config RtFifo.cfg RtFifo               # one run (see "Runs")
    tlapm RtFifo_proofs.tla                     # the proofs about one module

## 1. Inventory

| Component | Source | State | Operations | Interacts with |
|---|---|---|---|---|
| RtFifo | opensand-rt/src/RtFifo, MessageEvent | queue, semaphore of free places, signalling pipe, mutex | push, pop, handle | the two channels it connects |
| RtChannel | opensand-rt/src/RtChannel, *Event | table of events by descriptor, new and removed events, select set, break pipe | add/removeEvent, updateEvents, executeThread, timers | its fifos, the kernel, the block's onEvent |
| Block, BlockManager, Rt | opensand-rt/src | list of blocks, threads, status, pending signals | init, start, wait, stop, reportError | all channels, main |
| UdpChannel | opensand-core/src/common, sat_carrier | counter and stack per source, stacked_ip | send, receive, handleStack | BlockSatCarrier, BlockInterconnect, the network |
| NCC interfaces | dvb/core/BlockDvbNcc, dvb/ncc_interface | client socket and pending requests of each interface, timers of spots | accept, read, dispatch, apply | PEP, SVNO and configuration clients; the upward channel |
| Slotted Aloha | dvb/saloha | packets waiting for ACK, replicas, slots, backoff | schedule, ACK, timeout, remove collisions | DVB blocks of terminals and NCC |
| DAMA | dvb/dama | capacity requests, allocations per terminal and category, timeouts | SAC, TTP, frame and superframe timers | DVB blocks, MAC fifos |
| Logon | dvb/core/BlockDvbTal, SpotUpward, SpotDownward | state of the terminal, table of terminals and spots | logon request and response, logoff | NCC and terminals through the link |
| Satellite | dvb/core/BlockDvbSat, SatGw, transparent, regenerative | fifos per spot and gateway shared by two channels | receive, forward, schedule | carriers, encapsulation |
| MAC and delay fifos | dvb/utils/DvbFifo, physical_layer/DelayFifo | bounded queues with statistics, queue ordered by time | push, pop, flush | schedulers, physical layer |
| Physical layer, fmt | physical_layer, dvb/fmt | attenuation, C/N, ModCod of each terminal | computed per step | tables of files |
| Encapsulation | encap, mandatory_plugins, opensand-plugins | contexts of partly filled packets with timers | encapsulate, timer, deencapsulate | LAN and DVB blocks |
| LAN adaptation | lan_adaptation, ip and ethernet plugins, SarpTable | address tables | read, write, header analysis | TUN/TAP |
| Interconnect | interconnect | two UdpChannels, fragments | send, receive | halves of a split gateway |
| Configuration, output, daemon, collector, manager | opensand-conf, -output, -daemon, -collector, -manager | files, probes, state of hosts | load, log, deploy | all processes |

What is hard: channels are threads that block one another through bounded
fifos; three counters of one fifo are updated at different times; a signal must
reach threads that may sleep elsewhere than in select; descriptors are closed
and given out again while their numbers are kept in several places; datagrams
are lost, duplicated and reordered; requests come from clients that may vanish
at any moment, and one of several may fail. `PROJECT.json` ("hazards") lists
these at their lines, with the properties that watch them.

## 2. Plan

Modelled, in this order: RtFifo (everything stands on it) with BoundedQueue, what
it promises; Runtime, which uses fifos as bounded counters; RtChannel;
UdpChannel; NccInterfaces, the external commands served in such a loop;
SlottedAloha and DamaScheduling, the two ways a terminal gets its slots;
TerminalLogon, how it comes to ask for them and follows the superframes;
PhysicalChannel, the delay of the link that all frames wait for.

Next, with what each is for:

1. `DvbFifo` and the fifos of `SatGw` shared by two channels; a run of
   PhysicalChannel below TerminalLogon.
2. The DAMA agent of the terminal (requests from the fill of its fifos, with the
   requests still on their way in `CircularBuffer`) composed with DamaScheduling.
3. Encapsulation contexts and their timers; interconnect fragmentation; output.

## 3. Modules

### BoundedQueue, RtFifo

`RtFifo` has one action per atomic step of `RtFifo::push` (call, sem_wait, lock,
queue, signal and unlock) and of the reader: `MessageEvent::handle` reads a word
(`ReadSignal`), then `pop` locks, takes the front and posts the semaphore after
the unlock; `OnEvent` is the end of the block's handler. `sem_wait`, and the
select or write that signals the reader, may fail (`CallsMayFail`):
`PushSemWaitFails` returns before anything changed, `PushSignalFails` after the
message was queued, which the history variable `lostSignals` counts.

`BoundedQueue` has no semaphore, mutex or pipe; RtFifo implements it with the
queue as queue and the reader's message as the one taken.

### Runtime

The stack of blocks, two channels each, with the fifos that
`BlockManager::createBlock` connects. A fifo is how many messages it holds.
A channel selects (`Select` handles every event that is ready, popping one
message of each fifo), processes the events of the batch, each with any sequence
of at most `MaxSends` pushes, and blocks in a push while the fifo is full. The
main thread initialises, starts, waits for the signal and then kills and joins
block after block. A signal to the process is not consumed by the channels: it
stays pending until `BlockManager::wait` reads it. `ReportCritical` is
`reportError` with the critical flag; `InitFails` and `StartFails` the failures
before the threads run.

Routes say which channels push where: upward channels may answer through their
downward one; the blocks in `SharesUp` push the other way too, as BlockDvbNcc.

### RtChannel

One channel's table: descriptors, events (with a serial number, so that two
events of one descriptor differ), lists of new and removed events, the select
set and its maximum, the words of the break pipe. The kernel gives out the
lowest free descriptor, also to other threads. `SelectAndHandle` follows the
loop over the table in order of descriptors, until as many events were seen as
select counted; a socket whose host disconnected stays readable and fails.
The priority sort gives way to the time since an event was last raised (100 s
per level), so the batch is processed in any order.

### UdpChannel

A datagram is its rank among those its source sent; its counter is the rank
modulo `Modulus` (256 in the code). `Receive` is the whole of
`UdpChannel::receive` for a new datagram: stack it, deliver the expected one,
give up missing ones when the stack is too full, with the early return that
skips the update of the counter. `ReceiveAgain` is what the loop of
BlockSatCarrier calls while receive returns 1. `delivered`, `last` and
`received` are histories. The network loses, duplicates and reorders within the
bounds of its constants.

### NccInterfaces

`BlockDvbNcc::Downward` with its three listening sockets. The loop is that of
RtChannel, with the events it has here: accepted clients, messages, timers.
`OnNetSocket` is the dispatch by descriptor and the whole branch of the
interface that matches first; `ApplyMessage` the loops of the SVNO and of the
configuration updates (they differ in what a failed read resets, in what is
shared with the upward channel, and in that a SVNO client is never freed);
`PepMessage` what the PEP does instead, leaving its requests to the timer of a
spot. `UpwardApplies` is `BlockDvbNcc::Upward`. BlockDvbSat and BlockDvbTal
serve configuration updates in the same way.

### SlottedAloha

A terminal (`SlottedAlohaTal`, with the part of BlockDvbTal that makes packets of
a burst) and the NCC (`SlottedAlohaNcc`, its collision removal and
`TerminalContextSaloha`). `NewBurst` gives an identifier to a burst and drops
what does not fit in the fifo; `TalTick` is the whole of `schedule` at a
superframe: timeouts count down, packets that timed out are sent again or given
up, the backoff is drawn, packets and their replicas take slots; `NccTick` removes
collisions, stores packets under their PDU, passes complete ones up and
acknowledges; `ReceiveAck` takes a packet out of those that wait. Simulated
terminals collide with the real one. `acked`, `handed` and `bursts` are histories.
Algorithm and draws are choices. Left out: several carriers, categories and QoS,
the backoffs EIED and MIMD, the removal of the oldest PDU after 65536 others.

The state machine has one copy of each packet, so that a collision loses it; the
algorithm CRDSA itself, which walks slots while it empties them, is compared
by `CrdsaIsComplete` with its definition (what remains is exactly what no
order of cancellation can decode) on every placement of 4 packets with 2 replicas
in 4 slots.

### DamaScheduling

The controller of the NCC for DVB-RCS2 (`DamaCtrl`, `DamaCtrlRcsCommon`,
`DamaCtrlRcs2`, `DamaCtrlRcs2Legacy`), one category on one carrier. `Logon`,
`Logoff`, `SacRbdc`, `SacVbdc`, `ApplyPepCommand` and `LinkChanges` are the
handlers; `SuperFrame` is `runOnSuperFrameChange`: reset of the contexts, waveforms,
then CRA, RBDC, VBDC and FCA, each a fold over the terminals in the order the code
takes them, and the TTP. Conversions between rates, volumes and slots round as
they do in the code, with and without coding. The credit is an exact fraction in
units of `CreditUnit`; for the sums below 9 that the instance reaches double
precision gives the same floors. An allocation that fails (a CRA that does not
fit) is the outcome "aborted" and is sent all the same; the FCA loop that meets a
terminal without waveform never ends: outcome "hung", after which nothing
happens. Left out: several categories and carriers, simulated requests, SVNO, the
agents and the schedulers.

### TerminalLogon

The NCC that numbers its superframes and answers requests, the link, the upward
and the downward channel of the terminal with the fifo between them, and of the
DAMA agent what is allocated for the next superframe. `UpwardReceives` filters:
SOF and TTP only once it is logged, responses only for this terminal;
`HandleStartOfFrame` is either `RebootDetected`, which fails after it sent a
request, or `SuperFrameBegins`. The NCC and the terminal may start again at any
time; what is on the link then still arrives. What DamaCtrl allocates is a
choice. `gap` and `seen` are histories: whether a SOF was lost before a frame, and
from which life of the NCC the terminal last took a SOF or a response. Left out:
logoff (only simulated terminals send it), SAC, SCPC, sends that fail, data; the
two channels of the NCC handle a request in one step.

### PhysicalChannel

One channel of the physical layer: `GroundPhysicalChannel` with its `DelayFifo`,
and the delay plugin (`ConstantDelay`, or `FileDelay` with its file as the function
`Scenario`). The thread of the channel is `pc`: `Arrive` reads the time,
`StartSearch` the delay, and each `Halve` is one turn of the binary search of
`getTickOutPosition`, whose result is `Position`; `Insert` ends `push`. `FifoTimer`,
`Forward` and `ForwardDone` are `forwardReadyPackets`. `UpdateDelay` is the timer of
the downward channel, a step of another thread when the channel is the upward
one, so it may fall between any two of these; `Tick` lets the wall clock advance or
be set back. Times are those of `time_ms_t`, modulo `TickSpan` (2^32). What is
read through `rend()` at the end of a file that is not looped is any delay, where
the comment in the code (FileDelay.cpp:247) says the last one is kept. A frame is its
number of arrival with what was read for it. Frames the channel does not delay and
what becomes of a frame that left the fifo are not in the model.

## 4. Runs

| Run | Instance | Shows |
|---|---|---|
| fifo | 2 producers, 2 messages, 3 places, failing calls, fair | the counters of a fifo account for one another and neither push nor pop meets "should not happen"; only lost signals wedge it; no producer starves, no wake-up is lost; refinement of BoundedQueue |
| runtime | 2 blocks, 1 place, messages from the network, no share upwards, fair | no circle of waiting channels (with shares upwards: `WaitCyclesNeedUpShare`); pushes complete, critical errors stop the process, a stop that hangs is behind an orphaned push |
| channel | 6 descriptors, 2 added events, 1 foreign descriptor, select may fail, fair | descriptors are owned, watched and not deleted within a batch; no event starves, stop ends the thread |
| udp | 1 source, 15 datagrams, counter modulo 12, stack of 2, 2 losses, overtaken by at most 2, 1 duplicate | order, nothing forgotten, the count of the stack and its bound |
| ncc_order | 2 clients, 3 interfaces, unknown spot, failures | requests applied in order and at most once, nobody closed unheard |
| ncc_pep | 2 clients one after the other, 2 spots, fair | every command of every message is applied and the client closed |
| saloha | 1 terminal and 1 simulated one, 2 slots, bursts of 1 or 2 packets, fifo of 2, 1 retransmission, 1 restart, loss, fair | a packet is in one place, acknowledged ones were taken, PDUs are passed up whole, collision removal is complete, every packet ends |
| dama | 2 terminals, RBDC, VBDC, CRA, PEP, waveforms that come and go, timers of 3 and 4 | slots are given once, fairly, within the requests, to all who can use them, and the TTP covers them |
| logon | numbers modulo 3, 2 starts of NCC and terminal, 2 frames and 1 request on the links, fair | a running terminal is known, uses only its last grant, logs on again only with a reason, and always comes to run again |

Why the bounds are enough: two producers and one more place than producers give
every overlap of a push with a push and with a pop, an empty, a partly full and
a full queue; two blocks have an inner border in each direction and both ends;
two added events and one foreign descriptor are what it takes to remove, reuse
and remove again; the counter of udp wraps and the stack fills, and what two
sources add is proved (`CounterAgrees`, `StackBounded` hold for any number);
two clients are a reused descriptor or an overlap, and two commands one that
fails and one left over; two bursts of two packets are an identifier given out
again, a PDU half received and a fifo that overflows; two terminals are a fair or
unfair share, a congested carrier, and one without a waveform beside one with;
modulo 3 superframe numbers turn often, two lives of the NCC overlap in what
the link still holds.

Runs that end in a violation, each a disagreement between the code and what it
says of itself (`PROJECT.json`, "findings"):

| Run | What happens |
|---|---|
| runtime_stop | the reader of a full fifo exits first; the writer never sees the stop signal, the join never returns |
| udp_early | two datagrams delivered in a row leave the counter one behind; the last early one stays stacked |
| saloha_dup | a packet sent again because its acknowledgement was lost counts as another fragment: a PDU is passed up with one packet twice and one missing |

Deadlock is checked everywhere but where the system may stop: the process that
or thread that ends (runtime, channel), the source that sent all (udp), clients
that send nothing more (ncc), the FCA loop that hangs (dama), the bounds on bursts
and restarts (saloha).

Some properties carry an exception, and each exception is a hazard of its own:
AckedWasTaken and HandedUpWhole leave out identifiers given out twice (a restart,
or a burst that did not fit); GrantIsForThisFrame and NoFalseAlarm the frames after
a lost SOF, of which the code cannot know; RunningIsKnown and LogsOnAgain the
restart of an NCC whose numbers were already beyond the terminal's
(BlockDvbTal.cpp:2015), which the comment above that line promises to notice.

Seen while modelling and followed by no run: main reports success after a
critical error (gw.cpp:400); a failed select leaves the thread blocked on the empty
break pipe (RtChannel.cpp:541); commands left by one that failed are applied with
the next message (BlockDvbNcc.cpp:874); a client that hangs up silently is never
removed and keeps its socket readable (BlockDvbNcc.cpp:692); the timer of one
spot applies the requests for terminals of another one (BlockDvbNcc.cpp:660); the
descriptor of a former client may bring a message to the wrong interface
(BlockDvbNcc.cpp:681); the result of processOnFrameTick, a bool, is compared with
< 0 (BlockDvbTal.cpp:2053); handleLogoffReq frees a frame its caller frees again
(SpotDownward.cpp:728); nothing clears an RBDC request when its timer ends
(DamaCtrlRcsCommon.cpp:438).

Fairness. Weak fairness of a thread is the scheduler's: a thread that can run
does. sem_wait and the mutex serve in no promised order; strong fairness of
these steps in the fifo run says that a thread that finds them free again and again
gets them in the end. In runtime no error and no signal need ever come. In the ncc
runs started timers expire; clients need do nothing. In saloha the ticks of the
terminal go on; neither acknowledgements nor the NCC are needed, since a packet
that nobody answers is given up. In logon the channels run, the timer of the logon
expires and superframes go on; strong fairness of delivery says that the links
do not lose every request, every response or every SOF, without which nobody
logs on. FrameTimer and HandleLogonReq are given strong fairness because the
bound on the link, which the code does not have, disables them at times.

## 5. Proofs

`RtFifo_proofs` proves, for any finite set of producers, any messages and any
capacity, with or without failing calls, from the assumptions named in `RtFifo`:

- `FifoInvariant`: `FifoInv` is inductive. The accounts alone are not: that the
  semaphore stays natural and the queue is not empty when `pop` takes its front
  needs to know who holds the mutex (`Ownership`), that a producer carries a
  message while it pushes (`Held`), and both accounts at once.
- `PopNeverEmpty`, `PushNeverFull`, `PlacesNeverLost`, `SignalsNeverLost`, together
  `CountersAgree`; `WedgeOnlyByLostSignals`, `FifoTypeOK`: what the fifo run checks
  follows from it.
- `FifoImplementsBoundedQueue`: every step is a Put, a Take, a Finish or a
  stutter; Put needs the room that `PushNeverFull` gives, Take the message that
  `PopNeverEmpty` gives.

`Rt_proofs`, about Runtime, for any height of the stack, capacity and routes:

- `RuntimeTypeOK`: fifos within their size, every blocked push towards a fifo
  that `createBlock` connected.
- `WaitCyclesNeedUpShare` needs no invariant: an upward channel waits for the one
  above it or its own downward one, a downward channel for the one below it.
  The lowest downward channel of a circle can only wait for an upward one, which
  only a sharing block does; a circle of upward channels alone has a highest one,
  which waits for nobody in the circle.

`Rt_proofs`, about RtChannel, for any numbers of descriptors, events and other
threads' descriptors, with or without failing selects:

- `ChannelInvariant`: to what the run checks it adds that the select set is the
  table and the break pipe (`SetFollowsTable`), that the pipe belongs to no event
  (`BreakPipeKept`), and that a batch is empty whenever the table changes
  (`BatchOver`). A new event's descriptor was closed, so no event owns it.
- `DescriptorsAlwaysOwned`, `BatchNeverDangles`, `SelectWatchesItsEvents`,
  `ChannelTypeOK` follow.

`UdpChannel_proofs`, for any sources, counter range, `max_stack` and network:

- `UdpInvariant`: `add` and `handleStack` change the counter and the stack alike,
  even when the slot was filled (`CounterAgrees`). The bound (`StackBounded`)
  needs that after one datagram too many the next slot is filled, so that the
  call that follows removes one, and that an unknown source has nothing stacked.
- `NothingIsForgotten` and `UdpDeliversInOrder` are about a network as `Tolerated`
  says: no datagram is overtaken by more than `max_stack` others nor by the first
  one received, and there are more counter values than datagrams that may be
  stacked, lost or in flight (`max_stack` + losses + window + 3; the run has
  2 + 2 + 4 + 3 of 12, the code 256 values). What each hypothesis excludes does
  happen without it: the early run breaks order by the first datagram, and a
  counter that turns too soon is taken for another rank. The invariant
  (`OrderInvariant`): all that was sent after the last one delivered is in
  flight, stacked or lost (`Span`), so that a slot tells a rank (`ModDistinct`);
  `udp_counters` is the counter of the last one delivered, or of the one before it
  after an early return; only between two calls is it that of the first of the
  stack, and then more than `max_stack` have overtaken those given up, so none
  of them is in flight (`GiveUp`).

`NccInterfaces_proofs`, for any connections, spots, descriptors and messages,
whether or not applying fails:

- `ReadBeforeClosed`: the NCC keeps numbers of descriptors, not connections. Every
  number it notes for removal is that of a connection that is accepted and was read
  (`ConnInv`), because a descriptor that the kernel gives to a new client is free
  (`FdForFree`), those of clients accepted together differ (`FdForDistinct`), and
  the table changes only when nothing is noted. `TypeCorrect` rests on the same.
- `RequestsInOrder`: numbers of requests grow along each list and from what was
  applied to what is shared to what still waits (`QueueInv`), for each interface
  and type; a loop that stops loses one and keeps the rest in order (`PartInOrder`).

`TerminalLogon_proofs`, for any modulus, volumes and bounds:

- `TypeCorrect`: the numbers stay below the modulus, links and fifo hold frames.
- `RunningTerminalKnown`: that a running terminal has a context needs that every
  response for it, on the link or in the fifo between its channels, comes from a life
  of the NCC that made one (`ResponsesMeanKnown`), and that contexts of a life
  are never lost; a SOF of another life either shows or is noted as missed.
- `RebootsAreReal` and `GrantsAreForTheirFrame`, the action properties: `Stream` is
  the last SOF handled, what is between the channels, what is on the link, and
  the SOF the NCC sends next, as one sequence. In it every frame follows the
  SOF before it by one superframe, or with the same number if it is a TTP, unless
  a loss is noted in between (`StreamInv`, `SuperFramesFollow`). A frame taken from
  it or added to it keeps that, because a lost SOF leaves its note on the next
  frame (`TakenOut`).

`PhysicalChannel_proofs`, for any size of the fifo, range of times, file of delays and
behaviour of the clock that is as `Configured` says:

- `PhysicalInvariant`: the search keeps two brackets (`SearchBrackets`): all before
  `start` leave no later than the new frame, all after `end` leave after it. With
  the fifo sorted a turn of the loop keeps them, and they meet at the place, so that
  `Position` is never -1 (`PositionSplits`), for which `push` would return true and
  keep nothing. Inserting there keeps the fifo sorted.
- `QueueAlwaysSorted`, `NothingEverLost` and `TimerDrains` follow; no assumption on
  the clock or on changes of the delay is needed, only that a frame keeps the time
  computed on its arrival. Sorted means by that time modulo 2^32: when the clock
  passes a multiple of it, frames computed after it go ahead of those before.
- `SteadyLinkKeepsOrder`: what it takes for the order of arrival, which frames have
  no other guard for: a steady delay, a clock that is not set back (it is
  gettimeofday) and no wrap. The new frame's place is then the end.
- `DelayWithinScenario`: the interpolation overshoots neither entry, by
  `QuotientBounded`.

`DamaScheduling_proofs`, for any finite set of terminals, capacity, contracts, requests,
packet length, frame duration and coding rate:

- An allocation is four loops, each a fold over the terminals. The induction
  theorems of the library take operators, so induction is stated here with sets
  (`SubsetInduction`, `NumberInduction`): from them come what a fold gives
  (`FoldExists`), the sums (`SumOfSet`, `SumAdded`, `SumScaled`), and for each loop a
  function that holds the record after every terminal (`CraChain`, `VbdcChain`,
  `ExtraChain`, `FcaChain`). Along it every slot is given or left, nothing is
  given without a waveform, and rates and volumes cover the slots (`Accounts`).
  The sort keeps every terminal, once (`DescendingIsOrder`).
- `SlotsAreGivenOnce`, `TypeCorrect` and `AssignmentsCoverSlots` follow from `Accounts` and
  lemmas about each conversion (`RateFacts`, `VolumeFacts`, `FecFacts`).
- `RequestsAreNotExceeded` and `SharesAreFair`: shares are rounded down, so a
  terminal that asked for anything has room for one slot more under congestion
  (`SharesFit`), which the second step gives once at most (`ExtraPhase`). Who has
  credit did ask: this must hold from one superframe to the next, through requests,
  the PEP and `resetTerminalsAllocations` (`ContextsOK`), because a maximum is never
  brought to 0.
- `VolumesComeFirst`: once the VBDC loop leaves a slot it served all it met, and
  before the first VBDC request, when the loop is not run, there is no volume.
- Of `CreditScale` and `CreditCap` only that they are numbers is assumed: none of
  this depends on how finely the credit is kept, or on the cap of the run.

`SlottedAloha_proofs`, for any terminals and simulated ones, any slots, replicas, fifo,
limits and backoff, with either algorithm, whatever is lost and however often a
terminal starts again:

- `AlohaInvariant`: `AlohaInv` has one part for each side of the link. Of a terminal
  (`Held`): what is new, what is sent again and what waits for an acknowledgement
  are packets of its bursts, the new ones never sent and those sent again sent
  before, each content once, and none of what was acknowledged. `TalTick` ages, splits,
  inserts in front and cuts, and each of these steps is a lemma about sequences of
  distinct contents (`CutQueue`, `TickInPlaces`). Of the NCC (`NccOK`): what it holds is
  what some terminal was given, a PDU has as many packets of one identifier as they
  say, and an acknowledgement on its way has its packet in a PDU or in what waits
  to be one.
- `PacketInOnePlaceHolds` (with the types and bounds of the places), `AckedWasTakenHolds`
  and `HandedUpWholeHolds` follow; a packet that waits is found by its identifier, so
  the second needs that two bursts with one identifier are what `Reused` says, and
  the third that equally many different packets of one burst are the burst
  (`PduIsBurst`).
- `CrdsaGoesAsFarAsItCan`, of which the run checks the instance `CrdsaIsComplete`
  (`CrdsaCompleteHolds`): for every frame, of any number of slots with any finite sets
  of packets, CRDSA leaves a set of packets that hide one another, decodes no
  packet of such a set, and decodes all that DSA accepts. A pass takes a packet in
  each slot where one is alone after what was decoded before; as long as a pass
  finds one it is in a slot from which none was taken (`PassStep`), so as many passes
  as slots end with nothing left to find (`CrdsaCloses`). The code repeats until a
  pass finds nothing: the model's fixed number of passes is enough to be the same.
- The folds of the model are treated as in DamaScheduling, as a function that holds
  what the loop has after each element (`FoldRuns`).

PhysicalChannel is proved only: an instance would show less than the theorems do, and
its safety properties have no liveness beside them.

Every safety invariant that a passing run checks is proved for every value of the
constants. Only model-checked: liveness everywhere (`Settles`, `StopEndsOrOrphans`,
`PushReturns` and the like), which together with fairness is out of the prover's
reach, and the three runs that end in a violation. `LeastNatural`, on which the
inductions rest, is stated in each module that needs it.

## 6. Not modelled

Parsing, packet formats, numerical models of the channel and of ModCods, the
configuration files and the user interface: data, not control. Memory: the write
through an end() iterator in UdpChannel::receive, double frees, double closes at
destruction and leaks. The unsynchronised reload of the configuration
(SpotDownward.cpp:1140). The satellite blocks, the MAC fifos, attenuation and error
insertion in the physical layer, the agents of DAMA (a terminal asks again for what
is already on its way, DamaAgentRcs2Legacy.cpp:130), the encapsulation contexts, the interconnect and the output are left to
the plan above.
