-------------------------- MODULE PhysicalChannel --------------------------
(***************************************************************************)
(* One channel of the physical layer of a terminal or of a gateway: the    *)
(* frames it holds back for the delay of the satellite link, and the       *)
(* plugin of that delay, which the thread of the downward channel updates  *)
(* while both channels read it.                                            *)
(*                                                                         *)
(* Only the frames the channel delays are in the model: a SOF goes through *)
(* at once and a SAC that reaches a terminal is deleted, and neither       *)
(* touches the fifo.  What forwardPacket does with a frame that left the   *)
(* fifo (attenuation, corruption) is left out, as its result is ignored.   *)
(***************************************************************************)
EXTENDS Integers, SequencesExt

CONSTANTS
  MaxSize,       \* delay_buffer: the frames the fifo holds
  TickSpan,      \* 2^32: the values of time_ms_t
  FileDelay,     \* whether the delay is read from a file or constant
  FirstDelay,    \* the delay after init
  Scenario,      \* the file: delays at some of the steps
  Loop           \* whether it starts again at its end

VARIABLES
  clock,     \* gettimeofday, in ms
  delay,     \* SatDelayPlugin::delay
  step,      \* FileDelay::current_time
  arrived,   \* the delayed frames that arrived, numbered from one
  queue,     \* DelayFifo::queue
  dropped,   \* the frames refused by a full fifo
  forwarded, \* the frames that left the fifo
  pc,        \* where the thread of the channel is
  elem,      \* the frame pushPacket is about, with the time and the delay it read
  start, end,\* the bounds of the search for its place, from zero
  now        \* the time forwardReadyPackets read

plugin == <<delay, step>>
search == <<elem, start, end>>
vars == <<clock, plugin, arrived, queue, dropped, forwarded, pc, search, now>>

\* The arithmetic of time_ms_t.
Ms(n) == n % TickSpan

\* The time at which a frame may leave, from what pushPacket read.
TickOut(e) == Ms(e.at + e.lag)

Elements == [no : Nat, at : Nat, lag : Nat]

Init ==
  /\ clock \in Nat
  /\ delay = FirstDelay
  /\ step = 0
  /\ arrived = 0
  /\ queue = <<>>
  /\ dropped = {} /\ forwarded = {}
  /\ pc = "idle"
  /\ elem = [no |-> 0, at |-> 0, lag |-> 0]
  /\ start = 0 /\ end = 0
  /\ now = 0

\* pushPacket, first the time ...
Arrive ==
  /\ pc = "idle"
  /\ arrived' = arrived + 1
  /\ elem' = [no |-> arrived + 1, at |-> clock, lag |-> 0]
  /\ pc' = "delay"
  /\ UNCHANGED <<clock, plugin, queue, dropped, forwarded, start, end, now>>

\* ... then the delay; the frame is dropped when the fifo is full, and DelayFifo::push
\* starts to look for its place when it is not.
Refuse ==
  /\ pc = "delay"
  /\ Len(queue) >= MaxSize
  /\ dropped' = dropped \cup {elem.no}
  /\ pc' = "idle"
  /\ UNCHANGED <<clock, plugin, arrived, queue, forwarded, search, now>>

StartSearch ==
  /\ pc = "delay"
  /\ Len(queue) < MaxSize
  /\ elem' = [elem EXCEPT !.lag = delay]
  /\ start' = 0
  /\ end' = Len(queue) - 1
  /\ pc' = "search"
  /\ UNCHANGED <<clock, plugin, arrived, queue, dropped, forwarded, now>>

\* One turn of the loop of getTickOutPosition.
Halve ==
  /\ pc = "search"
  /\ end > start
  /\ LET test == (end + start) \div 2
     IN  IF TickOut(queue[test + 1]) > TickOut(elem)
         THEN end' = test /\ UNCHANGED start
         ELSE start' = test + 1 /\ UNCHANGED end
  /\ UNCHANGED <<clock, plugin, arrived, queue, dropped, forwarded, pc, elem, now>>

\* The position it returns; -1 when the loop ends on neither of its two tests.
Position ==
  IF end = start
  THEN IF TickOut(queue[start + 1]) > TickOut(elem) THEN start ELSE start + 1
  ELSE IF end < 0 THEN 0 ELSE -1

\* The end of push: true is returned whether the frame was inserted or not.
Insert ==
  /\ pc = "search"
  /\ end <= start
  /\ queue' = IF Position >= 0 THEN InsertAt(queue, Position + 1, elem) ELSE queue
  /\ pc' = "idle"
  /\ UNCHANGED <<clock, plugin, arrived, dropped, forwarded, search, now>>

\* The fifo timer: forwardReadyPackets reads the time once ...
FifoTimer ==
  /\ pc = "idle"
  /\ now' = Ms(clock)
  /\ pc' = "forward"
  /\ UNCHANGED <<clock, plugin, arrived, queue, dropped, forwarded, search>>

HeadIsReady == Len(queue) > 0 /\ TickOut(Head(queue)) <= now

\* ... and takes the head of the fifo as long as its time has come.
Forward ==
  /\ pc = "forward"
  /\ HeadIsReady
  /\ forwarded' = forwarded \cup {Head(queue).no}
  /\ queue' = Tail(queue)
  /\ UNCHANGED <<clock, plugin, arrived, dropped, pc, search, now>>

ForwardDone ==
  /\ pc = "forward"
  /\ ~ HeadIsReady
  /\ pc' = "idle"
  /\ UNCHANGED <<clock, plugin, arrived, queue, dropped, forwarded, search, now>>

\* The wall clock advances, and may be set back.
Tick ==
  /\ \/ clock' = clock + 1
     \/ \E back \in 1..clock : clock' = clock - back
  /\ UNCHANGED <<plugin, arrived, queue, dropped, forwarded, pc, search, now>>

\* What the conversion of the double to time_ms_t leaves of n * m / d: the product
\* with the rounded quotient may fall just below a result that is an integer.  (For
\* entries below 2^20 the error of a double is far below any other distance.)
Truncated(n, m, d) ==
  LET q == (n * m) \div d
  IN  IF (n * m) % d = 0 THEN {q, q - 1} \cap Nat ELSE {q}

\* The linear interpolation between two entries of the file.  A negative double is
\* converted modulo 2^32, as 64-bit builds do, and the sum wraps back.
Interpolated(t, old, new) ==
  IF Scenario[new] >= Scenario[old]
  THEN {Scenario[old] + x :
          x \in Truncated(t - old, Scenario[new] - Scenario[old], new - old)}
  ELSE {Scenario[old] - x :
          x \in Truncated(t - old, Scenario[old] - Scenario[new], new - old)}

Later(t) == {u \in DOMAIN Scenario : u >= t}
Earlier(t) == {u \in DOMAIN Scenario : u < t}
Least(T) == {u \in T : \A v \in T : u <= v}
Greatest(T) == {u \in T : \A v \in T : v <= u}

\* FileDelay::updateSatDelay, within the file: between two entries, or before the first.
FollowScenario ==
  /\ step' = step + 1
  /\ \E new \in Least(Later(step + 1)) :
       \/ \E old \in Greatest(Earlier(new)) :
            delay' \in Interpolated(step + 1, old, new)
       \/ /\ Earlier(new) = {}
          /\ delay' = Scenario[new]

\* At its end, the first delay again ...
RestartScenario ==
  /\ Later(step + 1) = {} /\ Loop
  /\ step' = 0
  /\ \E first \in Least(DOMAIN Scenario) : delay' = Scenario[first]

\* ... or what is read through rend(), which is no entry of the map: anything.
LeaveScenario ==
  /\ Later(step + 1) = {} /\ ~Loop
  /\ step' = step + 1
  /\ delay' \in 0..(TickSpan - 1)

\* The delay timer of the downward channel; nothing to do for a constant delay.
UpdateDelay ==
  /\ FileDelay
  /\ FollowScenario \/ RestartScenario \/ LeaveScenario
  /\ UNCHANGED <<clock, arrived, queue, dropped, forwarded, pc, search, now>>

Next ==
  \/ Arrive \/ Refuse \/ StartSearch \/ Halve \/ Insert
  \/ FifoTimer \/ Forward \/ ForwardDone
  \/ Tick \/ UpdateDelay

Spec == Init /\ [][Next]_vars

Milliseconds == 0..(TickSpan - 1)

\* What the configuration gives: a size, a width, and a file with an entry.
Configured ==
  /\ MaxSize \in Nat
  /\ TickSpan \in Nat \ {0}
  /\ FirstDelay \in Milliseconds
  /\ FileDelay =>
       /\ DOMAIN Scenario \subseteq Nat
       /\ DOMAIN Scenario # {}
       /\ \A u \in DOMAIN Scenario : Scenario[u] \in Milliseconds

TypeOK ==
  /\ clock \in Nat /\ step \in Nat /\ arrived \in Nat
  /\ delay \in Milliseconds
  /\ queue \in Seq(Elements)
  /\ Len(queue) <= MaxSize
  /\ dropped \subseteq Nat /\ forwarded \subseteq Nat
  /\ pc \in {"idle", "delay", "search", "forward"}
  /\ elem \in Elements
  /\ start \in Nat
  /\ end \in Int
  /\ now \in Milliseconds

\* Frames leave in the order of their times and, among those of one time, in the
\* order they came in, however the delay changed and the clock moved while they
\* waited.
Before(e, f) ==
  \/ TickOut(e) < TickOut(f)
  \/ TickOut(e) = TickOut(f) /\ e.no < f.no

QueueSorted ==
  \A i, j \in 1..Len(queue) : i < j => Before(queue[i], queue[j])

Queued == {queue[i].no : i \in 1..Len(queue)}

InHand == IF pc \in {"delay", "search"} THEN {elem.no} ELSE {}

\* Every frame that arrived is in one place: it waits in the fifo, was refused by a
\* full one, left it, or is being stored.  DelayFifo::push returns true for a frame it
\* did not insert, which would be in none.
NothingLost ==
  /\ 1..arrived = Queued \cup dropped \cup forwarded \cup InHand
  /\ \A n \in Nat :
       /\ n \in Queued => n \notin dropped \cup forwarded \cup InHand
       /\ n \in dropped => n \notin forwarded \cup InHand
       /\ n \in forwarded => n \notin InHand

\* A turn of the timer leaves no frame behind whose time had come, although it looks
\* at the head of the fifo only.
LeavesNoneDue ==
  pc = "forward" /\ pc' = "idle" =>
    \A i \in 1..Len(queue) : TickOut(queue[i]) > now

Drained == [][LeavesNoneDue]_vars

\* With a delay that does not change, a clock that is not set back and times that do
\* not wrap, frames leave in the order they came in.
Steady == delay' = delay /\ clock' >= clock
NoWrap == clock + delay < TickSpan
SteadySpec == Init /\ NoWrap /\ [][Next /\ Steady /\ NoWrap']_vars

InOrder ==
  \A i \in 1..Len(queue) :
    /\ \A n \in forwarded : n < queue[i].no
    /\ \A j \in 1..(i - 1) : queue[j].no < queue[i].no


\* The delay stays within the largest of the file (getMaxDelay) when the file is
\* played again at its end, and below the first delay until it is first read.
WithinScenario ==
  (FileDelay => Loop) =>
    \A m \in Nat :
      FirstDelay <= m /\ (FileDelay => \A u \in DOMAIN Scenario : Scenario[u] <= m)
        => delay <= m
=============================================================================
