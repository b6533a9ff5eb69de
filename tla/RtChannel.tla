----------------------------- MODULE RtChannel -----------------------------
(***************************************************************************)
(* The event table of one channel and the loop that serves it              *)
(* (RtChannel.cpp): events indexed by file descriptor, the list of new     *)
(* events and the list of removed ones that only updateEvents applies, the *)
(* descriptor set given to select, and the descriptors themselves, which   *)
(* the process opens and closes and the kernel gives out again.            *)
(*                                                                         *)
(* An event object is a record with its descriptor and a serial number, so *)
(* that two events that had the same descriptor one after the other differ. *)
(* Deleting an event closes its descriptor (RtEvent.cpp).                  *)
(***************************************************************************)
EXTENDS Integers, Sequences, FiniteSets

CONSTANTS
  MaxFd,        \* the highest descriptor the process may open
  MaxEvents,    \* bound on the events created in a behaviour
  MaxOthers,    \* bound on the descriptors other threads have open at a time
  CallsMayFail  \* whether select may fail

ASSUME MaxFdAssumption == MaxFd \in Nat /\ MaxFd >= 3
ASSUME MaxEventsAssumption == MaxEvents \in Nat /\ MaxEvents >= 2
ASSUME MaxOthersAssumption == MaxOthers \in Nat
ASSUME CallsMayFailAssumption == CallsMayFail \in BOOLEAN

Fds == 0..MaxFd
RSelBreak == 0  \* r_sel_break: the first descriptor init opens
WSelBreak == 1  \* w_sel_break
StopFd == 2     \* stop_fd: the descriptor of the "stop" event
FifoFd == 3     \* the signalling pipe of in_opp_fifo

VARIABLES
  open,          \* descriptors open in the process
  others,        \* those of them that belong to other threads
  events,        \* the table: descriptor -> serial number of its event
  newEvents,     \* new_events
  removedEvents, \* removed_events
  inputFds,      \* input_fd_set
  maxInputFd,    \* max_input_fd
  breakWords,    \* words written on w_sel_break and not read yet
  raised,        \* descriptors with something to read
  dead,          \* sockets whose distant host disconnected
  batch,         \* events handled and still to be processed
  pc,            \* where the thread is
  serial         \* events created so far

vars == <<open, others, events, newEvents, removedEvents, inputFds, maxInputFd,
          breakWords, raised, dead, batch, pc, serial>>
tableVars == <<events, newEvents, removedEvents, inputFds, maxInputFd>>

MaxOf(S) == CHOOSE x \in S : \A y \in S : y <= x

\* init: the pipe, then the stop event and the event of the opposite fifo, which
\* wait for the first updateEvents.  (The write end of the fifo's pipe is left
\* out, and so is the previous fifo, which is like the opposite one.)
Init ==
  /\ open = {RSelBreak, WSelBreak, StopFd, FifoFd}
  /\ others = {}
  /\ events = <<>>
  /\ newEvents = <<[fd |-> StopFd, id |-> 1], [fd |-> FifoFd, id |-> 2]>>
  /\ removedEvents = <<>>
  /\ inputFds = {RSelBreak}
  /\ maxInputFd = RSelBreak
  /\ breakWords = 2
  /\ raised = {}
  /\ dead = {}
  /\ batch = {}
  /\ pc = "update"
  /\ serial = 2

-----------------------------------------------------------------------------
(* What the blocks call from onEvent. *)

\* The kernel gives the lowest free descriptor.
FreeFds == Fds \ open
LowestFree == CHOOSE f \in FreeFds : \A g \in FreeFds : f <= g

\* addEvent for a descriptor just opened (a timer, or a client that a listening
\* socket accepted): refused if the table holds that descriptor.
AddEvent ==
  /\ pc = "process"
  /\ serial < MaxEvents
  /\ FreeFds # {}
  /\ open' = open \cup {LowestFree}
  /\ serial' = serial + 1
  /\ IF LowestFree \in DOMAIN events
     THEN UNCHANGED <<newEvents, breakWords>>
     ELSE /\ newEvents' = Append(newEvents, [fd |-> LowestFree, id |-> serial + 1])
          /\ breakWords' = breakWords + 1
  /\ UNCHANGED <<others, events, removedEvents, inputFds, maxInputFd, raised, dead, batch, pc>>

\* A slip in removeEvent: the event is deleted at once.
RemoveEventNow(f) ==
  /\ pc = "process"
  /\ f \in DOMAIN events \ {StopFd, FifoFd}
  /\ events' = [g \in DOMAIN events \ {f} |-> events[g]]
  /\ inputFds' = inputFds \ {f}
  /\ open' = open \ {f}
  /\ raised' = raised \ {f}
  /\ dead' = dead \ {f}
  /\ UNCHANGED <<others, newEvents, removedEvents, maxInputFd, breakWords, batch, pc, serial>>

\* removeEvent only notes the descriptor.  A block may well name one twice;
\* removals that change nothing are bounded by MaxEvents.
RemoveEvent(f) ==
  /\ pc = "process"
  /\ f \in DOMAIN events \ {StopFd, FifoFd}
  /\ Len(removedEvents) < MaxEvents
  /\ removedEvents' = Append(removedEvents, f)
  /\ UNCHANGED <<open, others, events, newEvents, inputFds, maxInputFd,
                 breakWords, raised, dead, batch, pc, serial>>

-----------------------------------------------------------------------------
(* executeThread. *)

SeqRange(s) == {s[i] : i \in 1..Len(s)}

\* The table with the new events in it; the last one wins for a descriptor.
WithNew ==
  [f \in DOMAIN events \cup {e.fd : e \in SeqRange(newEvents)} |->
     LET its == {i \in 1..Len(newEvents) : newEvents[i].fd = f}
     IN  IF its = {} THEN events[f] ELSE newEvents[MaxOf(its)].id]

\* A slip in updateEvents: the event is deleted but not erased from the map.
WithoutErase(table, fds) == table
Without(table, fds) == [f \in DOMAIN table \ fds |-> table[f]]

\* Adds the new events, then deletes the removed ones and closes their
\* descriptors.  updateMaxFd runs before the event leaves the table, so it
\* finds the descriptor being removed: the maximum does not go down.
UpdateEvents ==
  /\ pc = "update"
  /\ LET removed == SeqRange(removedEvents) \cap DOMAIN WithNew
         added == {e.fd : e \in SeqRange(newEvents)}
         highest == MaxOf({maxInputFd} \cup added)
     IN  /\ events' = Without(WithNew, removed)
         /\ inputFds' = (inputFds \cup added) \ removed
         /\ maxInputFd' = IF highest \in removed THEN MaxOf({0} \cup DOMAIN WithNew) ELSE highest
         /\ open' = open \ removed
         /\ raised' = raised \ removed
         /\ dead' = dead \ removed
  /\ newEvents' = <<>>
  /\ removedEvents' = <<>>
  /\ pc' = "select"
  /\ UNCHANGED <<others, breakWords, batch, serial>>

\* A slip: select is given max_input_fd, not max_input_fd + 1.
WatchedBelowMax == {f \in inputFds : f < maxInputFd}
Watched == {f \in inputFds : f <= maxInputFd}

\* The descriptors select reports.
Readfds == {f \in Watched : (f = RSelBreak /\ breakWords > 0) \/ f \in raised \cup dead}

\* A slip: the loop stops one event too early.
ReachedButLast ==
  {f \in DOMAIN events \cap Readfds :
     Cardinality({g \in Readfds : g < f /\ (g \in DOMAIN events \/ g = RSelBreak)})
       < Cardinality(Readfds) - 1}

\* The events the loop reaches: in the order of the descriptors, until as many
\* were seen as select counted, the select break included.
Reached ==
  {f \in DOMAIN events \cap Readfds :
     Cardinality({g \in Readfds : g < f /\ (g \in DOMAIN events \/ g = RSelBreak)})
       < Cardinality(Readfds)}

\* handle reads one datum; it fails on a socket whose host disconnected, which
\* stays in the table and stays readable.
Handled == Reached \ dead

\* A slip: the select break is read without asking whether it is set.
SelectReadsBreakAnyway ==
  /\ pc = "select"
  /\ Readfds # {}
  /\ breakWords' = breakWords - 1
  /\ IF StopFd \in Reached
     THEN pc' = "exited" /\ UNCHANGED <<raised, batch>>
     ELSE /\ raised' = raised \ Handled
          /\ batch' = {[fd |-> f, id |-> events[f]] : f \in Handled}
          /\ pc' = IF Handled = {} THEN "update" ELSE "process"
  /\ UNCHANGED <<open, others, tableVars, dead, serial>>

SelectAndHandle ==
  /\ pc = "select"
  /\ Readfds # {}
  /\ breakWords' = IF RSelBreak \in Readfds THEN breakWords - 1 ELSE breakWords
  /\ IF StopFd \in Reached
     THEN pc' = "exited" /\ UNCHANGED <<raised, batch>>
     ELSE /\ raised' = raised \ Handled
          /\ batch' = {[fd |-> f, id |-> events[f]] : f \in Handled}
          /\ pc' = IF Handled = {} THEN "update" ELSE "process"
  /\ UNCHANGED <<open, others, tableVars, dead, serial>>

\* select fails and leaves its set as it was: a critical error, by which the
\* process signals itself to stop, then a read of the select break, which
\* blocks if no word is there.
SelectFails ==
  /\ CallsMayFail
  /\ pc = "select"
  /\ raised' = raised \cup {StopFd}
  /\ pc' = "readBreak"
  /\ UNCHANGED <<open, others, tableVars, breakWords, dead, batch, serial>>

ReadBreak ==
  /\ pc = "readBreak"
  /\ breakWords > 0
  /\ breakWords' = breakWords - 1
  /\ pc' = "update"
  /\ UNCHANGED <<open, others, tableVars, raised, dead, batch, serial>>

\* onEvent returns; the events of a batch may come in any order, since the
\* sort by priority yields to age.
EventProcessed(e) ==
  /\ pc = "process"
  /\ e \in batch
  /\ batch' = batch \ {e}
  /\ pc' = IF batch = {e} THEN "update" ELSE "process"
  /\ UNCHANGED <<open, others, tableVars, breakWords, raised, dead, serial>>

-----------------------------------------------------------------------------
(* The outside: data, the stop signal, disconnections and other threads. *)

Raise(f) ==
  /\ f \in open \ (others \cup {RSelBreak, WSelBreak} \cup raised)
  /\ raised' = raised \cup {f}
  /\ UNCHANGED <<open, others, tableVars, breakWords, dead, batch, pc, serial>>

Disconnect(f) ==
  /\ f \in open \ (others \cup {RSelBreak, WSelBreak, StopFd, FifoFd} \cup dead)
  /\ dead' = dead \cup {f}
  /\ UNCHANGED <<open, others, tableVars, breakWords, raised, batch, pc, serial>>

OtherThreadOpens ==
  /\ Cardinality(others) < MaxOthers
  /\ FreeFds # {}
  /\ open' = open \cup {LowestFree}
  /\ others' = others \cup {LowestFree}
  /\ UNCHANGED <<tableVars, breakWords, raised, dead, batch, pc, serial>>

OtherThreadCloses(f) ==
  /\ f \in others
  /\ open' = open \ {f}
  /\ others' = others \ {f}
  /\ UNCHANGED <<tableVars, breakWords, raised, dead, batch, pc, serial>>

Loop ==
  \/ UpdateEvents
  \/ SelectAndHandle
  \/ ReadBreak
  \/ \E e \in batch : EventProcessed(e)

Calls == AddEvent \/ \E f \in Fds : RemoveEvent(f)

Outside ==
  \/ \E f \in Fds : Raise(f) \/ Disconnect(f) \/ OtherThreadCloses(f)
  \/ OtherThreadOpens

Next == Loop \/ SelectFails \/ Calls \/ Outside

Spec == Init /\ [][Next]_vars

\* The thread is scheduled, and onEvent returns.
FairSpec == Spec /\ WF_vars(Loop)

-----------------------------------------------------------------------------
(* Properties. *)

Events == {[fd |-> f, id |-> events[f]] : f \in DOMAIN events} \cup SeqRange(newEvents)

TypeOK ==
  /\ open \subseteq Fds
  /\ others \subseteq open
  /\ DOMAIN events \subseteq Fds
  /\ \A f \in DOMAIN events : events[f] \in 1..MaxEvents
  /\ newEvents \in Seq([fd : Fds, id : 1..MaxEvents])
  /\ removedEvents \in Seq(Fds)
  /\ inputFds \subseteq Fds
  /\ maxInputFd \in Fds
  /\ breakWords \in Nat
  /\ raised \subseteq Fds /\ dead \subseteq Fds
  /\ batch \subseteq [fd : Fds, id : 1..MaxEvents]
  /\ pc \in {"update", "select", "process", "readBreak", "exited"}
  /\ serial \in 1..MaxEvents

\* An event of the batch is never deleted before it is processed, even if
\* another event of the batch removed it and its descriptor was closed since.
BatchEventsExist == batch \subseteq Events

\* No two events, in the table or among the new ones, own one descriptor, and
\* each one's is open and not another thread's: addEvent never meets the
\* critical "duplicated fd".
DescriptorsOwned ==
  /\ \A d, e \in Events : d.fd = e.fd => d = e
  /\ \A e \in Events : e.fd \in open \ others

\* When it waits, the channel watches exactly its events and the select break:
\* no closed or reused descriptor, and none beyond the bound given to select.
WatchesItsEvents ==
  pc = "select" => Watched = DOMAIN events \cup {RSelBreak} /\ Watched \subseteq open \ others

\* Whatever arrives on an event of the table is read, unless the event goes
\* away, the channel stops or its select fails: no event is starved by others.
RaisedIsHandled ==
  \A f \in Fds :
    f \in raised \cap DOMAIN events
      ~> (f \notin raised \/ f \notin DOMAIN events \/ f \in dead \/ pc \in {"exited", "readBreak"})

\* A stop signal ends the thread, whatever else it has to do, if its select
\* works.
StopEndsThread == StopFd \in raised ~> pc \in {"exited", "readBreak"}
=============================================================================
