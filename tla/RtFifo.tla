------------------------------- MODULE RtFifo -------------------------------
(***************************************************************************)
(* The fifo between two channels of opensand-rt (RtFifo.cpp) with the      *)
(* event that wakes its reader (MessageEvent.cpp).                         *)
(*                                                                         *)
(* A push takes one unit of a counting semaphore (the free places), then,  *)
(* under a mutex, queues the message and writes one word on a pipe.  The   *)
(* reader's select sees the pipe, reads one word, and then, under the      *)
(* mutex, unqueues one message; the semaphore is posted only after the     *)
(* mutex is released.  Three counters that must agree (semaphore, queue,   *)
(* pipe) are therefore updated at three different times by two threads.    *)
(*                                                                         *)
(* sem_wait may fail, and so may the select and the write that signal the  *)
(* reader; RtFifo::push then returns false.  In the second case the        *)
(* message is already queued and stays there, with no word on the pipe:    *)
(* lostSignals counts these.  CallsMayFail enables those error paths.      *)
(***************************************************************************)
EXTENDS Integers, Sequences, FiniteSets

CONSTANTS
  Producers,     \* the threads that push on this fifo
  Messages,      \* what they push
  MaxSize,       \* max_size, DEFAULT_FIFO_SIZE in the code
  CallsMayFail,  \* whether sem_wait, select and write may fail
  NoMsg,         \* no message
  Free,          \* nobody holds fifo_mutex
  Reader         \* the channel whose select watches r_sig_pipe

ASSUME ProducersAssumption == IsFiniteSet(Producers)
ASSUME MaxSizeAssumption == MaxSize \in Nat \ {0}
ASSUME CallsMayFailAssumption == CallsMayFail \in BOOLEAN
ASSUME NamesAssumption ==
  /\ NoMsg \notin Messages
  /\ Free \notin Producers \cup {Reader}
  /\ Reader \notin Producers

VARIABLES
  fifo,        \* the std::queue
  sem,         \* fifo_size_sem: free places
  pipe,        \* words written on w_sig_pipe and not read yet
  mutex,       \* who holds fifo_mutex
  pc,          \* where each producer is in push
  msg,         \* the message each producer is pushing
  rpc,         \* where the reader is in its event loop
  elem,        \* the message of the reader's MessageEvent
  lostSignals  \* messages queued whose word could not be written

vars == <<fifo, sem, pipe, mutex, pc, msg, rpc, elem, lostSignals>>

-----------------------------------------------------------------------------
(* Slips that would break this code.  No action uses them: each stands in   *)
(* for the definition it is named after to show which property notices.    *)

\* sem_wait does not block.
PushSemWaitNeverBlocks(p) ==
  /\ pc[p] = "semwait"
  /\ sem' = sem - 1
  /\ pc' = [pc EXCEPT ![p] = "lock"]
  /\ UNCHANGED <<fifo, pipe, mutex, msg, rpc, elem, lostSignals>>

\* The error path of sem_wait gives back a place it does not have.
PushSemWaitFailsPosts(p) ==
  /\ CallsMayFail
  /\ pc[p] = "semwait"
  /\ sem' = sem + 1
  /\ pc' = [pc EXCEPT ![p] = "idle"]
  /\ msg' = [msg EXCEPT ![p] = NoMsg]
  /\ UNCHANGED <<fifo, pipe, mutex, rpc, elem, lostSignals>>

\* The newest message goes first.
PushQueueFirst(p) ==
  /\ pc[p] = "queue"
  /\ fifo' = <<msg[p]>> \o fifo
  /\ pc' = [pc EXCEPT ![p] = "signal"]
  /\ UNCHANGED <<sem, pipe, mutex, msg, rpc, elem, lostSignals>>

\* One read empties the pipe of every word.
ReadSignalDrains ==
  /\ rpc = "select"
  /\ pipe > 0
  /\ pipe' = 0
  /\ rpc' = "lock"
  /\ UNCHANGED <<fifo, sem, mutex, pc, msg, elem, lostSignals>>

\* front() without pop().
PopFrontKeeps ==
  /\ rpc = "pop"
  /\ elem' = IF fifo = <<>> THEN NoMsg ELSE Head(fifo)
  /\ mutex' = Free
  /\ rpc' = "post"
  /\ UNCHANGED <<fifo, sem, pipe, pc, msg, lostSignals>>

\* onEvent waits for something and never comes back to select.
OnEventLoops ==
  /\ rpc = "onEvent"
  /\ UNCHANGED vars

-----------------------------------------------------------------------------
Init ==
  /\ fifo = <<>>
  /\ sem = MaxSize
  /\ pipe = 0
  /\ mutex = Free
  /\ pc = [p \in Producers |-> "idle"]
  /\ msg = [p \in Producers |-> NoMsg]
  /\ rpc = "select"
  /\ elem = NoMsg
  /\ lostSignals = 0

-----------------------------------------------------------------------------
(* RtFifo::push, as run by producer p. *)

PushCall(p, m) ==
  /\ pc[p] = "idle"
  /\ pc' = [pc EXCEPT ![p] = "semwait"]
  /\ msg' = [msg EXCEPT ![p] = m]
  /\ UNCHANGED <<fifo, sem, pipe, mutex, rpc, elem, lostSignals>>

\* sem_wait returns: one place is taken.
PushSemWait(p) ==
  /\ pc[p] = "semwait"
  /\ sem > 0
  /\ sem' = sem - 1
  /\ pc' = [pc EXCEPT ![p] = "lock"]
  /\ UNCHANGED <<fifo, pipe, mutex, msg, rpc, elem, lostSignals>>

\* sem_wait fails: push returns false, nothing is queued.
PushSemWaitFails(p) ==
  /\ CallsMayFail
  /\ pc[p] = "semwait"
  /\ pc' = [pc EXCEPT ![p] = "idle"]
  /\ msg' = [msg EXCEPT ![p] = NoMsg]
  /\ UNCHANGED <<fifo, sem, pipe, mutex, rpc, elem, lostSignals>>

PushLock(p) ==
  /\ pc[p] = "lock"
  /\ mutex = Free
  /\ mutex' = p
  /\ pc' = [pc EXCEPT ![p] = "queue"]
  /\ UNCHANGED <<fifo, sem, pipe, msg, rpc, elem, lostSignals>>

PushQueue(p) ==
  /\ pc[p] = "queue"
  /\ fifo' = Append(fifo, msg[p])
  /\ pc' = [pc EXCEPT ![p] = "signal"]
  /\ UNCHANGED <<sem, pipe, mutex, msg, rpc, elem, lostSignals>>

\* The word is written and the mutex released: push returns true.
PushSignal(p) ==
  /\ pc[p] = "signal"
  /\ pipe' = pipe + 1
  /\ mutex' = Free
  /\ pc' = [pc EXCEPT ![p] = "idle"]
  /\ msg' = [msg EXCEPT ![p] = NoMsg]
  /\ UNCHANGED <<fifo, sem, rpc, elem, lostSignals>>

\* select or write fails: push returns false, the message stays queued.
PushSignalFails(p) ==
  /\ CallsMayFail
  /\ pc[p] = "signal"
  /\ lostSignals' = lostSignals + 1
  /\ mutex' = Free
  /\ pc' = [pc EXCEPT ![p] = "idle"]
  /\ msg' = [msg EXCEPT ![p] = NoMsg]
  /\ UNCHANGED <<fifo, sem, pipe, rpc, elem>>

-----------------------------------------------------------------------------
(* The reader: MessageEvent::handle, RtFifo::pop, then onEvent. *)

\* select found r_sig_pipe readable; handle reads one word.
ReadSignal ==
  /\ rpc = "select"
  /\ pipe > 0
  /\ pipe' = pipe - 1
  /\ rpc' = "lock"
  /\ UNCHANGED <<fifo, sem, mutex, pc, msg, elem, lostSignals>>

PopLock ==
  /\ rpc = "lock"
  /\ mutex = Free
  /\ mutex' = Reader
  /\ rpc' = "pop"
  /\ UNCHANGED <<fifo, sem, pipe, pc, msg, elem, lostSignals>>

\* An empty fifo is an error of pop: the event keeps no message.
PopFront ==
  /\ rpc = "pop"
  /\ elem' = IF fifo = <<>> THEN NoMsg ELSE Head(fifo)
  /\ fifo' = IF fifo = <<>> THEN <<>> ELSE Tail(fifo)
  /\ mutex' = Free
  /\ rpc' = "post"
  /\ UNCHANGED <<sem, pipe, pc, msg, lostSignals>>

\* sem_post, after the mutex: the place is free again.
PopPost ==
  /\ rpc = "post"
  /\ sem' = sem + 1
  /\ rpc' = "onEvent"
  /\ UNCHANGED <<fifo, pipe, mutex, pc, msg, elem, lostSignals>>

\* onEvent has used the message; back to select.
OnEvent ==
  /\ rpc = "onEvent"
  /\ elem' = NoMsg
  /\ rpc' = "select"
  /\ UNCHANGED <<fifo, sem, pipe, mutex, pc, msg, lostSignals>>

-----------------------------------------------------------------------------
Push(p) ==
  \/ PushSemWait(p)
  \/ PushLock(p)
  \/ PushQueue(p)
  \/ PushSignal(p)

PushError(p) ==
  \/ PushSemWaitFails(p)
  \/ PushSignalFails(p)

Read ==
  \/ ReadSignal
  \/ PopLock
  \/ PopFront
  \/ PopPost
  \/ OnEvent

Next ==
  \/ \E p \in Producers, m \in Messages : PushCall(p, m)
  \/ \E p \in Producers : Push(p)
  \/ \E p \in Producers : PushError(p)
  \/ Read

Spec == Init /\ [][Next]_vars

\* A block need not push, but a push that started goes on, and a channel
\* comes back to its select.  sem_wait is served in no promised order: with
\* several producers only strong fairness keeps one of them from starving.
FairSpec ==
  /\ Spec
  /\ \A p \in Producers : SF_vars(PushSemWait(p)) /\ SF_vars(PushLock(p))
  /\ \A p \in Producers : WF_vars(PushQueue(p)) /\ WF_vars(PushSignal(p))
  /\ SF_vars(PopLock)
  /\ WF_vars(ReadSignal) /\ WF_vars(PopFront) /\ WF_vars(PopPost) /\ WF_vars(OnEvent)

-----------------------------------------------------------------------------
(* Properties. *)

TypeOK ==
  /\ fifo \in Seq(Messages)
  /\ sem \in Nat
  /\ pipe \in Nat
  /\ mutex \in Producers \cup {Free, Reader}
  /\ pc \in [Producers -> {"idle", "semwait", "lock", "queue", "signal"}]
  /\ msg \in [Producers -> Messages \cup {NoMsg}]
  /\ rpc \in {"select", "lock", "pop", "post", "onEvent"}
  /\ elem \in Messages \cup {NoMsg}
  /\ lostSignals \in Nat

\* Producers that have a place and have not queued their message yet.
Reserving == {p \in Producers : pc[p] \in {"lock", "queue"}}

\* Producers that have queued their message and not written their word yet.
Signalling == {p \in Producers : pc[p] = "signal"}

\* pop never finds the fifo empty: "Fifo is already empty, this should not
\* happend" (RtFifo.cpp) is unreachable, although the reader was woken by
\* the pipe and not by the fifo.
PopFindsMessage == rpc = "pop" => fifo # <<>>

\* push never finds the fifo full once sem_wait let it through: "Size is
\* greater than maximum size, this should not happend" is unreachable.
PushFindsRoom == \A p \in Producers : pc[p] = "queue" => Len(fifo) < MaxSize

\* The semaphore, the queue and the two threads in between account for every
\* place: none is lost on an error path and none is freed twice.
PlacesAccounted ==
  sem + Len(fifo) + Cardinality(Reserving) + (IF rpc = "post" THEN 1 ELSE 0) = MaxSize

\* Every queued message has its word on the pipe, or its writer or its
\* reader under way, or its signal was lost.
SignalsAccounted ==
  Len(fifo) = pipe + Cardinality(Signalling) + lostSignals
              + (IF rpc \in {"lock", "pop"} THEN 1 ELSE 0)

\* The three counters of a fifo, updated at three moments by two threads, never
\* disagree by more than the steps under way, on any path of push and pop; so that
\* neither ever meets the "should not happen" of the code.
Accounted == PlacesAccounted /\ SignalsAccounted /\ PopFindsMessage /\ PushFindsRoom

\* The fifo wedges (nothing to wake the reader, no place for a writer) only
\* when as many signals as there are places have been lost.
WedgedOnlyByLostSignals ==
  (pipe = 0 /\ sem = 0 /\ mutex = Free /\ Reserving = {} /\ rpc = "select")
    => lostSignals = MaxSize

\* A producer blocked on a full fifo gets through, whatever the others do and
\* even after failures, until every place holds a message nobody was told of.
PushReturns ==
  \A p \in Producers : pc[p] = "semwait" ~> (pc[p] = "idle" \/ lostSignals = MaxSize)

\* A queued message reaches onEvent, unless a signal failed: no wake-up is lost.
QueuedIsHandled ==
  \A m \in Messages : (\E i \in 1..Len(fifo) : fifo[i] = m) ~> (elem = m \/ lostSignals > 0)

\* RtFifo implements the queue the channels rely on.  A message is in the
\* queue from fifo.push on, and taken from fifo.pop to the end of onEvent.
Abstract == INSTANCE BoundedQueue WITH queue <- fifo, taken <- elem
ImplementsBoundedQueue == Abstract!QSpec
=============================================================================
