---------------------------- MODULE BoundedQueue ----------------------------
(***************************************************************************)
(* What an RtFifo promises to the two channels it connects: a first-in     *)
(* first-out queue of at most MaxSize messages between the threads that    *)
(* push and the one thread that takes, one message at a time.  There is no *)
(* semaphore, mutex or signalling pipe here: those are how RtFifo keeps    *)
(* the promise.                                                            *)
(***************************************************************************)
EXTENDS Naturals, Sequences

CONSTANTS
  Messages,  \* what a block may push
  MaxSize,   \* the capacity of the queue
  NoMsg      \* the taker holds nothing

VARIABLES
  queue,     \* the messages pushed and not yet taken, oldest first
  taken      \* the message the taker is handling, or NoMsg

queueVars == <<queue, taken>>

QInit ==
  /\ queue = <<>>
  /\ taken = NoMsg

Put(m) ==
  /\ Len(queue) < MaxSize
  /\ queue' = Append(queue, m)
  /\ UNCHANGED taken

Take ==
  /\ taken = NoMsg
  /\ queue # <<>>
  /\ taken' = Head(queue)
  /\ queue' = Tail(queue)

Finish ==
  /\ taken # NoMsg
  /\ taken' = NoMsg
  /\ UNCHANGED queue

QNext ==
  \/ \E m \in Messages : Put(m)
  \/ Take
  \/ Finish

QSpec == QInit /\ [][QNext]_queueVars
=============================================================================
