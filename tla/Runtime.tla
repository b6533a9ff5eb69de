------------------------------ MODULE Runtime ------------------------------
(***************************************************************************)
(* A process of OpenSAND as opensand-rt runs it: a stack of blocks, two    *)
(* channels (threads) per block, the fifos between them, and the main      *)
(* thread that initialises the blocks, starts the threads, waits for a     *)
(* signal and stops everything (Rt.cpp, BlockManager.cpp, Block.cpp and    *)
(* the loop of RtChannel.cpp).                                             *)
(*                                                                         *)
(* Block 1 is the top of the stack, as in the list of blocks.  Each fifo   *)
(* is the bounded queue that RtFifo implements (module BoundedQueue); what *)
(* matters here is only how full it is.  What a block does with an event   *)
(* is any sequence of at most MaxSends pushes along Routes.  The batch of  *)
(* one select is handled in any order: the sort by priority gives way to   *)
(* age after 100 s per level (RtEvent.h), so no order is excluded.         *)
(***************************************************************************)
EXTENDS Integers, Sequences, FiniteSets

CONSTANTS
  NBlocks,        \* height of the stack
  FifoSize,       \* DEFAULT_FIFO_SIZE
  MaxSends,       \* bound on the pushes made for one event
  Routes,         \* where each channel pushes: a subset of {"next", "opp"}
  External,       \* channels that also watch sockets, timers or files
  InitPushes,     \* messages each channel pushes to the next block in onInit
  CriticalErrors  \* whether blocks may report critical errors

Blocks == 1..NBlocks
Channels == Blocks \X {"up", "down"}

ASSUME NBlocksAssumption == NBlocks \in Nat \ {0}
ASSUME SizesAssumption == FifoSize \in Nat \ {0} /\ MaxSends \in Nat
ASSUME RoutesAssumption ==
  /\ Routes \in [Channels -> SUBSET {"next", "opp"}]
  /\ External \subseteq Channels
  /\ InitPushes \in [Channels -> Nat]
  /\ CriticalErrors \in BOOLEAN

\* A fifo is named by the channel that reads it and by the side it comes from.
Fifos == Channels \X {"prev", "opp"}

Opposite(c) == <<c[1], IF c[2] = "up" THEN "down" ELSE "up">>

\* The channel of the neighbour block that follows c, if there is one.
HasNext(c) == IF c[2] = "up" THEN c[1] > 1 ELSE c[1] < NBlocks
NextOf(c) == <<IF c[2] = "up" THEN c[1] - 1 ELSE c[1] + 1, c[2]>>

\* A slip in createBlock: each channel gets its own opposite fifo to push on.
OutFifoOwnOpposite(c, route) ==
  IF route = "opp" THEN <<c, "opp">> ELSE <<NextOf(c), "prev">>

\* The fifo that enqueueMessage ("next") or shareMessage ("opp") pushes on.
OutFifo(c, route) ==
  IF route = "opp" THEN <<Opposite(c), "opp">> ELSE <<NextOf(c), "prev">>

Targets(c) ==
  {OutFifo(c, r) : r \in {s \in Routes[c] : s = "next" => HasNext(c)}}

VARIABLES
  queued,      \* messages in each fifo
  thread,      \* where each channel's thread is
  todo,        \* events of the current batch still to be processed
  out,         \* fifos the current onEvent still has to push on
  procSignal,  \* a stop signal is pending for the process
  thrSignal,   \* a stop signal is pending for the thread
  at,          \* where the main thread is
  blk,         \* the block it is working on
  status       \* BlockManager::status: no critical error yet

stackVars == <<queued, thread, todo, out, procSignal, thrSignal, at, blk, status>>
chanVars == <<queued, thread, todo, out>>
mainVars == <<at, blk>>

StackInit ==
  /\ queued = [f \in Fifos |-> 0]
  /\ thread = [c \in Channels |-> "none"]
  /\ todo = [c \in Channels |-> {}]
  /\ out = [c \in Channels |-> <<>>]
  /\ procSignal = FALSE
  /\ thrSignal = [c \in Channels |-> FALSE]
  /\ at = "init"
  /\ blk = 1
  /\ status = TRUE

-----------------------------------------------------------------------------
(* RtChannel::executeThread. *)

\* A slip in init: the event of in_opp_fifo is missing.
ReadableForgetsOpposite(c) == {e \in {"prev"} : queued[<<c, e>>] > 0}

\* What select reports: every fifo that holds a message, and possibly the
\* other file descriptors of the channel.
Readable(c) == {e \in {"prev", "opp"} : queued[<<c, e>>] > 0}

\* The stop event is readable: the signal is not consumed, so it stays pending.
Stopping(c) == procSignal \/ thrSignal[c]

\* The events raised are handled: each MessageEvent pops one message of its
\* fifo before any event is processed.
Select(c) ==
  /\ thread[c] = "select"
  /\ ~Stopping(c)
  /\ \E ext \in SUBSET (IF c \in External THEN {"ext"} ELSE {}) :
       /\ Readable(c) \cup ext # {}
       /\ todo' = [todo EXCEPT ![c] = Readable(c) \cup ext]
  /\ queued' = [f \in Fifos |-> IF f[1] = c /\ f[2] \in Readable(c)
                                THEN queued[f] - 1 ELSE queued[f]]
  /\ thread' = [thread EXCEPT ![c] = "batch"]
  /\ UNCHANGED <<out, procSignal, thrSignal, status, mainVars>>

\* The stop event has the lowest descriptor: the thread exits before it
\* handles anything else, and leaves what its fifos hold.
Exit(c) ==
  /\ thread[c] = "select"
  /\ Stopping(c)
  /\ thread' = [thread EXCEPT ![c] = "exited"]
  /\ UNCHANGED <<queued, todo, out, procSignal, thrSignal, status, mainVars>>

\* Back to select when the batch is done.
AfterEvent(c, left, sends) ==
  thread' = [thread EXCEPT ![c] = IF left = {} /\ sends = <<>> THEN "select" ELSE "batch"]

\* onEvent decides what it will push.
ProcessEvent(c) ==
  /\ thread[c] = "batch"
  /\ out[c] = <<>>
  /\ \E e \in todo[c], n \in 0..MaxSends : \E sends \in [1..n -> Targets(c)] :
       /\ todo' = [todo EXCEPT ![c] = @ \ {e}]
       /\ out' = [out EXCEPT ![c] = sends]
       /\ AfterEvent(c, todo[c] \ {e}, sends)
  /\ UNCHANGED <<queued, procSignal, thrSignal, status, mainVars>>

\* A slip: the push does not wait for a place.
PushMessageNoWait(c) ==
  /\ thread[c] = "batch"
  /\ out[c] # <<>>
  /\ queued' = [queued EXCEPT ![Head(out[c])] = @ + 1]
  /\ out' = [out EXCEPT ![c] = Tail(@)]
  /\ AfterEvent(c, todo[c], Tail(out[c]))
  /\ UNCHANGED <<todo, procSignal, thrSignal, status, mainVars>>

\* One enqueueMessage or shareMessage returns; it blocks while the fifo is full.
PushMessage(c) ==
  /\ thread[c] = "batch"
  /\ out[c] # <<>>
  /\ queued[Head(out[c])] < FifoSize
  /\ queued' = [queued EXCEPT ![Head(out[c])] = @ + 1]
  /\ out' = [out EXCEPT ![c] = Tail(@)]
  /\ AfterEvent(c, todo[c], Tail(out[c]))
  /\ UNCHANGED <<todo, procSignal, thrSignal, status, mainVars>>

\* A slip: the error is recorded, but no signal is sent.
ReportCriticalSilently(c) ==
  /\ CriticalErrors
  /\ thread[c] = "batch"
  /\ out[c] = <<>>
  /\ status' = FALSE
  /\ UNCHANGED <<chanVars, procSignal, thrSignal, mainVars>>

\* reportError with critical set: the process signals itself and goes on.
ReportCritical(c) ==
  /\ CriticalErrors
  /\ thread[c] = "batch"
  /\ out[c] = <<>>
  /\ status' = FALSE
  /\ procSignal' = TRUE
  /\ UNCHANGED <<chanVars, thrSignal, mainVars>>

Running == at # "end"

ChannelStep(c) == Running /\ (Select(c) \/ Exit(c) \/ ProcessEvent(c) \/ PushMessage(c))

-----------------------------------------------------------------------------
(* The main thread: BlockManager::init, start, wait and stop. *)

Goto(place, b) == at' = place /\ blk' = b

\* Block::initSpecific of one block; onInit may already push, and blocks if
\* the fifo is full since no thread reads it yet.
InitSpecific ==
  /\ at = "init"
  /\ LET pushed(f) == IF \E c \in {<<blk, "up">>, <<blk, "down">>} :
                             HasNext(c) /\ f = OutFifo(c, "next")
                      THEN InitPushes[<<blk, f[1][2]>>] ELSE 0
     IN  /\ \A f \in Fifos : queued[f] + pushed(f) <= FifoSize
         /\ queued' = [f \in Fifos |-> queued[f] + pushed(f)]
  /\ IF blk < NBlocks THEN Goto("init", blk + 1) ELSE Goto("startUp", 1)
  /\ UNCHANGED <<thread, todo, out, procSignal, thrSignal, status>>

\* onInit fails: the process signals itself, and main quits with an error.
InitFails ==
  /\ CriticalErrors
  /\ at = "init"
  /\ status' = FALSE
  /\ procSignal' = TRUE
  /\ Goto("end", blk)
  /\ UNCHANGED <<chanVars, thrSignal>>

StartUp ==
  /\ at = "startUp"
  /\ thread' = [thread EXCEPT ![<<blk, "up">>] = "select"]
  /\ Goto("startDown", blk)
  /\ UNCHANGED <<queued, todo, out, procSignal, thrSignal, status>>

StartDown ==
  /\ at = "startDown"
  /\ thread' = [thread EXCEPT ![<<blk, "down">>] = "select"]
  /\ IF blk < NBlocks THEN Goto("startUp", blk + 1) ELSE Goto("wait", 1)
  /\ UNCHANGED <<queued, todo, out, procSignal, thrSignal, status>>

\* pthread_create fails: Rt::run returns false, and main ends as if all was well.
StartFails ==
  /\ CriticalErrors
  /\ at \in {"startUp", "startDown"}
  /\ status' = FALSE
  /\ procSignal' = TRUE
  /\ Goto("end", blk)
  /\ UNCHANGED <<chanVars, thrSignal>>

\* BlockManager::wait reads the signal, and so takes it from the channels.
WaitSignal ==
  /\ at = "wait"
  /\ procSignal
  /\ procSignal' = FALSE
  /\ Goto("killUp", 1)
  /\ UNCHANGED <<chanVars, thrSignal, status>>

\* pthread_kill; a thread that has already exited ignores it.
Kill(place, dir, nextPlace) ==
  /\ at = place
  /\ thrSignal' = [thrSignal EXCEPT ![<<blk, dir>>] = TRUE]
  /\ Goto(nextPlace, blk)
  /\ UNCHANGED <<chanVars, procSignal, status>>

KillUp == Kill("killUp", "up", "killDown")

\* A slip in Block::stop: the upward thread is signalled twice.
KillDownSignalsUp == Kill("killDown", "up", "joinUp")
KillDown == Kill("killDown", "down", "joinUp")

\* pthread_join returns when the thread has exited, never before.
JoinUp ==
  /\ at = "joinUp"
  /\ thread[<<blk, "up">>] = "exited"
  /\ Goto("joinDown", blk)
  /\ UNCHANGED <<chanVars, procSignal, thrSignal, status>>

\* The last join ends stop, wait and run.
JoinDown ==
  /\ at = "joinDown"
  /\ thread[<<blk, "down">>] = "exited"
  /\ IF blk < NBlocks THEN Goto("killUp", blk + 1) ELSE Goto("end", blk)
  /\ UNCHANGED <<chanVars, procSignal, thrSignal, status>>

MainStep ==
  \/ InitSpecific
  \/ StartUp
  \/ StartDown
  \/ WaitSignal
  \/ KillUp
  \/ KillDown
  \/ JoinUp
  \/ JoinDown

MainError == InitFails \/ StartFails

\* Somebody sends SIGTERM, SIGINT or SIGQUIT to the process.
ReceiveSignal ==
  /\ Running
  /\ ~procSignal
  /\ procSignal' = TRUE
  /\ UNCHANGED <<chanVars, thrSignal, status, mainVars>>

-----------------------------------------------------------------------------
StackNext ==
  \/ \E c \in Channels : ChannelStep(c)
  \/ \E c \in Channels : Running /\ ReportCritical(c)
  \/ MainStep
  \/ MainError
  \/ ReceiveSignal

StackSpec == StackInit /\ [][StackNext]_stackVars

\* The scheduler lets every thread run; nobody need send a signal, no message
\* need come from outside and no call need fail.
FairStackSpec ==
  /\ StackSpec
  /\ \A c \in Channels : WF_stackVars(ChannelStep(c))
  /\ WF_stackVars(MainStep)

-----------------------------------------------------------------------------
(* Properties. *)

StackTypeOK ==
  /\ queued \in [Fifos -> 0..FifoSize]
  /\ thread \in [Channels -> {"none", "select", "batch", "exited"}]
  /\ todo \in [Channels -> SUBSET {"prev", "opp", "ext"}]
  /\ \A c \in Channels : out[c] \in Seq(Targets(c)) /\ Len(out[c]) <= MaxSends
  /\ procSignal \in BOOLEAN
  /\ thrSignal \in [Channels -> BOOLEAN]
  /\ at \in {"init", "startUp", "startDown", "wait",
             "killUp", "killDown", "joinUp", "joinDown", "end"}
  /\ blk \in Blocks
  /\ status \in BOOLEAN

\* c waits in sem_wait for a place in the fifo of WaitsFor(c).
Blocked(c) == out[c] # <<>> /\ queued[Head(out[c])] = FifoSize
WaitsFor(c) == Head(out[c])[1]

\* Channels that wait for one another, so that none of them ever goes on.
WaitCycles ==
  {S \in SUBSET Channels : S # {} /\ \A c \in S : Blocked(c) /\ WaitsFor(c) \in S}

\* A circle of waiting channels goes through a downward channel that shares
\* with its upward channel (BlockDvbNcc is the only block that does).
WaitCycleNeedsUpShare ==
  \A S \in WaitCycles :
    \E c \in S : c[2] = "down" /\ Head(out[c]) = OutFifo(c, "opp")

\* The channel c pushes on a full fifo whose reader has exited: nobody will
\* ever make room.
Orphaned(c) == Blocked(c) /\ thread[WaitsFor(c)] = "exited"

Stops == at \in {"killUp", "killDown", "joinUp", "joinDown"}

\* A join that hangs is always the fault of a fifo left full by a thread that
\* exited first: stop ends, or some channel waits for a reader that is gone.
StopEndsOrOrphans == Stops ~> (at = "end" \/ \E c \in Channels : Orphaned(c))

\* In a stack where no block shares upward, a message that blocks its channel
\* gets through unless the process stops.
PushCompletes ==
  \A c \in Channels : Blocked(c) ~> (~Blocked(c) \/ procSignal \/ Stops \/ ~Running)

\* A critical error in any block takes the whole process down, or leaves it
\* stuck behind an orphaned push.
CriticalErrorStops ==
  ~status ~> (at = "end" \/ \E c \in Channels : Orphaned(c))

\* BlockManager.h: stop "stops the application, force kill if a thread don't
\* stop".
StopTerminates == Stops ~> at = "end"
=============================================================================
