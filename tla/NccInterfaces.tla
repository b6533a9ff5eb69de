--------------------------- MODULE NccInterfaces ---------------------------
(***************************************************************************)
(* The external interfaces of the NCC: BlockDvbNcc::Downward listens for a *)
(* PEP, for a SVNO and for updates of the configuration, each on a TCP port *)
(* of its own, reads the commands a client sends and applies them          *)
(* (BlockDvbNcc.cpp, ncc_interface/).  One channel does it all, in the loop *)
(* of RtChannel: it updates its events, handles those that are ready, then *)
(* gives them to onEvent.                                                  *)
(*                                                                         *)
(* A connection carries at most one message, a message one type of command, *)
(* and a command is the spot it is for.  A message that reaches another    *)
(* interface than its own may be read as anything: the formats are only    *)
(* sequences of numbers.                                                   *)
(***************************************************************************)
EXTENDS Integers, Sequences, FiniteSets

CONSTANTS
  Conns,        \* the connections clients may open in a behaviour
  Interfaces,   \* the interfaces that are used, among "pep", "svno", "conf"
  Spots,        \* the spots of this gateway
  RequestSpots, \* the spots commands may be for
  MaxCommands,  \* bound on the commands of a message
  Regenerative, \* satellite_type
  MayFail,      \* whether applying a command may fail
  OneAtATime,   \* whether clients wait for each other
  None

ASSUME ConnsAssumption == IsFiniteSet(Conns) /\ None \notin Conns
ASSUME InterfacesAssumption == Interfaces \subseteq {"pep", "svno", "conf"}
ASSUME SpotsAssumption == Spots # {} /\ None \notin Spots
ASSUME MaxCommandsAssumption == MaxCommands \in Nat
ASSUME FlagsAssumption == Regenerative \in BOOLEAN /\ MayFail \in BOOLEAN /\ OneAtATime \in BOOLEAN

Kinds == {"pep", "svno", "conf"}
Order == [pep |-> 1, svno |-> 2, conf |-> 3]  \* of the tests in onEvent
Fds == 1..Cardinality(Conns)
TypesOf == [pep |-> {"allocation", "release"}, svno |-> {"svno"}, conf |-> {"forward", "return"}]

\* last is the spot of the last command, even of one that is not kept.
MessagesFor(i) ==
  [type : TypesOf[i],
   spots : UNION {[1..n -> RequestSpots] : n \in 0..MaxCommands},
   last : RequestSpots]

ASSUME NoMessageAssumption == \A i \in Kinds : None \notin MessagesFor(i)

VARIABLES
  conn,         \* idle, backlog, accepted or closed (on the side of the NCC)
  kind,         \* the interface each connection is for
  fdOf,         \* its descriptor once it is accepted
  msg,          \* what its client sent, None before
  unread,       \* connections with a message to read
  hungUp,       \* connections whose client went away
  events,       \* connections with an event in the table
  newEvents,    \* connections whose event is new
  removed,      \* removed_events
  socketClient, \* of each interface, 0 before the first connection
  isConnected,  \* of each interface
  requests,     \* requests_list of each interface
  running,      \* spots whose pep_cmd_apply_timer is started
  expired,      \* spots whose timer expired and was not read
  batch,        \* events handled, to be given to onEvent
  shared,       \* requests shared with the Upward channel
  applied,      \* requests applied (history)
  serial,       \* requests stored so far
  pc

vars == <<conn, kind, fdOf, msg, unread, hungUp, events, newEvents, removed, socketClient,
          isConnected, requests, running, expired, batch, shared, applied, serial, pc>>
clientVars == <<kind, msg, hungUp>>
tableVars == <<events, newEvents, removed>>
itfVars == <<socketClient, isConnected>>
timerVars == <<running, expired>>

Init ==
  /\ conn = [c \in Conns |-> "idle"]
  /\ kind = [c \in Conns |-> None]
  /\ fdOf = [c \in Conns |-> 0]
  /\ msg = [c \in Conns |-> None]
  /\ unread = {} /\ hungUp = {}
  /\ events = {} /\ newEvents = {} /\ removed = {}
  /\ socketClient = [i \in Kinds |-> 0]
  /\ isConnected = [i \in Kinds |-> FALSE]
  /\ requests = [i \in Kinds |-> <<>>]
  /\ running = {} /\ expired = {}
  /\ batch = {}
  /\ shared = <<>> /\ applied = <<>>
  /\ serial = 0
  /\ pc = "update"

-----------------------------------------------------------------------------
(* The clients and the clock. *)

Connect(c, i) ==
  /\ conn[c] = "idle"
  /\ OneAtATime => \A d \in Conns : conn[d] \notin {"backlog", "accepted"}
  /\ conn' = [conn EXCEPT ![c] = "backlog"]
  /\ kind' = [kind EXCEPT ![c] = i]
  /\ UNCHANGED <<fdOf, msg, unread, hungUp, tableVars, itfVars, requests, timerVars,
                 batch, shared, applied, serial, pc>>

Send(c, m) ==
  /\ conn[c] \in {"backlog", "accepted"} /\ msg[c] = None /\ c \notin hungUp
  /\ m \in MessagesFor(kind[c])
  /\ msg' = [msg EXCEPT ![c] = m]
  /\ unread' = unread \cup {c}
  /\ UNCHANGED <<conn, kind, fdOf, hungUp, tableVars, itfVars, requests, timerVars,
                 batch, shared, applied, serial, pc>>

HangUp(c) ==
  /\ conn[c] \in {"backlog", "accepted"} /\ c \notin hungUp
  /\ hungUp' = hungUp \cup {c}
  /\ UNCHANGED <<conn, kind, fdOf, msg, unread, tableVars, itfVars, requests, timerVars,
                 batch, shared, applied, serial, pc>>

TimerExpires(s) ==
  /\ s \in running
  /\ running' = running \ {s}
  /\ expired' = expired \cup {s}
  /\ UNCHANGED <<conn, fdOf, unread, clientVars, tableVars, itfVars, requests,
                 batch, shared, applied, serial, pc>>

-----------------------------------------------------------------------------
(* The loop of the channel (see RtChannel). *)

\* The removed events leave the table.
StillThere(table) == {c \in table : fdOf[c] \notin removed}

\* Adds the new events, then closes the sockets of the removed ones.
UpdateEvents ==
  /\ pc = "update"
  /\ LET table == events \cup newEvents
     IN  /\ events' = StillThere(table)
         /\ conn' = [c \in Conns |->
                       IF c \in table /\ fdOf[c] \in removed THEN "closed" ELSE conn[c]]
  /\ newEvents' = {} /\ removed' = {}
  /\ pc' = "select"
  /\ UNCHANGED <<fdOf, unread, clientVars, itfVars, requests, timerVars, batch,
                 shared, applied, serial>>

FreeFds == Fds \ {fdOf[c] : c \in {d \in Conns : conn[d] = "accepted"}}
Backlog(i) == {c \in Conns : conn[c] = "backlog" /\ kind[c] = i}
Knocking == {i \in Kinds : Backlog(i) # {}}

\* The number that has k smaller ones in a set.
Nth(numbers, k) == CHOOSE n \in numbers : Cardinality({m \in numbers : m < n}) = k

\* The listening sockets come in the order they were opened, and each accepted
\* connection gets the lowest free descriptor.
FdFor(i) == Nth(FreeFds, Cardinality({j \in Knocking : Order[j] < Order[i]}))

\* select, then handle on what is ready.  A timer is disabled, a listening
\* socket accepts one client, a client socket reads its message: the read
\* fails when the client is gone, and the socket stays in the table, readable.
SelectAndHandle ==
  /\ pc = "select"
  /\ expired # {} \/ Knocking # {} \/ events \cap (unread \cup hungUp) # {}
  /\ \E picked \in [Knocking -> Conns] :
       /\ \A i \in Knocking : picked[i] \in Backlog(i)
       /\ LET accepted == {picked[i] : i \in Knocking}
              read == events \cap unread
              ready == {[ev |-> "timer", spot |-> s] : s \in expired}
                       \cup {[ev |-> "net", conn |-> c] : c \in read}
                       \cup {[ev |-> "listen", conn |-> c] : c \in accepted}
          IN  /\ conn' = [c \in Conns |-> IF c \in accepted THEN "accepted" ELSE conn[c]]
              /\ fdOf' = [c \in Conns |-> IF c \in accepted THEN FdFor(kind[c]) ELSE fdOf[c]]
              /\ unread' = unread \ read
              /\ batch' = ready
              /\ pc' = IF ready = {} THEN "update" ELSE "process"
  /\ expired' = {}
  /\ UNCHANGED <<clientVars, tableVars, itfVars, requests, running, shared, applied, serial>>

\* The events of a batch may come in any order: the sort by priority yields to
\* the time since each was last raised, and a listening socket is seldom raised.
Processed(e) ==
  /\ pc = "process"
  /\ e \in batch
  /\ batch' = batch \ {e}
  /\ pc' = IF batch = {e} THEN "update" ELSE "process"

-----------------------------------------------------------------------------
(* BlockDvbNcc::Downward::onEvent. *)

\* The client socket is freed: shutdown and removeEvent.
Free(i) == removed' = removed \cup {socketClient[i]}

\* What the parser of an interface keeps of a message: all of it when it is for
\* that interface; otherwise nothing, if it is the one of the PEP, or anything.
Readings(i, c) ==
  IF kind[c] = i THEN {msg[c]}
  ELSE IF i = "pep" THEN {[msg[c] EXCEPT !.spots = <<>>]}
  ELSE {[msg[c] EXCEPT !.spots = <<>>]}
       \cup {[msg[c] EXCEPT !.type = t] : t \in TypesOf[i]}

\* The requests of a message, in the list of the interface.
Stored(i, c, m) ==
  [k \in 1..Len(m.spots) |-> [n |-> serial + k, itf |-> i, type |-> m.type,
                              spot |-> m.spots[k], conn |-> c]]

\* read...Message refuses: no client is connected, or no command is valid.  All
\* the interfaces but the one of the SVNO forget that they are connected.
Refused(i, m) ==
  /\ ~isConnected[i] \/ m.spots = <<>>
  /\ isConnected' = [isConnected EXCEPT ![i] = (i = "svno") /\ @]
  /\ Free(i)
  /\ UNCHANGED <<requests, timerVars, shared, applied, serial>>

Accepted(i, m) == isConnected[i] /\ m.spots # <<>>

\* startTimer also takes back an expiration that was not read.
StartOrRaise(type, s) ==
  /\ running' = IF type = "allocation" THEN running \cup {s} ELSE running \ {s}
  /\ expired' = IF type = "allocation" THEN expired \ {s} ELSE expired \cup {s}

\* The spot is the one of the last terminal named.  Its timer is started again,
\* or raised, as the type of the first request that waits says.
PepMessage(c, m) ==
  LET list == requests["pep"] \o Stored("pep", c, m)
  IN  /\ Accepted("pep", m)
      /\ requests' = [requests EXCEPT !["pep"] = list]
      /\ serial' = serial + Len(m.spots)
      /\ IF m.last \in Spots
         THEN Free("pep") /\ StartOrRaise(Head(list).type, m.last)
         ELSE UNCHANGED <<removed, timerVars>>
      /\ UNCHANGED <<isConnected, shared, applied>>

\* Whether a request is for the Upward channel.
Shared(r) == r.type = "return" /\ ~Regenerative

\* The first request that stops the loop over list, if there is one: its spot
\* is unknown, or it cannot be applied.
Stops(list) ==
  LET bad == {k \in 1..Len(list) : ~Shared(list[k]) /\ list[k].spot \notin Spots}
      first == IF bad = {} THEN Len(list) + 1 ELSE CHOOSE k \in bad : \A j \in bad : k <= j
  IN  {first} \cup {k \in 1..(first - 1) : MayFail /\ ~Shared(list[k])}

\* The requests at some places of a list, in order.
Part(list, places) == [k \in 1..Cardinality(places) |-> list[Nth(places, k - 1)]]

\* The commands are applied one by one, those of earlier messages that remain
\* in the list included; the one that stops the loop is lost, those after it
\* stay in the list and the socket is not freed.
ApplyMessage(i, c, m) ==
  LET list == requests[i] \o Stored(i, c, m)
  IN  /\ Accepted(i, m)
      /\ serial' = serial + Len(m.spots)
      /\ \E stop \in Stops(list) :
           LET done == 1..(stop - 1)
               away == {k \in done : Shared(list[k])}
           IN  /\ applied' = applied \o Part(list, done \ away)
               /\ shared' = shared \o Part(list, away)
               /\ requests' = [requests EXCEPT ![i] = SubSeq(list, stop + 1, Len(list))]
               /\ IF stop > Len(list) /\ i = "conf" THEN Free(i) ELSE UNCHANGED removed
      /\ UNCHANGED <<isConnected, timerVars>>

\* The interfaces whose client socket is that of connection c; the first in the
\* order of the tests has the message.
Matching(c) == {i \in Kinds : socketClient[i] = fdOf[c]}

OnNetSocket(c) ==
  /\ Processed([ev |-> "net", conn |-> c])
  /\ \/ /\ Matching(c) = {}
        /\ UNCHANGED <<removed, isConnected, requests, timerVars, shared, applied, serial>>
     \/ \E i \in Matching(c) :
          /\ \A j \in Matching(c) : Order[i] <= Order[j]
          /\ \E m \in Readings(i, c) :
               \/ Refused(i, m)
               \/ i = "pep" /\ PepMessage(c, m)
               \/ i # "pep" /\ ApplyMessage(i, c, m)
  /\ UNCHANGED <<conn, fdOf, unread, clientVars, events, newEvents, socketClient>>

\* A slip: isConnected is not set again.
OnTcpListenOnce(c) ==
  /\ Processed([ev |-> "listen", conn |-> c])
  /\ socketClient' = [socketClient EXCEPT ![kind[c]] = fdOf[c]]
  /\ isConnected' = [isConnected EXCEPT ![kind[c]] = @ \/ socketClient[kind[c]] = 0]
  /\ newEvents' = newEvents \cup {c}
  /\ UNCHANGED <<conn, fdOf, unread, clientVars, events, removed, requests, timerVars,
                 shared, applied, serial>>

\* A slip: the new client takes the place of the one before.
OnTcpListenDropsPrevious(c) ==
  /\ Processed([ev |-> "listen", conn |-> c])
  /\ socketClient' = [socketClient EXCEPT ![kind[c]] = fdOf[c]]
  /\ isConnected' = [isConnected EXCEPT ![kind[c]] = TRUE]
  /\ newEvents' = newEvents \cup {c}
  /\ removed' = removed \cup ({socketClient[kind[c]]} \ {fdOf[c], 0})
  /\ UNCHANGED <<conn, fdOf, unread, clientVars, events, requests, timerVars,
                 shared, applied, serial>>

OnTcpListen(c) ==
  /\ Processed([ev |-> "listen", conn |-> c])
  /\ socketClient' = [socketClient EXCEPT ![kind[c]] = fdOf[c]]
  /\ isConnected' = [isConnected EXCEPT ![kind[c]] = TRUE]
  /\ newEvents' = newEvents \cup {c}
  /\ UNCHANGED <<conn, fdOf, unread, clientVars, events, removed, requests, timerVars,
                 shared, applied, serial>>

\* A slip: the requests stay in the list of the PEP.
OnPepTimerKeeps(s) ==
  /\ Processed([ev |-> "timer", spot |-> s])
  /\ applied' = applied \o requests["pep"]
  /\ UNCHANGED <<conn, fdOf, unread, clientVars, tableVars, itfVars, requests, timerVars, shared, serial>>

\* All the requests that wait are applied to the spot of the timer; applying one
\* may fail, the others are applied all the same.
OnPepTimer(s) ==
  /\ Processed([ev |-> "timer", spot |-> s])
  /\ applied' = applied \o requests["pep"]
  /\ requests' = [requests EXCEPT !["pep"] = <<>>]
  /\ UNCHANGED <<conn, fdOf, unread, clientVars, tableVars, itfVars, timerVars, shared, serial>>

\* BlockDvbNcc::Upward takes the oldest request shared with it.
UpwardApplies ==
  /\ shared # <<>>
  /\ shared' = Tail(shared)
  /\ \/ Head(shared).spot \in Spots /\ applied' = Append(applied, Head(shared))
     \/ (Head(shared).spot \notin Spots \/ MayFail) /\ UNCHANGED applied
  /\ UNCHANGED <<conn, fdOf, unread, clientVars, tableVars, itfVars, requests, timerVars,
                 batch, serial, pc>>

Loop ==
  \/ UpdateEvents
  \/ SelectAndHandle
  \/ \E c \in Conns : OnNetSocket(c) \/ OnTcpListen(c)
  \/ \E s \in Spots : OnPepTimer(s)

Clients ==
  \E c \in Conns :
    \/ \E i \in Interfaces : Connect(c, i)
    \/ conn[c] # "idle" /\ \E m \in MessagesFor(kind[c]) : Send(c, m)
    \/ HangUp(c)

Next == Loop \/ UpwardApplies \/ Clients \/ \E s \in Spots : TimerExpires(s)

Spec == Init /\ [][Next]_vars

\* The channels are scheduled, and a started timer expires.
FairSpec ==
  /\ Spec
  /\ WF_vars(Loop)
  /\ WF_vars(UpwardApplies)
  /\ \A s \in Spots : WF_vars(TimerExpires(s))

-----------------------------------------------------------------------------
(* Properties. *)

TypeOK ==
  /\ \A c \in Conns : conn[c] \in {"idle", "backlog"} <=> fdOf[c] = 0
  /\ events \cup newEvents \subseteq {c \in Conns : conn[c] = "accepted"}
  /\ removed \subseteq Fds
  /\ unread \subseteq {c \in Conns : msg[c] # None}
  /\ \A i \in Kinds : socketClient[i] \in Fds \cup {0} /\ isConnected[i] \in BOOLEAN
  /\ \A i \in Kinds : \A k \in 1..Len(requests[i]) : requests[i][k].itf = i
  /\ running \subseteq Spots /\ expired \subseteq Spots
  /\ pc \in {"update", "select", "process"}
  /\ pc = "process" <=> batch # {}

\* Of one interface and one type, requests are applied in the order they were
\* stored, each once at most: whatever stays in a list after an error, whichever
\* timer empties it, and through the Upward channel too.
AppliedInOrder ==
  \A j, k \in 1..Len(applied) :
    /\ j < k
    /\ applied[j].itf = applied[k].itf
    /\ applied[j].type = applied[k].type
    => applied[j].n < applied[k].n

\* The NCC closes a connection only after it read the message it carried: a
\* descriptor noted for removal is never that of a later client, and what is in the
\* table is open (TypeOK).
ClosedWasRead ==
  /\ TypeOK
  /\ \A c \in Conns : conn[c] = "closed" => msg[c] # None /\ c \notin unread

\* A message that was sent is served: all its commands are applied and the
\* connection is closed.
SentIsServed ==
  \A c \in Conns :
    c \in unread ~>
      /\ conn[c] = "closed"
      /\ Cardinality({k \in 1..Len(applied) : applied[k].conn = c}) = Len(msg[c].spots)
=============================================================================
