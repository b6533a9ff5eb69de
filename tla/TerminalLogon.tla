--------------------------- MODULE TerminalLogon ---------------------------
(***************************************************************************)
(* A terminal that logs on to an NCC and follows its superframes.  The     *)
(* NCC numbers its superframes from 0 each time it starts; it sends a SOF  *)
(* and a TTP for each, and a response for each logon request, all on one   *)
(* carrier.  In the terminal the upward channel filters what arrives and   *)
(* shares it with the downward channel, which logs on, notices that the    *)
(* NCC started again, and schedules with what the last TTP allocated.      *)
(*                                                                         *)
(* Both links lose messages; NCC and terminal may stop and start again.    *)
(* What DamaCtrl allocates is a choice here (see DamaScheduling), and the  *)
(* two channels of the NCC handle a request in one step.                   *)
(***************************************************************************)
EXTENDS Integers, Sequences

CONSTANTS
  Modulus,      \* of superframe numbers, 65536 in the code
  Volumes,      \* what a TTP may allocate to a terminal the NCC knows
  MaxLives,     \* bound: starts of the NCC
  MaxTalLives,  \* bound: starts of the terminal
  MaxAir,       \* bound: frames on their way to the terminal
  MaxRequests,  \* bound: requests on their way that are told apart
  MaxShared     \* places of the fifo between the channels of the terminal

ASSUME LogonAssumption ==
  /\ Modulus \in Nat \ {0} /\ Volumes \subseteq Nat
  /\ MaxLives \in Nat \ {0} /\ MaxTalLives \in Nat \ {0}
  /\ MaxAir \in Nat /\ MaxRequests \in Nat \ {0} /\ MaxShared \in Nat \ {0}

VARIABLES
  life,        \* which start of the NCC runs
  sf,          \* its super_frame_counter
  knownIn,     \* lives of the NCC that have a context for the terminal
  air,         \* frames on their way to the terminal, in order
  requests,    \* logon requests on their way to the NCC
  talLife,     \* which start of the terminal runs
  upRunning,   \* the upward channel is in state_running
  share,       \* frames shared by the upward channel
  state,       \* state of the downward channel
  timer,       \* the logon timer runs
  counter,     \* super_frame_counter of the downward channel
  allocated,   \* allocated_kb, with the TTP it comes from
  gap,         \* history: a SOF was lost since the last frame shared
  seen         \* history: see Unseen

ncc == <<life, sf, knownIn>>
upward == <<upRunning, gap>>
downward == <<state, timer, counter, allocated, seen>>
vars == <<ncc, air, requests, talLife, upward, share, downward>>

Lives == 1..MaxLives
Numbers == 0..(Modulus - 1)
Sof == [kind : {"sof"}, life : Lives, sf : Numbers]
Ttp == [kind : {"ttp"}, life : Lives, sf : Numbers, kb : Volumes \cup {0}]
LogonResponse == [kind : {"resp"}, life : Lives, mine : BOOLEAN]
Frames == Sof \cup Ttp \cup LogonResponse

NoGrant == [kb |-> 0, life |-> 1, sf |-> 0]

\* The life of the NCC of the last SOF or response that the downward channel
\* handled (0: none), whether it took a SOF of another life as the next one, and
\* whether, since the last SOF of this life given to the DAMA agent, one was not.
Unseen == [life |-> 0, missed |-> FALSE, sofLost |-> TRUE]

\* A slip: the number does not turn.
NextNumberNoTurn(n) == n + 1

\* The next superframe number of 16 bits.
NextNumber(n) == (n + 1) % Modulus

Init ==
  /\ life = 1 /\ sf = 0 /\ knownIn = {}
  /\ air = <<>> /\ requests \in 0..1
  /\ talLife = 1
  /\ upRunning = FALSE /\ share = <<>>
  /\ state = "wait" /\ timer = TRUE /\ counter = 0
  /\ allocated = NoGrant
  /\ gap = FALSE /\ seen = Unseen

-----------------------------------------------------------------------------
(* The NCC. *)

\* The end of a superframe: SOF, allocation and TTP of the next one.
FrameTimer ==
  /\ Len(air) + 2 <= MaxAir
  /\ sf' = NextNumber(sf)
  /\ \E kb \in IF life \in knownIn THEN Volumes \cup {0} ELSE {0} :
       air' = air \o << [kind |-> "sof", life |-> life, sf |-> sf'],
                        [kind |-> "ttp", life |-> life, sf |-> sf', kb |-> kb] >>
  /\ UNCHANGED <<life, knownIn, requests, talLife, upward, share, downward>>

\* A request is answered whether or not the terminal is known.
HandleLogonReq ==
  /\ requests > 0
  /\ Len(air) < MaxAir
  /\ requests' = requests - 1
  /\ knownIn' = knownIn \cup {life}
  /\ air' = Append(air, [kind |-> "resp", life |-> life, mine |-> TRUE])
  /\ UNCHANGED <<life, sf, talLife, upward, share, downward>>

\* Another terminal logs on; no more than one response for others is followed at
\* a time.
OtherLogsOn ==
  /\ Len(air) < MaxAir
  /\ \A i \in DOMAIN air : air[i].kind = "resp" => air[i].mine
  /\ air' = Append(air, [kind |-> "resp", life |-> 1, mine |-> FALSE])
  /\ UNCHANGED <<ncc, requests, talLife, upward, share, downward>>

\* The NCC starts again with no context and superframe 0.
NccRestarts ==
  /\ life < MaxLives
  /\ life' = life + 1
  /\ sf' = 0
  /\ UNCHANGED <<knownIn, air, requests, talLife, upward, share, downward>>

-----------------------------------------------------------------------------
(* The link to the terminal. *)

\* A frame is received or lost when the upward channel has room for it: what the
\* link loses while that channel waits is lost here just after.
LoseFrame ==
  /\ air # <<>>
  /\ Len(share) < MaxShared
  /\ air' = Tail(air)
  /\ gap' = (gap \/ Head(air).kind = "sof")
  /\ UNCHANGED <<ncc, requests, talLife, upRunning, share, downward>>

-----------------------------------------------------------------------------
(* The upward channel of the terminal. *)

\* A slip: the response for another terminal is taken too.
SharesAnyResponse(frame) == upRunning \/ frame.kind = "resp"

\* SOF and TTP are shared once the terminal is logged, responses if they are for
\* this terminal.
Shares(frame) == IF frame.kind = "resp" THEN frame.mine ELSE upRunning

UpwardReceives ==
  /\ air # <<>>
  /\ Len(share) < MaxShared
  /\ LET frame == Head(air)
     IN  /\ IF Shares(frame)
            THEN /\ share' = Append(share, [frame |-> frame, gap |-> gap])
                 /\ gap' = FALSE
            ELSE UNCHANGED <<share, gap>>
         /\ upRunning' = (upRunning \/ (frame.kind = "resp" /\ Shares(frame)))
  /\ air' = Tail(air)
  /\ UNCHANGED <<ncc, requests, talLife, downward>>

-----------------------------------------------------------------------------
(* The downward channel of the terminal. *)

\* A slip: the logon timer is not started.
SendLogonReqOnce ==
  /\ requests' \in requests..(requests + 1) /\ requests' <= MaxRequests
  /\ timer' = FALSE

\* The request is sent, and may be lost at once.
SendLogonReq ==
  /\ requests' \in requests..(requests + 1) /\ requests' <= MaxRequests
  /\ timer' = TRUE

\* The logon timer expires; it is not rearmed.
LogonTimer ==
  /\ timer
  /\ IF state = "wait"
     THEN SendLogonReq
     ELSE timer' = FALSE /\ UNCHANGED requests
  /\ UNCHANGED <<ncc, air, talLife, upward, share, state, counter, allocated, seen>>

\* Whether a SOF was lost just before the frame that is handled now.
Lost == Head(share).gap
Shared(kind) == share # <<>> /\ Head(share).frame.kind = kind

\* A slip: the turn of the numbers is taken for a restart.
SeemsRebootedAtWrap(n) == n < counter

\* "it seems NCC rebooted"
SeemsRebooted(n) == n < counter /\ (n # 0 \/ NextNumber(counter) # 0)

\* The handler fails after the request is sent: the DAMA agent is not told.
RebootDetected(frame) ==
  /\ SeemsRebooted(frame.sf)
  /\ SendLogonReq
  /\ state' = "wait"
  /\ counter' = frame.sf
  /\ seen' = [seen EXCEPT !.life = frame.life, !.sofLost = TRUE]
  /\ UNCHANGED allocated

\* A slip: what the last TTP allocated stays allocated.
HereIsSofKeeps == UNCHANGED allocated

\* What is allocated is for this superframe only.
HereIsSof == allocated' = NoGrant

\* Packets are scheduled with what was allocated so far.
SuperFrameBegins(frame) ==
  /\ ~SeemsRebooted(frame.sf)
  /\ counter' = frame.sf
  /\ HereIsSof
  /\ seen' = [seen EXCEPT !.missed = @ \/ (seen.life # 0 /\ frame.life # seen.life),
                          !.life = frame.life, !.sofLost = FALSE]
  /\ UNCHANGED <<state, timer, requests>>

HandleStartOfFrame ==
  /\ Shared("sof")
  /\ LET frame == Head(share).frame IN RebootDetected(frame) \/ SuperFrameBegins(frame)
  /\ share' = Tail(share)
  /\ UNCHANGED <<ncc, air, talLife, upward>>

\* The TTP is handled in any state.
HereIsTtp ==
  /\ Shared("ttp")
  /\ LET frame == Head(share).frame
     IN  allocated' = IF frame.kb = 0 THEN NoGrant
                      ELSE [kb |-> frame.kb, life |-> frame.life, sf |-> frame.sf]
  /\ seen' = [seen EXCEPT !.sofLost = @ \/ Lost]
  /\ share' = Tail(share)
  /\ UNCHANGED <<ncc, air, requests, talLife, upward, state, timer, counter>>

HandleLogonResp ==
  /\ Shared("resp")
  /\ state' = "running"
  /\ seen' = [life |-> Head(share).frame.life, missed |-> FALSE,
              sofLost |-> seen.sofLost \/ Lost \/ Head(share).frame.life # seen.life]
  /\ share' = Tail(share)
  /\ UNCHANGED <<ncc, air, requests, talLife, upward, timer, counter, allocated>>

\* The terminal starts again and asks to log on.
TerminalRestarts ==
  /\ talLife < MaxTalLives
  /\ talLife' = talLife + 1
  /\ upRunning' = FALSE /\ share' = <<>>
  /\ state' = "wait" /\ counter' = 0
  /\ SendLogonReq
  /\ allocated' = NoGrant
  /\ gap' = FALSE /\ seen' = Unseen
  /\ UNCHANGED <<ncc, air>>

Downward == LogonTimer \/ HandleStartOfFrame \/ HereIsTtp \/ HandleLogonResp

Next ==
  \/ FrameTimer \/ HandleLogonReq \/ OtherLogsOn \/ NccRestarts
  \/ LoseFrame \/ UpwardReceives
  \/ Downward \/ TerminalRestarts

AirHead(kind) == air # <<>> /\ Head(air).kind = kind

\* The NCC goes on, the channels of the terminal run, the timer expires; the
\* links do not lose every request, every response and every SOF.  FrameTimer and
\* HandleLogonReq are only ever disabled by the bound on the link.
Fairness ==
  /\ SF_vars(FrameTimer)
  /\ WF_vars(LogonTimer) /\ WF_vars(UpwardReceives)
  /\ WF_vars(HandleStartOfFrame) /\ WF_vars(HereIsTtp) /\ WF_vars(HandleLogonResp)
  /\ SF_vars(LogonTimer /\ requests' > 0) /\ SF_vars(HandleLogonReq)
  /\ SF_vars(AirHead("sof") /\ UpwardReceives)
  /\ SF_vars(AirHead("resp") /\ Head(air).mine /\ UpwardReceives)

Spec == Init /\ [][Next]_vars
FairSpec == Spec /\ Fairness

-----------------------------------------------------------------------------
(* Properties. *)

Grants == [kb : Volumes \cup {0}, life : Lives, sf : Numbers]

TypeOK ==
  /\ life \in Lives /\ sf \in Numbers /\ knownIn \subseteq 1..life
  /\ air \in Seq(Frames) /\ Len(air) <= MaxAir
  /\ requests \in 0..MaxRequests /\ talLife \in 1..MaxTalLives
  /\ upRunning \in BOOLEAN /\ gap \in BOOLEAN
  /\ share \in Seq([frame : Frames, gap : BOOLEAN]) /\ Len(share) <= MaxShared
  /\ state \in {"wait", "running"} /\ timer \in BOOLEAN /\ counter \in Numbers
  /\ allocated \in Grants
  /\ seen \in [life : {0} \cup Lives, missed : BOOLEAN, sofLost : BOOLEAN]

\* A terminal that believes to be logged has a context in the NCC whose frames
\* it takes, however requests, responses and restarts cross; but for a restart
\* that its numbers did not show.
RunningIsKnown == state = "running" => seen.missed \/ seen.life \in knownIn

\* What a terminal sends with in a superframe was allocated to it by the TTP of
\* the superframe before, in the same life of the NCC; but for the first
\* superframe of a life, and when a SOF is missing before it.
GrantIsForThisFrame ==
  [][LET frame == Head(share).frame
     IN  /\ HandleStartOfFrame
         /\ ~SeemsRebooted(frame.sf)
         /\ allocated.kb > 0
         /\ frame.life = seen.life
         /\ ~seen.sofLost /\ ~Lost
         => allocated.life = frame.life /\ frame.sf = NextNumber(allocated.sf)]_vars

\* The terminal flushes its packets and logs on again only if the NCC did start
\* again or a SOF was lost, also when the numbers turn.
NoFalseAlarm ==
  [][LET frame == Head(share).frame
     IN  HandleStartOfFrame /\ state' = "wait" /\ state = "running"
         => frame.life # seen.life \/ seen.sofLost \/ Lost]_vars

\* Whatever is lost and whoever starts again, the terminal comes to run with a
\* context in the NCC that runs, unless the restart did not show.
LogsOnAgain == []<>(state = "running" /\ (life \in knownIn \/ seen.missed))
=============================================================================
