------------------------ MODULE TerminalLogon_proofs ------------------------
(***************************************************************************)
(* Theorems about TerminalLogon, for all bounds and numbers of lives: type *)
(* correctness; a terminal that runs is known to the NCC it listens to; a  *)
(* terminal takes a restart of the NCC for one only if there was one, or a *)
(* SOF was lost; and it uses an allocation in the frame it was made for.   *)
(*                                                                         *)
(* The last two follow from what is on its way to the upward channel and   *)
(* on through the fifo to the downward one, taken as one sequence: between *)
(* frames of one life of the NCC the numbers count up by one from SOF to   *)
(* SOF, but after a loss, which the next SOF remembers.                    *)
(***************************************************************************)
EXTENDS TerminalLogon, SequenceTheorems, TLAPS

SharedFrames == [frame : Frames, gap : BOOLEAN]

LEMMA SuccessorIsNumber ==
  ASSUME NEW n \in Nat
  PROVE  NextNumber(n) \in Numbers
BY LogonAssumption DEF NextNumber, Numbers

\* Every frame has a life of the NCC.
LEMMA FrameLife ==
  ASSUME NEW f \in Frames
  PROVE  f.life \in Lives
BY DEF Frames, Sof, Ttp, LogonResponse

\* Of a SOF and of a TTP: what the handlers read.
LEMMA SofFields ==
  ASSUME NEW f \in Frames, f.kind = "sof"
  PROVE  f.sf \in Numbers
BY DEF Frames, Sof, Ttp, LogonResponse

LEMMA TtpFields ==
  ASSUME NEW f \in Frames, f.kind = "ttp"
  PROVE  f.sf \in Numbers /\ f.kb \in Volumes \cup {0}
BY DEF Frames, Sof, Ttp, LogonResponse

\* The frame at the head of a fifo.
LEMMA HeadShared ==
  ASSUME TypeOK, share # <<>>
  PROVE  /\ Head(share).frame \in Frames
         /\ Head(share).gap \in BOOLEAN
         /\ Tail(share) \in Seq(SharedFrames)
         /\ Len(Tail(share)) <= MaxShared
<1>1. share \in Seq(SharedFrames) /\ Len(share) <= MaxShared
  BY DEF TypeOK, SharedFrames
<1>2. Head(share) \in SharedFrames /\ Tail(share) \in Seq(SharedFrames)
  BY <1>1, HeadTailProperties
<1>3. Len(Tail(share)) = Len(share) - 1 /\ Len(share) \in Nat
  BY <1>1, HeadTailProperties, LenProperties
<1> QED
  BY <1>1, <1>2, <1>3, LogonAssumption DEF SharedFrames

LEMMA HeadAir ==
  ASSUME TypeOK, air # <<>>
  PROVE  /\ Head(air) \in Frames
         /\ Tail(air) \in Seq(Frames)
         /\ Len(Tail(air)) <= MaxAir
<1>1. air \in Seq(Frames) /\ Len(air) <= MaxAir
  BY DEF TypeOK
<1>2. Head(air) \in Frames /\ Tail(air) \in Seq(Frames)
  BY <1>1, HeadTailProperties
<1>3. Len(Tail(air)) = Len(air) - 1 /\ Len(air) \in Nat
  BY <1>1, HeadTailProperties, LenProperties
<1> QED
  BY <1>1, <1>2, <1>3, LogonAssumption

LEMMA NoGrantIsGrant == NoGrant \in Grants
<1>1. 0 \in Numbers /\ 1 \in Lives
  BY LogonAssumption DEF Numbers, Lives
<1> QED BY <1>1 DEF NoGrant, Grants

LEMMA RequestsTyped ==
  ASSUME requests \in 0..MaxRequests, SendLogonReq
  PROVE  requests' \in 0..MaxRequests /\ timer' \in BOOLEAN
BY LogonAssumption DEF SendLogonReq

-----------------------------------------------------------------------------
(* Type correctness. *)

LEMMA InitTyped == Init => TypeOK
<1> SUFFICES ASSUME Init PROVE TypeOK
  OBVIOUS
<1>1. 1 \in Lives /\ 0 \in Numbers /\ 1 \in 1..MaxTalLives
  BY LogonAssumption DEF Lives, Numbers
<1>2. allocated \in Grants
  BY NoGrantIsGrant DEF Init
<1>3. requests \in 0..MaxRequests
  BY LogonAssumption DEF Init
<1>4. /\ air \in Seq(Frames) /\ Len(air) <= MaxAir
      /\ share \in Seq([frame : Frames, gap : BOOLEAN]) /\ Len(share) <= MaxShared
  BY LogonAssumption DEF Init
<1>5. seen \in [life : {0} \cup Lives, missed : BOOLEAN, sofLost : BOOLEAN]
  BY DEF Init, Unseen
<1>6. knownIn \subseteq 1..life /\ life \in Lives /\ sf \in Numbers /\ counter \in Numbers
  BY <1>1 DEF Init
<1>7. /\ talLife \in 1..MaxTalLives /\ upRunning \in BOOLEAN /\ gap \in BOOLEAN
      /\ state \in {"wait", "running"} /\ timer \in BOOLEAN
  BY <1>1 DEF Init
<1> QED
  BY <1>2, <1>3, <1>4, <1>5, <1>6, <1>7 DEF TypeOK

LEMMA FrameTimerTyped == TypeOK /\ FrameTimer => TypeOK'
<1> SUFFICES ASSUME TypeOK, FrameTimer PROVE TypeOK'
  OBVIOUS
<1>1. sf' \in Numbers
  BY SuccessorIsNumber DEF TypeOK, FrameTimer, Numbers
<1>2. PICK kb \in Volumes \cup {0} :
        air' = air \o << [kind |-> "sof", life |-> life, sf |-> sf'],
                         [kind |-> "ttp", life |-> life, sf |-> sf', kb |-> kb] >>
  BY DEF FrameTimer
<1> DEFINE two == << [kind |-> "sof", life |-> life, sf |-> sf'],
                     [kind |-> "ttp", life |-> life, sf |-> sf', kb |-> kb] >>
<1>3. [kind |-> "sof", life |-> life, sf |-> sf'] \in Frames
  BY <1>1 DEF TypeOK, Frames, Sof
<1>4. [kind |-> "ttp", life |-> life, sf |-> sf', kb |-> kb] \in Frames
  BY <1>1, <1>2 DEF TypeOK, Frames, Ttp
<1>5. two \in Seq(Frames) /\ Len(two) = 2
  BY <1>3, <1>4
<1>6. air \in Seq(Frames) /\ Len(air) + 2 <= MaxAir
  BY DEF TypeOK, FrameTimer
<1>7. air' \in Seq(Frames) /\ Len(air') <= MaxAir
  <2> HIDE DEF two
  <2>1. air' = air \o two
    BY <1>2 DEF two
  <2>2. air' \in Seq(Frames) /\ Len(air') = Len(air) + Len(two)
    BY ONLY <2>1, <1>5, <1>6, ConcatProperties
  <2>3. Len(air) \in Nat
    BY <1>6, LenProperties
  <2> QED
    BY <2>2, <2>3, <1>5, <1>6, LogonAssumption
<1> QED
  BY <1>1, <1>7 DEF TypeOK, FrameTimer, ncc, upward, downward

LEMMA AirAppended ==
  ASSUME TypeOK, Len(air) < MaxAir, NEW f \in Frames, air' = Append(air, f)
  PROVE  air' \in Seq(Frames) /\ Len(air') <= MaxAir
<1>1. air \in Seq(Frames)
  BY DEF TypeOK
<1>2. air' \in Seq(Frames) /\ Len(air') = Len(air) + 1 /\ Len(air) \in Nat
  BY <1>1, AppendProperties, LenProperties
<1> QED
  BY <1>2, LogonAssumption

LEMMA NccTyped ==
  TypeOK /\ (HandleLogonReq \/ OtherLogsOn \/ NccRestarts) => TypeOK'
<1> SUFFICES ASSUME TypeOK, HandleLogonReq \/ OtherLogsOn \/ NccRestarts PROVE TypeOK'
  OBVIOUS
<1>1. CASE HandleLogonReq
  <2>1. [kind |-> "resp", life |-> life, mine |-> TRUE] \in Frames
    BY DEF TypeOK, Frames, LogonResponse
  <2>2. air' \in Seq(Frames) /\ Len(air') <= MaxAir
    BY <1>1, <2>1, AirAppended DEF HandleLogonReq
  <2>3. knownIn' \subseteq 1..life
    BY <1>1 DEF TypeOK, HandleLogonReq, Lives
  <2>4. requests' \in 0..MaxRequests
    BY <1>1, LogonAssumption DEF TypeOK, HandleLogonReq
  <2> QED
    BY <1>1, <2>2, <2>3, <2>4 DEF TypeOK, HandleLogonReq, upward, downward
<1>2. CASE OtherLogsOn
  <2>1. [kind |-> "resp", life |-> 1, mine |-> FALSE] \in Frames
    BY LogonAssumption DEF Frames, LogonResponse, Lives
  <2>2. air' \in Seq(Frames) /\ Len(air') <= MaxAir
    BY <1>2, <2>1, AirAppended DEF OtherLogsOn
  <2> QED
    BY <1>2, <2>2 DEF TypeOK, OtherLogsOn, ncc, upward, downward
<1>3. CASE NccRestarts
  <2>1. life' \in Lives /\ sf' \in Numbers
    BY <1>3, LogonAssumption DEF TypeOK, NccRestarts, Lives, Numbers
  <2>2. knownIn' \subseteq 1..life'
    BY <1>3 DEF TypeOK, NccRestarts, Lives
  <2> QED
    BY <1>3, <2>1, <2>2 DEF TypeOK, NccRestarts, upward, downward
<1> QED
  BY <1>1, <1>2, <1>3

LEMMA ArrivalTyped == TypeOK /\ (LoseFrame \/ UpwardReceives) => TypeOK'
<1> SUFFICES ASSUME TypeOK, LoseFrame \/ UpwardReceives PROVE TypeOK'
  OBVIOUS
<1>1. air # <<>> /\ air' = Tail(air) /\ Len(share) < MaxShared
  BY DEF LoseFrame, UpwardReceives
<1>2. air' \in Seq(Frames) /\ Len(air') <= MaxAir /\ Head(air) \in Frames
  BY <1>1, HeadAir
<1>3. CASE LoseFrame
  <2>1. gap' \in BOOLEAN
    BY <1>3 DEF TypeOK, LoseFrame
  <2> QED
    BY <1>2, <1>3, <2>1 DEF TypeOK, LoseFrame, ncc, downward
<1>4. CASE UpwardReceives
  <2>1. CASE Shares(Head(air))
    <3>1. share' = Append(share, [frame |-> Head(air), gap |-> gap]) /\ gap' = FALSE
      BY <1>4, <2>1 DEF UpwardReceives
    <3>2. [frame |-> Head(air), gap |-> gap] \in [frame : Frames, gap : BOOLEAN]
      BY <1>2 DEF TypeOK
    <3>3. share \in Seq([frame : Frames, gap : BOOLEAN])
      BY DEF TypeOK
    <3>4. /\ share' \in Seq([frame : Frames, gap : BOOLEAN])
          /\ Len(share') = Len(share) + 1 /\ Len(share) \in Nat
      BY <3>1, <3>2, <3>3, AppendProperties, LenProperties
    <3>5. Len(share') <= MaxShared
      BY <3>4, <1>1, LogonAssumption
    <3>6. upRunning' \in BOOLEAN
      BY <1>4, <2>1 DEF UpwardReceives, TypeOK
    <3> QED
      BY <1>2, <1>4, <3>1, <3>4, <3>5, <3>6 DEF TypeOK, UpwardReceives, ncc, downward
  <2>2. CASE ~Shares(Head(air))
    <3>1. UNCHANGED <<share, gap>> /\ upRunning' \in BOOLEAN
      BY <1>4, <2>2 DEF UpwardReceives, TypeOK
    <3> QED
      BY <1>2, <1>4, <3>1 DEF TypeOK, UpwardReceives, ncc, downward
  <2> QED
    BY <2>1, <2>2
<1> QED
  BY <1>3, <1>4

LEMMA LogonTimerTyped == TypeOK /\ LogonTimer => TypeOK'
<1> SUFFICES ASSUME TypeOK, LogonTimer PROVE TypeOK'
  OBVIOUS
<1>1. requests' \in 0..MaxRequests /\ timer' \in BOOLEAN
  BY RequestsTyped DEF TypeOK, LogonTimer
<1> QED
  BY <1>1 DEF TypeOK, LogonTimer, ncc, upward

LEMMA StartOfFrameTyped == TypeOK /\ HandleStartOfFrame => TypeOK'
<1> SUFFICES ASSUME TypeOK, HandleStartOfFrame PROVE TypeOK'
  OBVIOUS
<1> DEFINE frame == Head(share).frame
<1>1. share # <<>> /\ frame.kind = "sof" /\ share' = Tail(share)
  BY DEF HandleStartOfFrame, Shared
<1>2. /\ frame \in Frames /\ Lost \in BOOLEAN
      /\ share' \in Seq([frame : Frames, gap : BOOLEAN]) /\ Len(share') <= MaxShared
  BY <1>1, HeadShared DEF Lost, SharedFrames
<1>3. frame.life \in Lives /\ frame.sf \in Numbers
  BY <1>1, <1>2, FrameLife, SofFields
<1>4. /\ requests' \in 0..MaxRequests /\ timer' \in BOOLEAN
      /\ state' \in {"wait", "running"} /\ counter' \in Numbers
      /\ allocated' \in Grants
      /\ seen' \in [life : {0} \cup Lives, missed : BOOLEAN, sofLost : BOOLEAN]
  <2>1. CASE RebootDetected(frame)
    BY <2>1, <1>3, RequestsTyped DEF TypeOK, RebootDetected
  <2>2. CASE SuperFrameBegins(frame)
    BY <2>2, <1>3, NoGrantIsGrant DEF TypeOK, SuperFrameBegins, HereIsSof
  <2> QED
    BY <2>1, <2>2 DEF HandleStartOfFrame
<1> QED
  BY <1>2, <1>4 DEF TypeOK, HandleStartOfFrame, ncc, upward

LEMMA TtpTyped == TypeOK /\ HereIsTtp => TypeOK'
<1> SUFFICES ASSUME TypeOK, HereIsTtp PROVE TypeOK'
  OBVIOUS
<1> DEFINE frame == Head(share).frame
<1>1. share # <<>> /\ frame.kind = "ttp" /\ share' = Tail(share)
  BY DEF HereIsTtp, Shared
<1>2. /\ frame \in Frames /\ Lost \in BOOLEAN
      /\ share' \in Seq([frame : Frames, gap : BOOLEAN]) /\ Len(share') <= MaxShared
  BY <1>1, HeadShared DEF Lost, SharedFrames
<1>3. frame.life \in Lives /\ frame.sf \in Numbers /\ frame.kb \in Volumes \cup {0}
  BY <1>1, <1>2, FrameLife, TtpFields
<1>4. allocated' \in Grants
  BY <1>3, NoGrantIsGrant DEF HereIsTtp, Grants
<1>5. seen' \in [life : {0} \cup Lives, missed : BOOLEAN, sofLost : BOOLEAN]
  BY <1>2 DEF TypeOK, HereIsTtp
<1> QED
  BY <1>2, <1>4, <1>5 DEF TypeOK, HereIsTtp, ncc, upward

LEMMA LogonRespTyped == TypeOK /\ HandleLogonResp => TypeOK'
<1> SUFFICES ASSUME TypeOK, HandleLogonResp PROVE TypeOK'
  OBVIOUS
<1>1. share # <<>> /\ share' = Tail(share)
  BY DEF HandleLogonResp, Shared
<1>2. /\ Head(share).frame \in Frames /\ Lost \in BOOLEAN
      /\ share' \in Seq([frame : Frames, gap : BOOLEAN]) /\ Len(share') <= MaxShared
  BY <1>1, HeadShared DEF Lost, SharedFrames
<1>3. Head(share).frame.life \in Lives
  BY <1>2, FrameLife
<1>4. seen' \in [life : {0} \cup Lives, missed : BOOLEAN, sofLost : BOOLEAN]
  BY <1>2, <1>3 DEF TypeOK, HandleLogonResp
<1> QED
  BY <1>2, <1>4 DEF TypeOK, HandleLogonResp, ncc, upward

LEMMA TerminalRestartsTyped == TypeOK /\ TerminalRestarts => TypeOK'
<1> SUFFICES ASSUME TypeOK, TerminalRestarts PROVE TypeOK'
  OBVIOUS
<1>1. requests' \in 0..MaxRequests /\ timer' \in BOOLEAN
  BY RequestsTyped DEF TypeOK, TerminalRestarts
<1>2. counter' \in Numbers /\ allocated' \in Grants /\ talLife' \in 1..MaxTalLives
  BY NoGrantIsGrant, LogonAssumption DEF TypeOK, TerminalRestarts, Numbers
<1>3. seen' \in [life : {0} \cup Lives, missed : BOOLEAN, sofLost : BOOLEAN]
  BY DEF TerminalRestarts, Unseen
<1>4. share' \in Seq([frame : Frames, gap : BOOLEAN]) /\ Len(share') <= MaxShared
  BY LogonAssumption DEF TerminalRestarts
<1> QED
  BY <1>1, <1>2, <1>3, <1>4 DEF TypeOK, TerminalRestarts, ncc

LEMMA NextTyped == TypeOK /\ [Next]_vars => TypeOK'
<1> SUFFICES ASSUME TypeOK, [Next]_vars PROVE TypeOK'
  OBVIOUS
<1>1. CASE UNCHANGED vars
  BY <1>1 DEF vars, ncc, upward, downward, TypeOK
<1> QED
  BY <1>1, FrameTimerTyped, NccTyped, ArrivalTyped, LogonTimerTyped, StartOfFrameTyped,
     TtpTyped, LogonRespTyped, TerminalRestartsTyped
  DEF Next, Downward

\* Type correctness of every reachable state: the numbers, the queues and what
\* is in them (TerminalLogon.TypeOK).
THEOREM TypeCorrect == Spec => []TypeOK
<1> QED
  BY InitTyped, NextTyped, PTL DEF Spec

-----------------------------------------------------------------------------
(* A terminal that runs is known. *)

\* Every response on its way to the terminal, or from its upward to its downward
\* channel, was sent by a life of the NCC that has a context for it.
ResponsesMeanKnown ==
  /\ \A i \in 1..Len(air) :
       air[i].kind = "resp" /\ air[i].mine => air[i].life \in knownIn
  /\ \A i \in 1..Len(share) :
       share[i].frame.kind = "resp" => share[i].frame.life \in knownIn

LogonInv == TypeOK /\ ResponsesMeanKnown /\ RunningIsKnown

LEMMA InitInv == Init => LogonInv
<1> SUFFICES ASSUME Init PROVE LogonInv
  OBVIOUS
<1>1. TypeOK
  BY InitTyped
<1>2. ResponsesMeanKnown
  BY DEF Init, ResponsesMeanKnown
<1>3. RunningIsKnown
  BY DEF Init, RunningIsKnown
<1> QED
  BY <1>1, <1>2, <1>3 DEF LogonInv

\* The elements of a tail are elements of the sequence.
LEMMA TailElement ==
  ASSUME NEW S, NEW s \in Seq(S), s # <<>>, NEW i \in 1..Len(Tail(s))
  PROVE  i + 1 \in 1..Len(s) /\ Tail(s)[i] = s[i + 1]
<1>1. Len(s) \in Nat /\ Len(Tail(s)) = Len(s) - 1
  BY HeadTailProperties, LenProperties
<1>2. i + 1 \in 1..Len(s)
  BY <1>1
<1>3. Tail(s)[i] = s[i + 1]
  BY HeadTailProperties
<1> QED
  BY <1>2, <1>3

LEMMA HeadElement ==
  ASSUME NEW S, NEW s \in Seq(S), s # <<>>
  PROVE  1 \in 1..Len(s) /\ Head(s) = s[1]
<1>1. Len(s) \in Nat /\ Len(s) # 0
  BY EmptySeq, LenProperties
<1> QED
  BY <1>1

\* What holds of the elements of a sequence and of a new one holds of both.
LEMMA AppendElement ==
  ASSUME NEW S, NEW s \in Seq(S), NEW e \in S, NEW i \in 1..Len(Append(s, e))
  PROVE  (i \in 1..Len(s) /\ Append(s, e)[i] = s[i]) \/ Append(s, e)[i] = e
<1>1. /\ Len(s) \in Nat /\ Len(Append(s, e)) = Len(s) + 1
      /\ \A j \in 1..Len(s) : Append(s, e)[j] = s[j]
      /\ Append(s, e)[Len(s) + 1] = e
  BY AppendProperties, LenProperties
<1>2. i \in 1..Len(s) \/ i = Len(s) + 1
  BY <1>1
<1> QED
  BY <1>1, <1>2

\* Responses on their way stay so, and no context is lost.
LEMMA AirShortened ==
  ASSUME TypeOK, ResponsesMeanKnown, air # <<>>, air' = Tail(air), UNCHANGED knownIn
  PROVE  \A i \in 1..Len(air') :
           air'[i].kind = "resp" /\ air'[i].mine => air'[i].life \in knownIn'
<1> SUFFICES ASSUME NEW i \in 1..Len(air')
             PROVE  air'[i].kind = "resp" /\ air'[i].mine => air'[i].life \in knownIn'
  OBVIOUS
<1>1. air \in Seq(Frames)
  BY DEF TypeOK
<1>2. i + 1 \in 1..Len(air) /\ air'[i] = air[i + 1]
  BY <1>1, TailElement
<1> QED
  BY <1>2 DEF ResponsesMeanKnown

LEMMA ShareShortened ==
  ASSUME TypeOK, ResponsesMeanKnown, share # <<>>, share' = Tail(share), UNCHANGED <<air, knownIn>>
  PROVE  ResponsesMeanKnown'
<1>1. ASSUME NEW i \in 1..Len(share')
      PROVE  share'[i].frame.kind = "resp" => share'[i].frame.life \in knownIn'
  <2>1. share \in Seq(SharedFrames)
    BY DEF TypeOK, SharedFrames
  <2>2. i + 1 \in 1..Len(share) /\ share'[i] = share[i + 1]
    BY <1>1, <2>1, TailElement
  <2> QED
    BY <2>2 DEF ResponsesMeanKnown
<1> QED
  BY <1>1 DEF ResponsesMeanKnown

LEMMA HeadResponseKnown ==
  ASSUME TypeOK, ResponsesMeanKnown, Shared("resp")
  PROVE  Head(share).frame.life \in knownIn
<1>1. share \in Seq(SharedFrames) /\ share # <<>> /\ Head(share).frame.kind = "resp"
  BY DEF TypeOK, SharedFrames, Shared
<1>2. 1 \in 1..Len(share) /\ Head(share) = share[1]
  BY <1>1, HeadElement
<1> QED
  BY <1>1, <1>2 DEF ResponsesMeanKnown

LEMMA FrameTimerKnown == TypeOK /\ ResponsesMeanKnown /\ FrameTimer => ResponsesMeanKnown'
<1> SUFFICES ASSUME TypeOK, ResponsesMeanKnown, FrameTimer PROVE ResponsesMeanKnown'
  OBVIOUS
<1>1. air \in Seq(Frames) /\ UNCHANGED <<share, knownIn>>
  BY DEF TypeOK, FrameTimer
<1>2. PICK sof \in Sof, ttp \in Ttp : air' = air \o <<sof, ttp>>
  <2>1. life \in Lives /\ sf \in Numbers /\ sf' = NextNumber(sf)
    BY DEF TypeOK, FrameTimer
  <2>2. sf \in Nat
    BY <2>1, LogonAssumption DEF Numbers
  <2>3. sf' \in Numbers
    BY <2>1, <2>2, SuccessorIsNumber
  <2> QED
    BY <2>1, <2>3 DEF FrameTimer, Sof, Ttp
<1>3. ASSUME NEW i \in 1..Len(air')
      PROVE  air'[i].kind = "resp" /\ air'[i].mine => air'[i].life \in knownIn'
  <2>1. /\ sof \in Frames /\ Append(air, sof) \in Seq(Frames)
        /\ ttp \in Frames /\ air' = Append(Append(air, sof), ttp)
    BY <1>1, <1>2 DEF Frames
  <2>2. (i \in 1..Len(Append(air, sof)) /\ air'[i] = Append(air, sof)[i]) \/ air'[i] = ttp
    BY <1>3, <2>1, AppendElement
  <2>3. (i \in 1..Len(air) /\ air'[i] = air[i]) \/ air'[i] = sof \/ air'[i] = ttp
    BY <1>1, <2>1, <2>2, AppendElement
  <2>4. sof.kind # "resp" /\ ttp.kind # "resp"
    BY DEF Sof, Ttp
  <2> QED
    BY <1>1, <2>3, <2>4 DEF ResponsesMeanKnown
<1> QED
  BY <1>1, <1>3 DEF ResponsesMeanKnown

LEMMA NccKnown ==
  TypeOK /\ ResponsesMeanKnown /\ (HandleLogonReq \/ OtherLogsOn \/ NccRestarts)
    => ResponsesMeanKnown' /\ knownIn \subseteq knownIn'
<1> SUFFICES ASSUME TypeOK, ResponsesMeanKnown, HandleLogonReq \/ OtherLogsOn \/ NccRestarts
             PROVE  ResponsesMeanKnown' /\ knownIn \subseteq knownIn'
  OBVIOUS
<1>1. air \in Seq(Frames) /\ UNCHANGED share
  BY DEF TypeOK, HandleLogonReq, OtherLogsOn, NccRestarts
<1>2. CASE HandleLogonReq
  <2> DEFINE f == [kind |-> "resp", life |-> life, mine |-> TRUE]
  <2>1. f \in Frames /\ air' = Append(air, f) /\ knownIn' = knownIn \cup {life}
    BY <1>2 DEF TypeOK, Frames, LogonResponse, HandleLogonReq
  <2>2. ASSUME NEW i \in 1..Len(air')
        PROVE  air'[i].kind = "resp" /\ air'[i].mine => air'[i].life \in knownIn'
    <3>1. (i \in 1..Len(air) /\ air'[i] = air[i]) \/ air'[i] = f
      <4> HIDE DEF f
      <4> QED BY <1>1, <2>1, <2>2, AppendElement
    <3> QED
      BY <2>1, <3>1 DEF ResponsesMeanKnown
  <2> QED
    BY <1>1, <2>1, <2>2 DEF ResponsesMeanKnown
<1>3. CASE OtherLogsOn
  <2> DEFINE f == [kind |-> "resp", life |-> 1, mine |-> FALSE]
  <2>1. f \in Frames /\ air' = Append(air, f) /\ knownIn' = knownIn
    BY <1>3, LogonAssumption DEF Frames, LogonResponse, Lives, OtherLogsOn, ncc
  <2>2. ASSUME NEW i \in 1..Len(air')
        PROVE  air'[i].kind = "resp" /\ air'[i].mine => air'[i].life \in knownIn'
    <3>1. (i \in 1..Len(air) /\ air'[i] = air[i]) \/ air'[i] = f
      <4> HIDE DEF f
      <4> QED BY <1>1, <2>1, <2>2, AppendElement
    <3> QED
      BY <2>1, <3>1 DEF ResponsesMeanKnown
  <2> QED
    BY <1>1, <2>1, <2>2 DEF ResponsesMeanKnown
<1>4. CASE NccRestarts
  BY <1>4 DEF ResponsesMeanKnown, NccRestarts
<1> QED
  BY <1>2, <1>3, <1>4

LEMMA ArrivalKnown ==
  TypeOK /\ ResponsesMeanKnown /\ (LoseFrame \/ UpwardReceives) => ResponsesMeanKnown'
<1> SUFFICES ASSUME TypeOK, ResponsesMeanKnown, LoseFrame \/ UpwardReceives
             PROVE  ResponsesMeanKnown'
  OBVIOUS
<1>1. air # <<>> /\ air' = Tail(air) /\ UNCHANGED knownIn
  BY DEF LoseFrame, UpwardReceives, ncc
<1>2. \A i \in 1..Len(air') :
        air'[i].kind = "resp" /\ air'[i].mine => air'[i].life \in knownIn'
  BY <1>1, AirShortened
<1>3. CASE UNCHANGED share
  BY <1>1, <1>2, <1>3 DEF ResponsesMeanKnown
<1>4. CASE Shares(Head(air)) /\ UpwardReceives
  <2> DEFINE f == [frame |-> Head(air), gap |-> gap]
  <2>1. f \in SharedFrames /\ share \in Seq(SharedFrames) /\ share' = Append(share, f)
    BY <1>1, <1>4, HeadAir DEF TypeOK, SharedFrames, UpwardReceives
  <2>2. Head(air).kind = "resp" => Head(air).life \in knownIn
    <3>1. 1 \in 1..Len(air) /\ Head(air) = air[1]
      BY <1>1, HeadElement DEF TypeOK
    <3> QED
      BY <1>4, <3>1 DEF Shares, ResponsesMeanKnown
  <2>3. ASSUME NEW i \in 1..Len(share')
        PROVE  share'[i].frame.kind = "resp" => share'[i].frame.life \in knownIn'
    <3>1. (i \in 1..Len(share) /\ share'[i] = share[i]) \/ share'[i] = f
      <4> HIDE DEF f
      <4> QED BY <2>1, <2>3, AppendElement
    <3> QED
      BY <1>1, <2>2, <3>1 DEF ResponsesMeanKnown
  <2> QED
    BY <1>2, <2>3 DEF ResponsesMeanKnown
<1>5. UNCHANGED share \/ (Shares(Head(air)) /\ UpwardReceives)
  BY DEF LoseFrame, UpwardReceives
<1> QED
  BY <1>3, <1>4, <1>5

\* A SOF of another life either shows the restart or is marked as missed.
LEMMA StartOfFrameKnown ==
  TypeOK /\ RunningIsKnown /\ HandleStartOfFrame => RunningIsKnown'
<1> SUFFICES ASSUME TypeOK, RunningIsKnown, HandleStartOfFrame PROVE RunningIsKnown'
  OBVIOUS
<1> DEFINE frame == Head(share).frame
<1>1. UNCHANGED knownIn
  BY DEF HandleStartOfFrame, ncc
<1>2. CASE RebootDetected(frame)
  BY <1>2 DEF RebootDetected, RunningIsKnown
<1>3. CASE SuperFrameBegins(frame)
  <2> SUFFICES ASSUME state' = "running", ~seen'.missed
               PROVE  seen'.life \in knownIn'
    BY DEF RunningIsKnown
  <2>1. /\ seen'.life = frame.life /\ state = "running" /\ ~seen.missed
        /\ ~(seen.life # 0 /\ frame.life # seen.life)
    BY <1>3 DEF TypeOK, SuperFrameBegins
  <2>2. seen.life \in knownIn
    BY <2>1 DEF RunningIsKnown
  <2>3. seen.life # 0
    BY <2>2 DEF TypeOK, Lives
  <2> QED
    BY <1>1, <2>1, <2>2, <2>3
<1> QED
  BY <1>2, <1>3 DEF HandleStartOfFrame

LEMMA NextInv == LogonInv /\ [Next]_vars => LogonInv'
<1> SUFFICES ASSUME LogonInv, [Next]_vars PROVE LogonInv'
  OBVIOUS
<1> USE DEF LogonInv
<1>1. TypeOK'
  BY NextTyped
<1>2. ResponsesMeanKnown' /\ RunningIsKnown'
  <2>1. CASE FrameTimer
    BY <2>1, FrameTimerKnown DEF FrameTimer, RunningIsKnown, downward
  <2>2. CASE HandleLogonReq \/ OtherLogsOn \/ NccRestarts
    <3>1. UNCHANGED <<state, seen>>
      BY <2>2 DEF HandleLogonReq, OtherLogsOn, NccRestarts, downward
    <3> QED
      BY <2>2, <3>1, NccKnown DEF RunningIsKnown
  <2>3. CASE LoseFrame \/ UpwardReceives
    <3>1. UNCHANGED <<state, seen, knownIn>>
      BY <2>3 DEF LoseFrame, UpwardReceives, downward, ncc
    <3> QED
      BY <2>3, <3>1, ArrivalKnown DEF RunningIsKnown
  <2>4. CASE LogonTimer
    BY <2>4 DEF LogonTimer, ResponsesMeanKnown, RunningIsKnown, ncc
  <2>5. CASE HandleStartOfFrame
    <3>1. share # <<>> /\ share' = Tail(share) /\ UNCHANGED <<air, knownIn>>
      BY <2>5 DEF HandleStartOfFrame, Shared, ncc
    <3> QED
      BY <2>5, <3>1, ShareShortened, StartOfFrameKnown
  <2>6. CASE HereIsTtp
    <3>1. share # <<>> /\ share' = Tail(share) /\ UNCHANGED <<air, knownIn, state>>
      BY <2>6 DEF HereIsTtp, Shared, ncc
    <3>2. seen'.life = seen.life /\ seen'.missed = seen.missed
      BY <2>6 DEF HereIsTtp, TypeOK
    <3> QED
      BY <3>1, <3>2, ShareShortened DEF RunningIsKnown
  <2>7. CASE HandleLogonResp
    <3>1. Shared("resp") /\ share' = Tail(share) /\ UNCHANGED <<air, knownIn>>
      BY <2>7 DEF HandleLogonResp, ncc
    <3>2. seen'.life \in knownIn'
      BY <2>7, <3>1, HeadResponseKnown DEF HandleLogonResp
    <3>3. ResponsesMeanKnown'
      BY <3>1, ShareShortened DEF Shared
    <3> QED
      BY <3>2, <3>3 DEF RunningIsKnown
  <2>8. CASE TerminalRestarts
    BY <2>8 DEF TerminalRestarts, ResponsesMeanKnown, RunningIsKnown, ncc
  <2>9. CASE UNCHANGED vars
    BY <2>9 DEF vars, ncc, downward, ResponsesMeanKnown, RunningIsKnown
  <2> QED
    BY <2>1, <2>2, <2>3, <2>4, <2>5, <2>6, <2>7, <2>8, <2>9 DEF Next, Downward
<1> QED
  BY <1>1, <1>2

\* A terminal that runs has a context in the NCC whose frames it takes, unless
\* a restart of the NCC did not show (TerminalLogon.RunningIsKnown).
THEOREM RunningTerminalKnown == Spec => []RunningIsKnown
<1>1. LogonInv => RunningIsKnown
  BY DEF LogonInv
<1> QED
  BY <1>1, InitInv, NextInv, PTL DEF Spec

-----------------------------------------------------------------------------
(* Superframes follow one another: what the terminal still has to handle, seen *)
(* as one stream from the SOF it handled last to the one the NCC sends next.   *)

LastSof ==
  IF seen.sofLost THEN [kind |-> "none"]
  ELSE [kind |-> "sof", life |-> seen.life, sf |-> counter]
SofToCome == [kind |-> "sof", life |-> life, sf |-> NextNumber(sf)]

Ahead == Len(share) + Len(air) + 1

\* What is shared, what is on the link, and what comes next; a gap g is in front of
\* the first frame that is not shared yet.
StreamOf(shared, link, last, next, g) ==
  [k \in 0..(Len(shared) + Len(link) + 1) |->
     IF k = 0 THEN [frame |-> last, gap |-> FALSE]
     ELSE IF k <= Len(shared) THEN shared[k]
     ELSE [frame |-> IF k <= Len(shared) + Len(link) THEN link[k - Len(shared)] ELSE next,
           gap |-> g /\ k = Len(shared) + 1]]

Stream == StreamOf(share, air, LastSof, SofToCome, gap)

IsSof(s, k) == s[k].frame.kind = "sof"

\* What may come after a SOF with no other SOF in between.
Follows(f, g) ==
  /\ g.kind = "sof" /\ g.life = f.life => g.sf = NextNumber(f.sf)
  /\ g.kind = "ttp" => g.life = f.life /\ g.sf = f.sf

\* In a stream s up to n: where no SOF is missing each frame follows the SOF before.
Chained(s, n) ==
  \A i, j \in 0..n :
    /\ i < j
    /\ IsSof(s, i)
    /\ \A k \in (i + 1)..(j - 1) : ~IsSof(s, k)
    /\ \A k \in (i + 1)..j : ~s[k].gap
    => Follows(s[i].frame, s[j].frame)

\* No SOF is of a life to come.
LivesBegun(s, n, l) == \A k \in 0..n : IsSof(s, k) => s[k].frame.life \in 1..l

GrantIsOfLastSof ==
  ~seen.sofLost /\ allocated.kb > 0 => allocated.life = seen.life /\ allocated.sf = counter

StreamInv ==
  /\ Chained(Stream, Ahead)
  /\ LivesBegun(Stream, Ahead, life)
  /\ ~upRunning => share = <<>> /\ seen.sofLost
  /\ GrantIsOfLastSof

\* The place, in a stream, of what is at k once d is taken out.
Before(d, k) == IF k < d THEN k ELSE k + 1

LEMMA BeforeInStream ==
  ASSUME NEW n \in Nat, NEW d \in 0..n, NEW k \in 0..n
  PROVE  Before(d, k) \in 0..(n + 1)
BY DEF Before

\* A frame is taken out.  If it was a SOF, or had a gap in front, a gap is left,
\* unless no SOF is before it.
LEMMA TakenOut ==
  ASSUME NEW n \in Nat, NEW s, NEW t, NEW d \in 0..n, Chained(s, n + 1),
         t[0].frame = s[Before(d, 0)].frame \/ ~IsSof(t, 0),
         \A k \in 1..n : t[k].frame = s[Before(d, k)].frame,
         \A k \in 1..n : ~t[k].gap => ~s[Before(d, k)].gap,
         \/ ~t[d].gap => ~s[d].gap /\ ~IsSof(s, d)
         \/ \A k \in 0..(d - 1) : ~IsSof(t, k)
  PROVE  Chained(t, n)
<1> SUFFICES ASSUME NEW i \in 0..n, NEW j \in 0..n, i < j, IsSof(t, i),
                    \A k \in (i + 1)..(j - 1) : ~IsSof(t, k),
                    \A k \in (i + 1)..j : ~t[k].gap
             PROVE  Follows(t[i].frame, t[j].frame)
  BY DEF Chained
<1> DEFINE a == Before(d, i)
           b == Before(d, j)
<1>1. a \in 0..(n + 1) /\ b \in 0..(n + 1) /\ a < b
  BY DEF Before
<1>2. t[i].frame = s[a].frame /\ t[j].frame = s[b].frame /\ IsSof(s, a)
  <2>1. t[i].frame = s[a].frame
    <3>1. CASE i = 0
      BY <3>1
    <3>2. CASE i # 0
      BY <3>2
    <3> QED
      BY <3>1, <3>2
  <2>2. j \in 1..n
    OBVIOUS
  <2>3. t[j].frame = s[b].frame
    BY <2>2
  <2> QED
    BY <2>1, <2>3 DEF IsSof
<1>3. ASSUME NEW k \in (a + 1)..b
      PROVE  ~s[k].gap /\ (k # b => ~IsSof(s, k))
  <2>1. CASE k < d
    <3>1. k \in 1..n /\ k \in (i + 1)..j /\ (k # b => k \in (i + 1)..(j - 1)) /\ Before(d, k) = k
      BY <2>1 DEF Before
    <3> QED
      BY <3>1 DEF IsSof
  <2>2. CASE k > d
    <3>1. /\ k - 1 \in 1..n /\ k - 1 \in (i + 1)..j /\ Before(d, k - 1) = k
          /\ k # b => k - 1 \in (i + 1)..(j - 1)
      BY <2>2 DEF Before
    <3> QED
      BY <3>1 DEF IsSof
  <2>3. CASE k = d
    <3>1. i < d /\ d \in (i + 1)..j
      BY <2>3 DEF Before
    <3>2. ~t[d].gap /\ i \in 0..(d - 1)
      BY <3>1
    <3> QED
      BY <2>3, <3>2
  <2> QED
    BY <2>1, <2>2, <2>3
<1>4. (a + 1)..(b - 1) \subseteq (a + 1)..b /\ \A k \in (a + 1)..(b - 1) : k # b
  BY <1>1
<1> HIDE DEF a, b
<1> QED
  BY <1>1, <1>2, <1>3, <1>4 DEF Chained

\* The end of a stream, after no SOF.
LEMMA EndOfStream ==
  ASSUME NEW n \in Nat, NEW m \in Nat, NEW s, NEW t, Chained(s, n + m),
         ~IsSof(t, 0),
         \A k \in 1..n : t[k].frame = s[k + m].frame,
         \A k \in 2..n : ~t[k].gap => ~s[k + m].gap
  PROVE  Chained(t, n)
<1> SUFFICES ASSUME NEW i \in 0..n, NEW j \in 0..n, i < j, IsSof(t, i),
                    \A k \in (i + 1)..(j - 1) : ~IsSof(t, k),
                    \A k \in (i + 1)..j : ~t[k].gap
             PROVE  Follows(t[i].frame, t[j].frame)
  BY DEF Chained
<1>1. i \in 1..n /\ j \in 1..n
  BY DEF IsSof
<1>2. i + m \in 0..(n + m) /\ j + m \in 0..(n + m) /\ i + m < j + m
  BY <1>1
<1>3. t[i].frame = s[i + m].frame /\ t[j].frame = s[j + m].frame /\ IsSof(s, i + m)
  BY <1>1 DEF IsSof
<1>4. ASSUME NEW k \in (i + m + 1)..(j + m)
      PROVE  ~s[k].gap /\ (k # j + m => ~IsSof(s, k))
  <2>1. /\ k - m \in 2..n /\ k - m \in 1..n /\ k - m \in (i + 1)..j /\ (k - m) + m = k
        /\ k # j + m => k - m \in (i + 1)..(j - 1)
    BY <1>1
  <2> QED
    BY <2>1 DEF IsSof
<1>5. \A k \in (i + m + 1)..(j + m - 1) : k \in (i + m + 1)..(j + m) /\ k # j + m
  BY <1>2
<1> QED
  BY <1>2, <1>3, <1>4, <1>5 DEF Chained

\* The next superframe: its TTP, and the SOF after.
LEMMA NextSuperFrame ==
  ASSUME NEW n \in Nat, NEW s, NEW t, Chained(s, n),
         \A k \in 0..n : t[k].frame = s[k].frame,
         \A k \in 1..n : ~t[k].gap => ~s[k].gap,
         IsSof(t, n),
         t[n + 1].frame.kind = "ttp",
         t[n + 1].frame.life = t[n].frame.life, t[n + 1].frame.sf = t[n].frame.sf,
         t[n + 2].frame.kind = "sof",
         t[n + 2].frame.sf = NextNumber(t[n].frame.sf)
  PROVE  Chained(t, n + 2)
<1> SUFFICES ASSUME NEW i \in 0..(n + 2), NEW j \in 0..(n + 2), i < j, IsSof(t, i),
                    \A k \in (i + 1)..(j - 1) : ~IsSof(t, k),
                    \A k \in (i + 1)..j : ~t[k].gap
             PROVE  Follows(t[i].frame, t[j].frame)
  BY DEF Chained
<1>1. CASE j <= n
  <2>1. i \in 0..n /\ j \in 0..n
    BY <1>1
  <2>2. \A k \in (i + 1)..j : k \in 1..n /\ ~s[k].gap
    BY <2>1
  <2>3. \A k \in (i + 1)..(j - 1) : k \in 0..n /\ ~IsSof(s, k)
    BY <2>1 DEF IsSof
  <2>4. t[i].frame = s[i].frame /\ t[j].frame = s[j].frame
    BY <2>1
  <2> QED
    BY <2>1, <2>2, <2>3, <2>4 DEF Chained, IsSof
<1>2. CASE j > n
  <2>1. i >= n
    <3> SUFFICES ASSUME i < n PROVE FALSE
      OBVIOUS
    <3>1. n \in (i + 1)..(j - 1)
      BY <1>2
    <3> QED
      BY <3>1
  <2>2. i # n + 1
    BY DEF IsSof
  <2>3. i = n /\ (j = n + 1 \/ j = n + 2)
    BY <1>2, <2>1, <2>2
  <2> QED
    BY <2>3 DEF Follows
<1> QED
  BY <1>1, <1>2

\* A response goes on the link, in front of the SOF to come.
LEMMA ResponseSent ==
  ASSUME NEW n \in Nat, NEW s, NEW t, Chained(s, n),
         \A k \in 0..(n - 1) : t[k].frame = s[k].frame,
         \A k \in 1..n : ~t[k].gap => ~s[k].gap,
         t[n].frame.kind = "resp",
         t[n + 1].frame = s[n].frame
  PROVE  Chained(t, n + 1)
<1> SUFFICES ASSUME NEW i \in 0..(n + 1), NEW j \in 0..(n + 1), i < j, IsSof(t, i),
                    \A k \in (i + 1)..(j - 1) : ~IsSof(t, k),
                    \A k \in (i + 1)..j : ~t[k].gap
             PROVE  Follows(t[i].frame, t[j].frame)
  BY DEF Chained
<1>1. i \in 0..(n - 1) /\ IsSof(s, i)
  BY DEF IsSof
<1>2. CASE j = n
  BY <1>2 DEF Follows
<1> DEFINE b == IF j = n + 1 THEN n ELSE j
<1>3. CASE j # n
  <2>1. b \in 0..n /\ i < b /\ b <= j
    BY <1>1
  <2>2. t[j].frame = s[b].frame
    BY <1>3
  <2>3. \A k \in (i + 1)..b : ~s[k].gap
    BY <2>1
  <2>4. \A k \in (i + 1)..(b - 1) : k \in (i + 1)..(j - 1) /\ k \in 0..(n - 1)
    BY <2>1
  <2>5. \A k \in (i + 1)..(b - 1) : ~IsSof(s, k)
    BY <2>4 DEF IsSof
  <2>6. t[i].frame = s[i].frame
    BY <1>1
  <2> HIDE DEF b
  <2> QED
    BY <1>1, <2>1, <2>2, <2>3, <2>5, <2>6 DEF Chained
<1> QED
  BY <1>2, <1>3

\* The NCC starts again: the SOF to come is of another life.
LEMMA LifeBegins ==
  ASSUME NEW n \in Nat, NEW s, NEW t, NEW l \in Nat, Chained(s, n), LivesBegun(s, n, l),
         \A k \in 0..(n - 1) : t[k].frame = s[k].frame,
         \A k \in 1..n : ~t[k].gap => ~s[k].gap,
         t[n].frame.kind = "sof", t[n].frame.life = l + 1
  PROVE  Chained(t, n) /\ LivesBegun(t, n, l + 1)
<1>1. ASSUME NEW i \in 0..n, NEW j \in 0..n, i < j, IsSof(t, i),
             \A k \in (i + 1)..(j - 1) : ~IsSof(t, k),
             \A k \in (i + 1)..j : ~t[k].gap
      PROVE  Follows(t[i].frame, t[j].frame)
  <2>1. i \in 0..(n - 1) /\ t[i].frame = s[i].frame /\ IsSof(s, i)
    BY <1>1 DEF IsSof
  <2>2. CASE j = n
    <3>1. s[i].frame.life \in 1..l
      BY <2>1 DEF LivesBegun
    <3>2. t[i].frame.life # t[j].frame.life
      BY <2>1, <2>2, <3>1
    <3> QED
      BY <2>2, <3>2 DEF Follows
  <2>3. CASE j # n
    <3>1. j \in 0..(n - 1) /\ t[j].frame = s[j].frame
      BY <2>3
    <3>2. \A k \in (i + 1)..j : ~s[k].gap
      BY <1>1
    <3>3. \A k \in (i + 1)..(j - 1) : ~IsSof(s, k)
      BY <1>1, <3>1 DEF IsSof
    <3> QED
      BY <1>1, <2>1, <3>1, <3>2, <3>3 DEF Chained
  <2> QED
    BY <2>2, <2>3
<1>2. ASSUME NEW k \in 0..n, IsSof(t, k)
      PROVE  t[k].frame.life \in 1..(l + 1)
  <2>1. CASE k = n
    BY <2>1
  <2>2. CASE k # n
    <3>1. t[k].frame = s[k].frame /\ IsSof(s, k)
      BY <1>2, <2>2 DEF IsSof
    <3>2. s[k].frame.life \in 1..l
      BY <3>1 DEF LivesBegun
    <3> QED
      BY <3>1, <3>2
  <2> QED
    BY <2>1, <2>2
<1> QED
  BY <1>1, <1>2 DEF Chained, LivesBegun

LEMMA StreamDomain ==
  ASSUME TypeOK
  PROVE  /\ Len(share) \in Nat /\ Len(air) \in Nat /\ Ahead \in Nat /\ Ahead # 0
         /\ Ahead = Len(share) + Len(air) + 1
         /\ life \in 1..life /\ life \in Nat
BY LenProperties DEF TypeOK, Ahead, Lives

\* What is at each place of a stream.
LEMMA StreamOfPlaces ==
  ASSUME NEW S, NEW shared \in Seq(S), NEW T, NEW link \in Seq(T),
         NEW last, NEW next, NEW g \in BOOLEAN, NEW s, s = StreamOf(shared, link, last, next, g)
  PROVE  /\ s[0].frame = last
         /\ \A k \in 1..Len(shared) : s[k] = shared[k]
         /\ \A j \in 1..Len(link) : s[Len(shared) + j].frame = link[j]
         /\ s[Len(shared) + Len(link) + 1].frame = next
         /\ \A k \in (Len(shared) + 1)..(Len(shared) + Len(link) + 1) :
              s[k].gap <=> g /\ k = Len(shared) + 1
<1> DEFINE n == Len(shared)
           m == Len(link)
<1>1. n \in Nat /\ m \in Nat
  BY LenProperties
<1>2. s = [k \in 0..(n + m + 1) |->
             IF k = 0 THEN [frame |-> last, gap |-> FALSE]
             ELSE IF k <= n THEN shared[k]
             ELSE [frame |-> IF k <= n + m THEN link[k - n] ELSE next, gap |-> g /\ k = n + 1]]
  BY DEF StreamOf
<1> HIDE DEF n, m
<1>3. s[0].frame = last
  <2>1. 0 \in 0..(n + m + 1)
    BY <1>1
  <2>2. s[0] = [frame |-> last, gap |-> FALSE]
    BY <1>2, <2>1
  <2> QED
    BY <2>2
<1>4. \A k \in 1..n : s[k] = shared[k]
  BY <1>1, <1>2
<1>5. ASSUME NEW k \in (n + 1)..(n + m + 1)
      PROVE  s[k] = [frame |-> IF k <= n + m THEN link[k - n] ELSE next, gap |-> g /\ k = n + 1]
  <2>1. k \in 0..(n + m + 1) /\ k # 0 /\ ~(k <= n)
    BY <1>1
  <2> QED
    BY <1>2, <2>1
<1>6. ASSUME NEW j \in 1..m
      PROVE  s[n + j].frame = link[j]
  <2>1. n + j \in (n + 1)..(n + m + 1) /\ n + j <= n + m /\ (n + j) - n = j
    BY <1>1
  <2>2. s[n + j] = [frame |-> IF n + j <= n + m THEN link[(n + j) - n] ELSE next,
                    gap |-> g /\ n + j = n + 1]
    BY <1>5, <2>1
  <2> QED
    BY <2>1, <2>2
<1>7. s[n + m + 1].frame = next
  <2>1. n + m + 1 \in (n + 1)..(n + m + 1) /\ ~(n + m + 1 <= n + m)
    BY <1>1
  <2>2. s[n + m + 1] = [frame |-> IF n + m + 1 <= n + m THEN link[(n + m + 1) - n] ELSE next,
                        gap |-> g /\ n + m + 1 = n + 1]
    BY <1>5, <2>1
  <2> QED
    BY <2>1, <2>2
<1>8. \A k \in (n + 1)..(n + m + 1) : s[k].gap <=> g /\ k = n + 1
  <2> TAKE k \in (n + 1)..(n + m + 1)
  <2>1. s[k] = [frame |-> IF k <= n + m THEN link[k - n] ELSE next, gap |-> g /\ k = n + 1]
    BY <1>5
  <2>2. s[k].gap = (g /\ k = n + 1)
    BY <2>1
  <2> QED
    BY <2>2
<1> QED
  BY <1>3, <1>4, <1>6, <1>7, <1>8 DEF n, m

LEMMA StreamPlaces ==
  ASSUME TypeOK
  PROVE  /\ Stream[0].frame = LastSof
         /\ \A k \in 1..Len(share) : Stream[k] = share[k]
         /\ \A j \in 1..Len(air) : Stream[Len(share) + j].frame = air[j]
         /\ Stream[Ahead].frame = SofToCome
         /\ \A k \in (Len(share) + 1)..Ahead : Stream[k].gap <=> gap /\ k = Len(share) + 1
<1>1. share \in Seq(SharedFrames) /\ air \in Seq(Frames) /\ gap \in BOOLEAN
  BY DEF TypeOK, SharedFrames
<1>2. Stream = StreamOf(share, air, LastSof, SofToCome, gap)
  BY DEF Stream
<1> QED
  BY <1>1, <1>2, StreamOfPlaces DEF Ahead

\* The same after a step.
LEMMA StreamPlacesNext ==
  ASSUME TypeOK'
  PROVE  /\ Stream'[0].frame = LastSof'
         /\ \A k \in 1..Len(share') : Stream'[k] = share'[k]
         /\ \A j \in 1..Len(air') : Stream'[Len(share') + j].frame = air'[j]
         /\ Stream'[Ahead'].frame = SofToCome'
         /\ \A k \in (Len(share') + 1)..Ahead' : Stream'[k].gap <=> gap' /\ k = Len(share') + 1
<1>1. share' \in Seq(SharedFrames) /\ air' \in Seq(Frames) /\ gap' \in BOOLEAN
  BY DEF TypeOK, SharedFrames, Frames, Sof, Ttp, LogonResponse, Lives, Numbers
<1>2. Stream' = StreamOf(share', air', LastSof', SofToCome', gap')
  BY DEF Stream, StreamOf
<1> QED
  BY <1>1, <1>2, StreamOfPlaces DEF Ahead

LEMMA UpByOne ==
  ASSUME NEW m \in Nat, NEW l \in Nat, l = m + 1, NEW n \in Nat, NEW p \in Nat, p = n + 1,
         NEW k \in (m + 1)..n
  PROVE  k + 1 \in (l + 1)..p /\ (k = m + 1 <=> k + 1 = l + 1)
OBVIOUS

\* The downward channel takes a frame: the stream is shorter by the frame after
\* the last SOF.
LEMMA ShareTaken ==
  ASSUME TypeOK, TypeOK', share # <<>>, share' = Tail(share), UNCHANGED <<air, gap, life, sf>>
  PROVE  /\ Ahead' \in Nat /\ Ahead = Ahead' + 1
         /\ \A k \in 1..Ahead' : /\ Stream'[k].frame = Stream[k + 1].frame
                                 /\ Stream'[k].gap <=> Stream[k + 1].gap
         /\ Stream[1] = Head(share)
<1>1. /\ Len(share) \in Nat /\ Len(air) \in Nat /\ Ahead \in Nat
      /\ Ahead = Len(share) + Len(air) + 1
  BY StreamDomain
<1>2. share \in Seq(SharedFrames)
  BY DEF TypeOK, SharedFrames
<1>3. Len(share') = Len(share) - 1 /\ 1 \in 1..Len(share) /\ Head(share) = share[1]
  BY <1>2, HeadTailProperties, HeadElement
<1>4. Ahead' = Len(share') + Len(air) + 1
  BY DEF Ahead
<1>5. ASSUME NEW k \in 1..Ahead'
      PROVE  Stream'[k].frame = Stream[k + 1].frame /\ (Stream'[k].gap <=> Stream[k + 1].gap)
  <2>1. CASE k \in 1..Len(share')
    <3>1. k + 1 \in 1..Len(share) /\ share'[k] = share[k + 1]
      BY <1>2, <2>1, TailElement
    <3>2. Stream'[k] = Stream[k + 1]
      BY <2>1, <3>1, StreamPlaces, StreamPlacesNext
    <3> QED
      BY <3>2
  <2>2. CASE k \in (Len(share') + 1)..Ahead'
    <3>1. /\ k + 1 \in (Len(share) + 1)..Ahead
          /\ (k = Len(share') + 1) <=> (k + 1 = Len(share) + 1)
      <4> DEFINE m == Len(share')
                 l == Len(share)
                 n == Ahead'
                 p == Ahead
      <4>1. /\ m \in Nat /\ l \in Nat /\ l = m + 1 /\ n \in Nat /\ p \in Nat /\ p = n + 1
            /\ k \in (m + 1)..n
        BY <1>1, <1>3, <1>4, <2>2
      <4> HIDE DEF m, l, n, p
      <4>2. k + 1 \in (l + 1)..p /\ (k = m + 1 <=> k + 1 = l + 1)
        BY <4>1, UpByOne
      <4> QED
        BY <4>2 DEF m, l, n, p
    <3>2. Stream'[k].gap <=> Stream[k + 1].gap
      BY <2>2, <3>1, StreamPlaces, StreamPlacesNext
    <3>3. Stream'[k].frame = Stream[k + 1].frame
      <4>1. CASE k = Ahead'
        <5>1. SofToCome' = SofToCome /\ k + 1 = Ahead
          BY <1>1, <1>3, <1>4, <4>1 DEF SofToCome
        <5> QED
          BY <4>1, <5>1, StreamPlaces, StreamPlacesNext
      <4>2. CASE k # Ahead'
        <5> DEFINE j == k - Len(share')
        <5>1. j \in 1..Len(air) /\ k = Len(share') + j /\ k + 1 = Len(share) + j
          BY <1>1, <1>3, <1>4, <2>2, <4>2
        <5> HIDE DEF j
        <5>2. Stream'[Len(share') + j].frame = air[j] /\ Stream[Len(share) + j].frame = air[j]
          BY <5>1, StreamPlaces, StreamPlacesNext
        <5> QED
          BY <5>1, <5>2
      <4> QED
        BY <4>1, <4>2
    <3> QED
      BY <3>2, <3>3
  <2> QED
    BY <1>1, <1>3, <1>4, <2>1, <2>2
<1>6. Stream[1] = Head(share)
  BY <1>3, StreamPlaces
<1> QED
  BY <1>1, <1>3, <1>4, <1>5, <1>6

\* A frame leaves the link without being shared: what is behind moves up.
LEMMA AirTaken ==
  ASSUME TypeOK, TypeOK', air # <<>>, air' = Tail(air),
         UNCHANGED <<share, life, sf, seen, counter>>
  PROVE  /\ Ahead' \in Nat /\ Ahead = Ahead' + 1
         /\ Len(share) + 1 \in 1..Ahead'
         /\ \A k \in 0..Ahead' : Stream'[k].frame = Stream[Before(Len(share) + 1, k)].frame
         /\ \A k \in 1..Ahead' : ~Stream'[k].gap => ~Stream[Before(Len(share) + 1, k)].gap
         /\ Stream'[Len(share) + 1].gap <=> gap'
         /\ Stream[Len(share) + 1].gap <=> gap
         /\ Stream[Len(share) + 1].frame = Head(air)
<1> DEFINE d == Len(share) + 1
<1>1. /\ Len(share) \in Nat /\ Len(air) \in Nat /\ Ahead \in Nat
      /\ Ahead = Len(share) + Len(air) + 1
  BY StreamDomain
<1>2. air \in Seq(Frames) /\ gap \in BOOLEAN /\ gap' \in BOOLEAN
  BY DEF TypeOK
<1>3. Len(air') = Len(air) - 1 /\ 1 \in 1..Len(air) /\ Head(air) = air[1]
  BY <1>2, HeadTailProperties, HeadElement
<1>4. Ahead' = Len(share) + Len(air') + 1
  BY DEF Ahead
<1>5. SofToCome' = SofToCome /\ LastSof' = LastSof
  BY DEF SofToCome, LastSof
<1>6. ASSUME NEW k \in 1..Len(share)
      PROVE  Before(d, k) = k /\ Stream'[k] = Stream[k]
  BY <1>1, StreamPlaces, StreamPlacesNext DEF Before
<1>7. ASSUME NEW k \in d..Ahead'
      PROVE  /\ Before(d, k) = k + 1
             /\ Stream'[k].frame = Stream[k + 1].frame
             /\ ~Stream[k + 1].gap
  <2>1. Before(d, k) = k + 1 /\ k + 1 \in d..Ahead /\ k + 1 # d
    BY <1>1, <1>3, <1>4 DEF Before
  <2>2. ~Stream[k + 1].gap
    BY <2>1, StreamPlaces
  <2>3. CASE k = Ahead'
    <3>1. k + 1 = Ahead
      BY <1>1, <1>3, <1>4, <2>3
    <3> QED
      BY <1>5, <2>1, <2>2, <2>3, <3>1, StreamPlaces, StreamPlacesNext
  <2>4. CASE k # Ahead'
    <3> DEFINE j == k - Len(share)
    <3>1. j \in 1..Len(air') /\ k = Len(share) + j /\ k + 1 = Len(share) + (j + 1)
      BY <1>1, <1>3, <1>4, <2>4
    <3> HIDE DEF j
    <3>2. j + 1 \in 1..Len(air) /\ air'[j] = air[j + 1]
      BY <1>2, <3>1, TailElement
    <3>3. Stream'[Len(share) + j].frame = air'[j]
      BY <3>1, StreamPlacesNext
    <3>4. Stream[Len(share) + (j + 1)].frame = air[j + 1]
      BY <3>2, StreamPlaces
    <3> QED
      BY <2>1, <2>2, <3>1, <3>2, <3>3, <3>4
  <2> QED
    BY <2>3, <2>4
<1>8. \A k \in 0..Ahead' : k = 0 \/ k \in 1..Len(share) \/ k \in d..Ahead'
  BY <1>1, <1>3, <1>4
<1>9. Before(d, 0) = 0 /\ Stream'[0].frame = Stream[0].frame
  BY <1>1, <1>5, StreamPlaces, StreamPlacesNext DEF Before
<1>10. d \in 1..Ahead' /\ d \in d..Ahead' /\ d \in d..Ahead
  BY <1>1, <1>3, <1>4
<1>11. (Stream'[d].gap <=> gap') /\ (Stream[d].gap <=> gap)
  BY <1>10, StreamPlaces, StreamPlacesNext
<1>12. Stream[d].frame = Head(air)
  BY <1>3, StreamPlaces
<1>13. \A k \in 0..Ahead' : Stream'[k].frame = Stream[Before(d, k)].frame
  BY <1>6, <1>7, <1>8, <1>9
<1>14. \A k \in 1..Ahead' : ~Stream'[k].gap => ~Stream[Before(d, k)].gap
  <2> TAKE k \in 1..Ahead'
  <2>1. k \in 1..Len(share) \/ k \in d..Ahead'
    BY <1>1, <1>3, <1>4
  <2> QED
    BY <1>6, <1>7, <2>1
<1> QED
  BY <1>1, <1>3, <1>4, <1>10, <1>11, <1>12, <1>13, <1>14

\* A frame that is shared keeps its place in the stream, and its gap.
LEMMA AirShared ==
  ASSUME TypeOK, TypeOK', air # <<>>, air' = Tail(air), gap' = FALSE,
         share' = Append(share, [frame |-> Head(air), gap |-> gap]),
         UNCHANGED <<life, sf, seen, counter>>
  PROVE  /\ Ahead' = Ahead
         /\ \A k \in 0..Ahead : Stream'[k].frame = Stream[k].frame
         /\ \A k \in 1..Ahead : Stream'[k].gap <=> Stream[k].gap
<1> DEFINE d == Len(share) + 1
<1>1. /\ Len(share) \in Nat /\ Len(air) \in Nat /\ Ahead \in Nat
      /\ Ahead = Len(share) + Len(air) + 1
  BY StreamDomain
<1>2. air \in Seq(Frames) /\ gap \in BOOLEAN /\ share \in Seq(SharedFrames)
  BY DEF TypeOK, SharedFrames
<1>3. Len(air') = Len(air) - 1 /\ 1 \in 1..Len(air) /\ Head(air) = air[1]
  BY <1>2, HeadTailProperties, HeadElement
<1>4. [frame |-> Head(air), gap |-> gap] \in SharedFrames
  BY <1>2, HeadAir DEF SharedFrames
<1>5. /\ Len(share') = d
      /\ \A k \in 1..Len(share) : share'[k] = share[k]
      /\ share'[d] = [frame |-> Head(air), gap |-> gap]
  BY <1>2, <1>4, AppendProperties
<1>6. Ahead' = Ahead
  BY <1>1, <1>3, <1>5 DEF Ahead
<1>7. SofToCome' = SofToCome /\ LastSof' = LastSof
  BY DEF SofToCome, LastSof
<1>8. Stream'[0].frame = Stream[0].frame
  BY <1>7, StreamPlaces, StreamPlacesNext
<1>9. ASSUME NEW k \in 1..Ahead
      PROVE  Stream'[k].frame = Stream[k].frame /\ (Stream'[k].gap <=> Stream[k].gap)
  <2>1. CASE k \in 1..Len(share)
    <3>1. k \in 1..Len(share') /\ Stream'[k] = share'[k] /\ Stream[k] = share[k]
      BY <1>1, <1>5, <2>1, StreamPlaces, StreamPlacesNext
    <3> QED
      BY <1>5, <2>1, <3>1
  <2>2. CASE k = d
    <3>1. d \in 1..Len(share') /\ d \in d..Ahead /\ d = Len(share) + 1
      BY <1>1, <1>3, <1>5
    <3>2. Stream'[k] = [frame |-> Head(air), gap |-> gap]
      BY <1>5, <2>2, <3>1, StreamPlacesNext
    <3>3. Stream[k].frame = air[1] /\ (Stream[k].gap <=> gap)
      BY <1>3, <2>2, <3>1, StreamPlaces
    <3> QED
      BY <1>3, <3>2, <3>3
  <2>3. CASE k \in (d + 1)..Ahead
    <3>1. k \in (Len(share') + 1)..Ahead' /\ k \in d..Ahead /\ k # d
      BY <1>1, <1>5, <1>6, <2>3
    <3>2. ~Stream'[k].gap /\ ~Stream[k].gap
      BY <3>1, StreamPlaces, StreamPlacesNext
    <3>3. CASE k = Ahead
      BY <1>6, <1>7, <3>2, <3>3, StreamPlaces, StreamPlacesNext
    <3>4. CASE k # Ahead
      <4> DEFINE j == k - d
      <4>1. j \in 1..Len(air') /\ k = Len(share') + j /\ k = Len(share) + (j + 1)
        BY <1>1, <1>3, <1>5, <2>3, <3>4
      <4> HIDE DEF j
      <4>2. j + 1 \in 1..Len(air) /\ air'[j] = air[j + 1]
        BY <1>2, <4>1, TailElement
      <4>3. Stream'[Len(share') + j].frame = air'[j]
        BY <4>1, StreamPlacesNext
      <4>4. Stream[Len(share) + (j + 1)].frame = air[j + 1]
        BY <4>2, StreamPlaces
      <4> QED
        BY <3>2, <4>1, <4>2, <4>3, <4>4
    <3> QED
      BY <3>3, <3>4
  <2> QED
    BY <1>1, <2>1, <2>2, <2>3
<1>10. \A k \in 0..Ahead : k = 0 \/ k \in 1..Ahead
  BY <1>1
<1> QED
  BY <1>6, <1>8, <1>9, <1>10

LEMMA LivesKept ==
  ASSUME NEW n \in Nat, NEW m \in Nat, NEW s, NEW t, NEW l, LivesBegun(s, m, l),
         \A k \in 0..n : ~IsSof(t, k) \/ \E p \in 0..m : t[k].frame = s[p].frame
  PROVE  LivesBegun(t, n, l)
BY DEF LivesBegun, IsSof

-----------------------------------------------------------------------------
(* The stream is kept by every step. *)

LEMMA InitStream == Init => StreamInv
<1> SUFFICES ASSUME Init PROVE StreamInv
  OBVIOUS
<1>1. TypeOK
  BY InitTyped
<1>2. share = <<>> /\ air = <<>> /\ seen.sofLost
  BY DEF Init, Unseen
<1>3. Ahead = 1
  BY <1>2 DEF Ahead
<1>4. /\ Stream[0].frame = LastSof /\ Stream[1].frame = SofToCome
      /\ LastSof.kind = "none" /\ SofToCome.life = life
  BY <1>1, <1>2, <1>3, StreamPlaces DEF LastSof, SofToCome
<1>5. Chained(Stream, Ahead)
  BY <1>3, <1>4 DEF Chained, IsSof
<1>6. LivesBegun(Stream, Ahead, life)
  BY <1>1, <1>3, <1>4, StreamDomain DEF LivesBegun, IsSof
<1> QED
  BY <1>2, <1>5, <1>6 DEF StreamInv, GrantIsOfLastSof

LEMMA FrameTimerStream == TypeOK /\ TypeOK' /\ StreamInv /\ FrameTimer => StreamInv'
<1> SUFFICES ASSUME TypeOK, TypeOK', StreamInv, FrameTimer PROVE StreamInv'
  OBVIOUS
<1>1. /\ Len(share) \in Nat /\ Len(air) \in Nat /\ Ahead \in Nat
      /\ Ahead = Len(share) + Len(air) + 1
  BY StreamDomain
<1>2. UNCHANGED <<life, share, gap, upRunning, allocated, seen, counter>> /\ sf' = NextNumber(sf)
  BY DEF FrameTimer, upward, downward
<1> DEFINE sof == [kind |-> "sof", life |-> life, sf |-> NextNumber(sf)]
<1>3. PICK ttp : /\ air' = air \o <<sof, ttp>>
                 /\ ttp.kind = "ttp" /\ ttp.life = life /\ ttp.sf = NextNumber(sf)
  <2>1. PICK kb : air' = air \o << [kind |-> "sof", life |-> life, sf |-> sf'],
                                   [kind |-> "ttp", life |-> life, sf |-> sf', kb |-> kb] >>
    BY DEF FrameTimer
  <2> DEFINE f == [kind |-> "ttp", life |-> life, sf |-> NextNumber(sf), kb |-> kb]
  <2>2. air' = air \o <<sof, f>>
    BY <1>2, <2>1
  <2>3. f.kind = "ttp" /\ f.life = life /\ f.sf = NextNumber(sf)
    OBVIOUS
  <2> QED
    BY <2>2, <2>3
<1>4. /\ air \in Seq(Frames)
      /\ Len(air') = Len(air) + 2
      /\ \A j \in 1..Len(air) : air'[j] = air[j]
      /\ air'[Len(air) + 1] = sof
      /\ air'[Len(air) + 2] = ttp
  BY <1>3 DEF TypeOK
<1>5. Ahead' = Ahead + 2 /\ LastSof' = LastSof /\ SofToCome = sof
  BY <1>1, <1>2, <1>4 DEF Ahead, LastSof, SofToCome
<1>6. ASSUME NEW k \in 0..Ahead
      PROVE  Stream'[k].frame = Stream[k].frame
  <2>1. CASE k = 0
    BY <1>5, <2>1, StreamPlaces, StreamPlacesNext
  <2>2. CASE k \in 1..Len(share)
    BY <1>2, <2>2, StreamPlaces, StreamPlacesNext
  <2>3. CASE k = Ahead
    <3>1. Ahead = Len(share) + (Len(air) + 1) /\ Len(air) + 1 \in 1..Len(air')
      BY <1>1, <1>4
    <3>2. Stream'[Len(share') + (Len(air) + 1)].frame = air'[Len(air) + 1]
      BY <3>1, StreamPlacesNext
    <3> QED
      BY <1>2, <1>4, <1>5, <2>3, <3>1, <3>2, StreamPlaces
  <2>4. CASE k \in (Len(share) + 1)..(Ahead - 1)
    <3> DEFINE j == k - Len(share)
    <3>1. j \in 1..Len(air) /\ j \in 1..Len(air') /\ k = Len(share) + j
      BY <1>1, <1>4, <2>4
    <3> HIDE DEF j
    <3>2. Stream[Len(share) + j].frame = air[j] /\ Stream'[Len(share') + j].frame = air'[j]
      BY <3>1, StreamPlaces, StreamPlacesNext
    <3> QED
      BY <1>2, <1>4, <3>1, <3>2
  <2> QED
    BY <1>1, <2>1, <2>2, <2>3, <2>4
<1>7. ASSUME NEW k \in 1..Ahead
      PROVE  Stream'[k].gap <=> Stream[k].gap
  <2>1. CASE k \in 1..Len(share)
    BY <1>2, <2>1, StreamPlaces, StreamPlacesNext
  <2>2. CASE k \in (Len(share) + 1)..Ahead
    <3>1. k \in (Len(share') + 1)..Ahead'
      BY <1>1, <1>2, <1>5, <2>2
    <3> QED
      BY <1>2, <2>2, <3>1, StreamPlaces, StreamPlacesNext
  <2> QED
    BY <1>1, <2>1, <2>2
<1>8. Stream'[Ahead + 1].frame = ttp
  <2>1. Ahead + 1 = Len(share') + (Len(air) + 2) /\ Len(air) + 2 \in 1..Len(air')
    BY <1>1, <1>2, <1>4
  <2>2. Stream'[Len(share') + (Len(air) + 2)].frame = air'[Len(air) + 2]
    BY <2>1, StreamPlacesNext
  <2> QED
    BY <1>4, <2>1, <2>2
<1>9. Stream'[Ahead + 2].frame = SofToCome' /\ SofToCome'.kind = "sof" /\ SofToCome'.life = life
      /\ SofToCome'.sf = NextNumber(NextNumber(sf))
  BY <1>2, <1>5, StreamPlacesNext DEF SofToCome
<1>10. /\ Stream'[Ahead].frame = sof /\ sof.kind = "sof" /\ sof.life = life
       /\ sof.sf = NextNumber(sf) /\ IsSof(Stream', Ahead)
  BY <1>1, <1>5, <1>6, StreamPlaces DEF IsSof
<1>11. Chained(Stream', Ahead + 2)
  <2>1. \A k \in 0..Ahead : Stream'[k].frame = Stream[k].frame
    BY <1>6
  <2>2. \A k \in 1..Ahead : ~Stream'[k].gap => ~Stream[k].gap
    BY <1>7
  <2>3. Chained(Stream, Ahead)
    BY DEF StreamInv
  <2> HIDE DEF sof
  <2> QED
    BY <1>1, <1>3, <1>8, <1>9, <1>10, <2>1, <2>2, <2>3, NextSuperFrame
<1>12. LivesBegun(Stream', Ahead + 2, life)
  <2>1. ASSUME NEW k \in 0..(Ahead + 2)
        PROVE  ~IsSof(Stream', k) \/ \E p \in 0..Ahead : Stream'[k].frame = Stream[p].frame
                 \/ Stream'[k].frame.life = life
    <3>1. CASE k \in 0..Ahead
      BY <1>6, <3>1
    <3>2. CASE k = Ahead + 1
      BY <1>3, <1>8, <3>2 DEF IsSof
    <3>3. CASE k = Ahead + 2
      BY <1>1, <1>9, <3>3
    <3> QED
      BY <1>1, <3>1, <3>2, <3>3
  <2>2. LivesBegun(Stream, Ahead, life) /\ life \in 1..life
    BY StreamDomain DEF StreamInv
  <2> QED
    BY <2>1, <2>2 DEF LivesBegun, IsSof
<1> QED
  BY <1>2, <1>5, <1>11, <1>12 DEF StreamInv, GrantIsOfLastSof

\* A response goes on the link.
LEMMA ResponseStream ==
  ASSUME TypeOK, TypeOK', StreamInv, NEW f \in Frames, f.kind = "resp", air' = Append(air, f),
         UNCHANGED <<life, sf, share, gap, upRunning, allocated, seen, counter>>
  PROVE  StreamInv'
<1>1. /\ Len(share) \in Nat /\ Len(air) \in Nat /\ Ahead \in Nat /\ Ahead # 0
      /\ Ahead = Len(share) + Len(air) + 1
  BY StreamDomain
<1>2. /\ Len(air') = Len(air) + 1
      /\ \A j \in 1..Len(air) : air'[j] = air[j]
      /\ air'[Len(air) + 1] = f
  BY AppendProperties DEF TypeOK
<1>3. Ahead' = Ahead + 1 /\ LastSof' = LastSof /\ SofToCome' = SofToCome
  BY <1>1, <1>2 DEF Ahead, LastSof, SofToCome
<1>4. ASSUME NEW k \in 0..(Ahead - 1)
      PROVE  Stream'[k].frame = Stream[k].frame
  <2>1. CASE k = 0
    BY <1>3, <2>1, StreamPlaces, StreamPlacesNext
  <2>2. CASE k \in 1..Len(share)
    BY <2>2, StreamPlaces, StreamPlacesNext
  <2>3. CASE k \in (Len(share) + 1)..(Ahead - 1)
    <3> DEFINE j == k - Len(share)
    <3>1. j \in 1..Len(air) /\ j \in 1..Len(air') /\ k = Len(share) + j
      BY <1>1, <1>2, <2>3
    <3> HIDE DEF j
    <3>2. Stream[Len(share) + j].frame = air[j] /\ Stream'[Len(share') + j].frame = air'[j]
      BY <3>1, StreamPlaces, StreamPlacesNext
    <3> QED
      BY <1>2, <3>1, <3>2
  <2> QED
    BY <1>1, <2>1, <2>2, <2>3
<1>5. ASSUME NEW k \in 1..Ahead
      PROVE  Stream'[k].gap <=> Stream[k].gap
  <2>1. CASE k \in 1..Len(share)
    BY <2>1, StreamPlaces, StreamPlacesNext
  <2>2. CASE k \in (Len(share) + 1)..Ahead
    <3>1. k \in (Len(share') + 1)..Ahead'
      BY <1>1, <1>3, <2>2
    <3> QED
      BY <2>2, <3>1, StreamPlaces, StreamPlacesNext
  <2> QED
    BY <1>1, <2>1, <2>2
<1>6. Stream'[Ahead].frame = f
  <2>1. Ahead = Len(share') + (Len(air) + 1) /\ Len(air) + 1 \in 1..Len(air')
    BY <1>1, <1>2
  <2>2. Stream'[Len(share') + (Len(air) + 1)].frame = air'[Len(air) + 1]
    BY <2>1, StreamPlacesNext
  <2> QED
    BY <1>2, <2>1, <2>2
<1>7. Stream'[Ahead + 1].frame = Stream[Ahead].frame
  BY <1>3, StreamPlaces, StreamPlacesNext
<1>8. Chained(Stream', Ahead + 1)
  <2>1. Chained(Stream, Ahead)
    BY DEF StreamInv
  <2>2. Stream'[Ahead].frame.kind = "resp"
    BY <1>6
  <2> QED
    BY <1>1, <1>4, <1>5, <1>7, <2>1, <2>2, ResponseSent
<1>9. LivesBegun(Stream', Ahead + 1, life)
  <2>1. ASSUME NEW k \in 0..(Ahead + 1)
        PROVE  ~IsSof(Stream', k) \/ \E p \in 0..Ahead : Stream'[k].frame = Stream[p].frame
    <3>1. CASE k \in 0..(Ahead - 1)
      BY <1>1, <1>4, <3>1
    <3>2. CASE k = Ahead
      BY <1>6, <3>2 DEF IsSof
    <3>3. CASE k = Ahead + 1
      BY <1>1, <1>7, <3>3
    <3> QED
      BY <1>1, <3>1, <3>2, <3>3
  <2>2. LivesBegun(Stream, Ahead, life) /\ Ahead + 1 \in Nat
    BY <1>1 DEF StreamInv
  <2> QED
    BY <1>1, <2>1, <2>2, LivesKept
<1> QED
  BY <1>3, <1>8, <1>9 DEF StreamInv, GrantIsOfLastSof

LEMMA NccRestartsStream == TypeOK /\ TypeOK' /\ StreamInv /\ NccRestarts => StreamInv'
<1> SUFFICES ASSUME TypeOK, TypeOK', StreamInv, NccRestarts PROVE StreamInv'
  OBVIOUS
<1>1. /\ Len(share) \in Nat /\ Len(air) \in Nat /\ Ahead \in Nat /\ Ahead # 0
      /\ Ahead = Len(share) + Len(air) + 1 /\ life \in Nat
  BY StreamDomain
<1>2. /\ UNCHANGED <<air, share, gap, upRunning, allocated, seen, counter>>
      /\ life' = life + 1
  BY DEF NccRestarts, upward, downward
<1>3. Ahead' = Ahead /\ LastSof' = LastSof
  BY <1>2 DEF Ahead, LastSof
<1>4. ASSUME NEW k \in 0..(Ahead - 1)
      PROVE  Stream'[k].frame = Stream[k].frame
  <2>1. CASE k = 0
    BY <1>3, <2>1, StreamPlaces, StreamPlacesNext
  <2>2. CASE k \in 1..Len(share)
    BY <1>2, <2>2, StreamPlaces, StreamPlacesNext
  <2>3. CASE k \in (Len(share) + 1)..(Ahead - 1)
    <3> DEFINE j == k - Len(share)
    <3>1. j \in 1..Len(air) /\ k = Len(share) + j
      BY <1>1, <2>3
    <3> HIDE DEF j
    <3> QED
      BY <1>2, <3>1, StreamPlaces, StreamPlacesNext
  <2> QED
    BY <1>1, <2>1, <2>2, <2>3
<1>5. ASSUME NEW k \in 1..Ahead
      PROVE  Stream'[k].gap <=> Stream[k].gap
  <2>1. CASE k \in 1..Len(share)
    BY <1>2, <2>1, StreamPlaces, StreamPlacesNext
  <2>2. CASE k \in (Len(share) + 1)..Ahead
    BY <1>2, <1>3, <2>2, StreamPlaces, StreamPlacesNext
  <2> QED
    BY <1>1, <2>1, <2>2
<1>6. Stream'[Ahead].frame.kind = "sof" /\ Stream'[Ahead].frame.life = life + 1
  BY <1>2, <1>3, StreamPlacesNext DEF SofToCome
<1>7. Chained(Stream', Ahead) /\ LivesBegun(Stream', Ahead, life + 1)
  <2>1. Chained(Stream, Ahead) /\ LivesBegun(Stream, Ahead, life)
    BY DEF StreamInv
  <2> QED
    BY <1>1, <1>4, <1>5, <1>6, <2>1, LifeBegins
<1> QED
  BY <1>2, <1>3, <1>7 DEF StreamInv, GrantIsOfLastSof

\* A frame leaves the link and is not shared: it was no SOF, or a gap is noted, or
\* the terminal has seen no SOF.
LEMMA NotSharedStream ==
  ASSUME TypeOK, TypeOK', StreamInv, air # <<>>, air' = Tail(air),
         UNCHANGED <<life, sf, share, upRunning, allocated, seen, counter>>,
         \/ ~gap' => ~gap /\ Head(air).kind # "sof"
         \/ ~upRunning
  PROVE  StreamInv'
<1> DEFINE d == Len(share) + 1
<1>1. /\ Ahead' \in Nat /\ Ahead = Ahead' + 1 /\ d \in 1..Ahead'
      /\ \A k \in 0..Ahead' : Stream'[k].frame = Stream[Before(d, k)].frame
      /\ \A k \in 1..Ahead' : ~Stream'[k].gap => ~Stream[Before(d, k)].gap
      /\ Stream'[d].gap <=> gap'
      /\ Stream[d].gap <=> gap
      /\ Stream[d].frame = Head(air)
  BY AirTaken
<1>2. \/ ~Stream'[d].gap => ~Stream[d].gap /\ ~IsSof(Stream, d)
      \/ \A k \in 0..(d - 1) : ~IsSof(Stream', k)
  <2>1. CASE ~gap' => ~gap /\ Head(air).kind # "sof"
    BY <1>1, <2>1 DEF IsSof
  <2>2. CASE ~upRunning
    <3>1. share = <<>> /\ seen.sofLost
      BY <2>2 DEF StreamInv
    <3>2. d - 1 = 0 /\ LastSof'.kind = "none"
      BY <3>1 DEF LastSof
    <3>3. ~IsSof(Stream', 0)
      BY <3>2, StreamPlacesNext DEF IsSof
    <3> QED
      BY <3>2, <3>3
  <2> QED
    BY <2>1, <2>2
<1>3. /\ Chained(Stream, Ahead' + 1) /\ LivesBegun(Stream, Ahead' + 1, life)
      /\ 0 \in 0..Ahead' /\ d \in 0..Ahead'
  BY <1>1 DEF StreamInv
<1> DEFINE n == Ahead'
           s == Stream
           t == Stream'
<1> HIDE DEF d
<1>4. \A k \in 0..Ahead' : Before(d, k) \in 0..(Ahead' + 1)
  <2> HIDE DEF n
  <2>1. \A k \in 0..n : Before(d, k) \in 0..(n + 1)
    BY <1>1, <1>3, BeforeInStream DEF n
  <2> QED
    BY <2>1 DEF n
<1>5. Chained(Stream', Ahead')
  <2>1. /\ n \in Nat /\ d \in 0..n /\ Chained(s, n + 1)
        /\ t[0].frame = s[Before(d, 0)].frame
        /\ \A k \in 1..n : t[k].frame = s[Before(d, k)].frame
        /\ \A k \in 1..n : ~t[k].gap => ~s[Before(d, k)].gap
        /\ \/ ~t[d].gap => ~s[d].gap /\ ~IsSof(s, d)
           \/ \A k \in 0..(d - 1) : ~IsSof(t, k)
    BY <1>1, <1>2, <1>3
  <2> HIDE DEF n, s, t
  <2>2. Chained(t, n)
    BY <2>1, TakenOut
  <2> QED
    BY <2>2 DEF n, s, t
<1>6. LivesBegun(Stream', Ahead', life)
  <2>1. /\ n \in Nat /\ LivesBegun(s, n + 1, life)
        /\ \A k \in 0..n : t[k].frame = s[Before(d, k)].frame /\ Before(d, k) \in 0..(n + 1)
    BY <1>1, <1>3, <1>4
  <2> HIDE DEF n, s, t
  <2>2. n + 1 \in Nat
    BY <2>1
  <2>3. \A k \in 0..n : \E p \in 0..(n + 1) : t[k].frame = s[p].frame
    BY <2>1
  <2>4. LivesBegun(t, n, life)
    BY <2>1, <2>2, <2>3, LivesKept
  <2> QED
    BY <2>4 DEF n, s, t
<1> QED
  BY <1>5, <1>6 DEF StreamInv, GrantIsOfLastSof

LEMMA ArrivalStream ==
  TypeOK /\ TypeOK' /\ StreamInv /\ (LoseFrame \/ UpwardReceives) => StreamInv'
<1> SUFFICES ASSUME TypeOK, TypeOK', StreamInv, LoseFrame \/ UpwardReceives PROVE StreamInv'
  OBVIOUS
<1>1. air # <<>> /\ air' = Tail(air) /\ UNCHANGED <<life, sf, allocated, seen, counter>>
  BY DEF LoseFrame, UpwardReceives, ncc, downward
<1>2. CASE LoseFrame
  <2>1. UNCHANGED <<share, upRunning>> /\ gap' = (gap \/ Head(air).kind = "sof")
    BY <1>2 DEF LoseFrame
  <2> QED
    BY <1>1, <2>1, NotSharedStream
<1>3. CASE UpwardReceives /\ ~Shares(Head(air))
  <2>1. UNCHANGED <<share, gap>> /\ upRunning' = upRunning
    BY <1>3 DEF UpwardReceives, TypeOK
  <2>2. Head(air).kind # "sof" \/ ~upRunning
    BY <1>3 DEF Shares
  <2> QED
    BY <1>1, <2>1, <2>2, NotSharedStream
<1>4. CASE UpwardReceives /\ Shares(Head(air))
  <2>1. share' = Append(share, [frame |-> Head(air), gap |-> gap]) /\ gap' = FALSE
    BY <1>4 DEF UpwardReceives
  <2>2. /\ Ahead' = Ahead
        /\ \A k \in 0..Ahead : Stream'[k].frame = Stream[k].frame
        /\ \A k \in 1..Ahead : Stream'[k].gap <=> Stream[k].gap
    BY <1>1, <2>1, AirShared
  <2>3. upRunning'
    BY <1>4 DEF UpwardReceives, Shares, TypeOK
  <2>4. Ahead \in Nat
    BY StreamDomain
  <2>5. Chained(Stream', Ahead)
    <3> SUFFICES ASSUME NEW i \in 0..Ahead, NEW j \in 0..Ahead, i < j, IsSof(Stream', i),
                        \A k \in (i + 1)..(j - 1) : ~IsSof(Stream', k),
                        \A k \in (i + 1)..j : ~Stream'[k].gap
                 PROVE  Follows(Stream'[i].frame, Stream'[j].frame)
      BY DEF Chained
    <3>1. /\ (i + 1)..(j - 1) \subseteq 0..Ahead
          /\ (i + 1)..j \subseteq 1..Ahead
      BY <2>4
    <3>2. \A k \in (i + 1)..(j - 1) : ~IsSof(Stream, k)
      BY <2>2, <3>1 DEF IsSof
    <3>3. \A k \in (i + 1)..j : ~Stream[k].gap
      BY <2>2, <3>1
    <3>4. IsSof(Stream, i) /\ Chained(Stream, Ahead)
      BY <2>2 DEF IsSof, StreamInv
    <3> QED
      BY <2>2, <3>2, <3>3, <3>4 DEF Chained
  <2>6. LivesBegun(Stream', Ahead, life)
    BY <2>2 DEF StreamInv, LivesBegun, IsSof
  <2> QED
    BY <1>1, <2>2, <2>3, <2>5, <2>6 DEF StreamInv, GrantIsOfLastSof
<1> QED
  BY <1>2, <1>3, <1>4

\* The frame at the head is handled; after it, the last SOF is the one before or,
\* if it had a gap in front, none; or, when it is a SOF, itself or none.
LEMMA HandledStream ==
  ASSUME TypeOK, TypeOK', StreamInv, share # <<>>, share' = Tail(share),
         UNCHANGED <<life, sf, air, upRunning, gap>>, GrantIsOfLastSof',
         \/ LastSof'.kind # "sof"
         \/ /\ LastSof' = LastSof
            /\ ~Head(share).gap /\ Head(share).frame.kind # "sof"
         \/ LastSof' = Head(share).frame
  PROVE  StreamInv'
<1> DEFINE n == Ahead'
           s == Stream
           t == Stream'
<1>1. /\ n \in Nat /\ Ahead = n + 1
      /\ \A k \in 1..n : t[k].frame = s[k + 1].frame /\ (t[k].gap <=> s[k + 1].gap)
      /\ s[1] = Head(share)
  BY ShareTaken
<1>2. n # 0
  BY LenProperties DEF TypeOK, Ahead
<1>3. t[0].frame = LastSof' /\ s[0].frame = LastSof
  BY StreamPlaces, StreamPlacesNext
<1>4. Chained(s, n + 1) /\ LivesBegun(s, n + 1, life)
  BY <1>1 DEF StreamInv
<1>5. upRunning'
  BY DEF StreamInv, TypeOK
<1>6. LastSof'.kind # "sof" \/ LastSof' = s[0].frame \/ LastSof' = s[1].frame
  BY <1>1, <1>3
<1> HIDE DEF n, s, t
<1>7. ASSUME LastSof'.kind # "sof" \/ LastSof' = Head(share).frame
      PROVE  Chained(t, n)
  <2>1. t[0].frame = s[Before(0, 0)].frame \/ ~IsSof(t, 0)
    BY <1>1, <1>3, <1>7 DEF IsSof, Before
  <2>2. \A k \in 1..n : /\ Before(0, k) = k + 1
                        /\ t[k].frame = s[Before(0, k)].frame
                        /\ ~t[k].gap => ~s[Before(0, k)].gap
    BY <1>1 DEF Before
  <2>3. 0 \in 0..n /\ \A k \in 0..(0 - 1) : ~IsSof(t, k)
    BY <1>1
  <2> QED
    BY <1>1, <1>4, <2>1, <2>2, <2>3, TakenOut
<1>8. ASSUME LastSof' = LastSof, ~Head(share).gap, Head(share).frame.kind # "sof"
      PROVE  Chained(t, n)
  <2>1. t[0].frame = s[Before(1, 0)].frame
    BY <1>3, <1>8 DEF Before
  <2>2. \A k \in 1..n : /\ Before(1, k) = k + 1
                        /\ t[k].frame = s[Before(1, k)].frame
                        /\ ~t[k].gap => ~s[Before(1, k)].gap
    BY <1>1 DEF Before
  <2>3. 1 \in 0..n /\ ~s[1].gap /\ ~IsSof(s, 1)
    BY <1>1, <1>2, <1>8 DEF IsSof
  <2> QED
    BY <1>1, <1>4, <2>1, <2>2, <2>3, TakenOut
<1>9. Chained(t, n)
  BY <1>7, <1>8
<1>10. \A k \in 0..n : ~IsSof(t, k) \/ \E p \in 0..(n + 1) : t[k].frame = s[p].frame
  <2> TAKE k \in 0..n
  <2>1. CASE k = 0
    BY <1>1, <1>3, <1>6, <2>1 DEF IsSof
  <2>2. CASE k # 0
    <3>1. k + 1 \in 0..(n + 1) /\ t[k].frame = s[k + 1].frame
      BY <1>1, <2>2
    <3> QED
      BY <3>1
  <2> QED
    BY <2>1, <2>2
<1>11. LivesBegun(t, n, life)
  BY <1>1, <1>4, <1>10, LivesKept
<1> QED
  BY <1>5, <1>9, <1>11 DEF StreamInv, n, t

\* What a frame at the head with no gap in front says of the last SOF.
LEMMA HeadFollows ==
  ASSUME TypeOK, StreamInv, share # <<>>, ~seen.sofLost, ~Lost
  PROVE  Follows([kind |-> "sof", life |-> seen.life, sf |-> counter], Head(share).frame)
<1>1. share \in Seq(SharedFrames) /\ Ahead \in Nat /\ Ahead = Len(share) + Len(air) + 1
      /\ Len(air) \in Nat /\ Len(share) \in Nat
  BY StreamDomain DEF TypeOK, SharedFrames
<1>2. 1 \in 1..Len(share) /\ Head(share) = share[1]
  BY <1>1, HeadElement
<1>3. Stream[1] = Head(share) /\ Stream[0].frame = LastSof
  BY <1>2, StreamPlaces
<1>4. LastSof = [kind |-> "sof", life |-> seen.life, sf |-> counter]
  BY DEF LastSof
<1>5. /\ 0 \in 0..Ahead /\ 1 \in 0..Ahead /\ 0 < 1 /\ IsSof(Stream, 0)
      /\ \A k \in (0 + 1)..(1 - 1) : ~IsSof(Stream, k)
      /\ \A k \in (0 + 1)..1 : ~Stream[k].gap
  BY <1>1, <1>2, <1>3, <1>4 DEF IsSof, Lost
<1>6. Follows(Stream[0].frame, Stream[1].frame)
  BY <1>5 DEF StreamInv, Chained
<1> QED
  BY <1>3, <1>4, <1>6

LEMMA StartOfFrameStream == TypeOK /\ TypeOK' /\ StreamInv /\ HandleStartOfFrame => StreamInv'
<1> SUFFICES ASSUME TypeOK, TypeOK', StreamInv, HandleStartOfFrame PROVE StreamInv'
  OBVIOUS
<1> DEFINE frame == Head(share).frame
<1>1. /\ share # <<>> /\ share' = Tail(share) /\ frame.kind = "sof"
      /\ UNCHANGED <<life, sf, air, upRunning, gap>>
  BY DEF HandleStartOfFrame, Shared, ncc, upward
<1>2. frame = [kind |-> "sof", life |-> frame.life, sf |-> frame.sf]
  BY <1>1, HeadShared DEF Frames, Sof, Ttp, LogonResponse
<1>3. CASE RebootDetected(frame)
  <2>1. seen'.sofLost
    BY <1>3 DEF RebootDetected, TypeOK
  <2>2. LastSof'.kind # "sof" /\ GrantIsOfLastSof'
    BY <2>1 DEF LastSof, GrantIsOfLastSof
  <2> QED
    BY <1>1, <2>2, HandledStream
<1>4. CASE SuperFrameBegins(frame)
  <2>1. /\ ~seen'.sofLost /\ seen'.life = frame.life /\ counter' = frame.sf
        /\ allocated'.kb = 0
    BY <1>4 DEF SuperFrameBegins, TypeOK, HereIsSof, NoGrant
  <2>2. LastSof' = frame /\ GrantIsOfLastSof'
    BY <1>2, <2>1 DEF LastSof, GrantIsOfLastSof
  <2> QED
    BY <1>1, <2>2, HandledStream
<1> QED
  BY <1>3, <1>4 DEF HandleStartOfFrame

LEMMA TtpStream == TypeOK /\ TypeOK' /\ StreamInv /\ HereIsTtp => StreamInv'
<1> SUFFICES ASSUME TypeOK, TypeOK', StreamInv, HereIsTtp PROVE StreamInv'
  OBVIOUS
<1> DEFINE frame == Head(share).frame
<1>1. /\ share # <<>> /\ share' = Tail(share) /\ frame.kind = "ttp"
      /\ UNCHANGED <<life, sf, air, upRunning, gap, counter>>
  BY DEF HereIsTtp, Shared, ncc, upward
<1>2. seen'.life = seen.life /\ seen'.sofLost = (seen.sofLost \/ Lost)
  BY DEF HereIsTtp, TypeOK
<1>3. CASE seen.sofLost \/ Lost
  <2>1. LastSof'.kind # "sof" /\ GrantIsOfLastSof'
    BY <1>2, <1>3 DEF LastSof, GrantIsOfLastSof
  <2> QED
    BY <1>1, <2>1, HandledStream
<1>4. CASE ~seen.sofLost /\ ~Lost
  <2>1. LastSof' = LastSof /\ ~Head(share).gap /\ frame.kind # "sof"
    BY <1>1, <1>2, <1>4 DEF LastSof, Lost
  <2>2. frame.life = seen.life /\ frame.sf = counter
    BY <1>1, <1>4, HeadFollows DEF Follows
  <2>3. GrantIsOfLastSof'
    <3> SUFFICES ASSUME allocated'.kb > 0
                 PROVE  allocated'.life = seen'.life /\ allocated'.sf = counter'
      BY DEF GrantIsOfLastSof
    <3>1. allocated' = [kb |-> frame.kb, life |-> frame.life, sf |-> frame.sf]
      BY DEF HereIsTtp, NoGrant
    <3> QED
      BY <1>1, <1>2, <2>2, <3>1
  <2> QED
    BY <1>1, <2>1, <2>3, HandledStream
<1> QED
  BY <1>3, <1>4

LEMMA LogonRespStream == TypeOK /\ TypeOK' /\ StreamInv /\ HandleLogonResp => StreamInv'
<1> SUFFICES ASSUME TypeOK, TypeOK', StreamInv, HandleLogonResp PROVE StreamInv'
  OBVIOUS
<1> DEFINE frame == Head(share).frame
<1>1. /\ share # <<>> /\ share' = Tail(share) /\ frame.kind = "resp"
      /\ UNCHANGED <<life, sf, air, upRunning, gap, counter, allocated>>
  BY DEF HandleLogonResp, Shared, ncc, upward
<1>2. /\ seen'.life = frame.life
      /\ seen'.sofLost = (seen.sofLost \/ Lost \/ frame.life # seen.life)
  BY DEF HandleLogonResp
<1>3. CASE seen'.sofLost
  <2>1. LastSof'.kind # "sof" /\ GrantIsOfLastSof'
    BY <1>3 DEF LastSof, GrantIsOfLastSof
  <2> QED
    BY <1>1, <2>1, HandledStream
<1>4. CASE ~seen'.sofLost
  <2>1. ~seen.sofLost /\ ~Lost /\ frame.life = seen.life
    BY <1>2, <1>4 DEF TypeOK
  <2>2. LastSof' = LastSof /\ ~Head(share).gap /\ frame.kind # "sof"
    BY <1>1, <1>2, <1>4, <2>1 DEF LastSof, Lost
  <2>3. GrantIsOfLastSof'
    BY <1>1, <1>2, <2>1 DEF GrantIsOfLastSof, StreamInv
  <2> QED
    BY <1>1, <2>2, <2>3, HandledStream
<1> QED
  BY <1>3, <1>4

LEMMA TerminalRestartsStream ==
  TypeOK /\ TypeOK' /\ StreamInv /\ TerminalRestarts => StreamInv'
<1> SUFFICES ASSUME TypeOK, TypeOK', StreamInv, TerminalRestarts PROVE StreamInv'
  OBVIOUS
<1>1. /\ Len(share) \in Nat /\ Len(air) \in Nat /\ Ahead \in Nat
      /\ Ahead = Len(share) + Len(air) + 1
  BY StreamDomain
<1>2. /\ UNCHANGED <<life, sf, air>> /\ share' = <<>> /\ seen'.sofLost /\ upRunning' = FALSE
  BY DEF TerminalRestarts, ncc, Unseen
<1> DEFINE n == Len(air) + 1
           m == Len(share)
           s == Stream
           t == Stream'
<1>3. Ahead' = n /\ Ahead = n + m /\ n \in Nat /\ m \in Nat
  BY <1>1, <1>2 DEF Ahead
<1>4. ~IsSof(t, 0)
  BY <1>2, StreamPlacesNext DEF IsSof, LastSof
<1>5. \A k \in 1..n : t[k].frame = s[k + m].frame
  <2> TAKE k \in 1..n
  <2>1. CASE k = n
    <3>1. SofToCome' = SofToCome
      BY <1>2 DEF SofToCome
    <3> QED
      BY <1>3, <2>1, <3>1, StreamPlaces, StreamPlacesNext
  <2>2. CASE k # n
    <3>1. k \in 1..Len(air) /\ k = Len(share') + k /\ k + m = Len(share) + k
      BY <1>1, <1>2, <2>2
    <3>2. s[Len(share) + k].frame = air[k] /\ t[Len(share') + k].frame = air'[k]
      BY <1>2, <3>1, StreamPlaces, StreamPlacesNext
    <3> QED
      BY <1>2, <3>1, <3>2
  <2> QED
    BY <2>1, <2>2
<1>6. \A k \in 2..n : ~t[k].gap => ~s[k + m].gap
  <2> TAKE k \in 2..n
  <2>1. k + m \in (Len(share) + 1)..Ahead /\ k + m # Len(share) + 1
    BY <1>1
  <2> QED
    BY <2>1, StreamPlaces
<1>7. Chained(s, n + m) /\ LivesBegun(s, n + m, life)
  BY <1>3 DEF StreamInv
<1> HIDE DEF n, m, s, t
<1>8. Chained(t, n)
  BY <1>3, <1>4, <1>5, <1>6, <1>7, EndOfStream
<1>9. \A k \in 0..n : ~IsSof(t, k) \/ \E p \in 0..(n + m) : t[k].frame = s[p].frame
  <2> TAKE k \in 0..n
  <2>1. k = 0 \/ (k \in 1..n /\ k + m \in 0..(n + m))
    BY <1>3
  <2> QED
    BY <1>4, <1>5, <2>1
<1>10. n + m \in Nat
  BY <1>3
<1>11. LivesBegun(t, n, life)
  BY <1>3, <1>7, <1>9, <1>10, LivesKept
<1> QED
  BY <1>2, <1>3, <1>8, <1>11 DEF StreamInv, GrantIsOfLastSof, t

LEMMA NextStream == TypeOK /\ StreamInv /\ [Next]_vars => StreamInv'
<1> SUFFICES ASSUME TypeOK, StreamInv, [Next]_vars PROVE StreamInv'
  OBVIOUS
<1>1. TypeOK'
  BY NextTyped
<1>2. CASE HandleLogonReq
  <2>1. PICK f \in Frames : f.kind = "resp" /\ air' = Append(air, f)
    BY <1>2 DEF HandleLogonReq, TypeOK, Frames, LogonResponse
  <2> QED
    BY <1>1, <1>2, <2>1, ResponseStream DEF HandleLogonReq, upward, downward
<1>3. CASE OtherLogsOn
  <2>1. PICK f \in Frames : f.kind = "resp" /\ air' = Append(air, f)
    <3>1. 1 \in Lives
      BY LogonAssumption DEF Lives
    <3> QED
      BY <1>3, <3>1 DEF OtherLogsOn, Frames, LogonResponse
  <2> QED
    BY <1>1, <1>3, <2>1, ResponseStream DEF OtherLogsOn, ncc, upward, downward
<1>4. CASE LogonTimer \/ UNCHANGED vars
  <2>1. UNCHANGED <<life, sf, air, share, upRunning, gap, counter, allocated, seen>>
    BY <1>4 DEF LogonTimer, vars, ncc, upward, downward
  <2>2. Stream' = Stream /\ Ahead' = Ahead
    BY <2>1 DEF Stream, Ahead, LastSof, SofToCome, StreamOf
  <2> QED
    BY <2>1, <2>2 DEF StreamInv, GrantIsOfLastSof
<1> QED
  BY <1>1, <1>2, <1>3, <1>4, FrameTimerStream, NccRestartsStream, ArrivalStream,
     StartOfFrameStream, TtpStream, LogonRespStream, TerminalRestartsStream
  DEF Next, Downward

\* The next number is never taken for a restart, also when the numbers turn.
LEMMA NextNumberIsNoReboot ==
  ASSUME counter \in Numbers
  PROVE  ~SeemsRebooted(NextNumber(counter))
<1>1. counter \in Nat /\ counter < Modulus /\ Modulus \in Nat /\ Modulus > 0
  BY LogonAssumption DEF Numbers
<1>2. CASE counter + 1 < Modulus
  <2>1. (counter + 1) % Modulus = counter + 1
    BY <1>1, <1>2
  <2> QED
    BY <1>1, <2>1 DEF SeemsRebooted, NextNumber
<1>3. CASE counter + 1 = Modulus
  <2>1. (counter + 1) % Modulus = 0
    BY <1>1, <1>3
  <2> QED
    BY <2>1 DEF SeemsRebooted, NextNumber
<1> QED
  BY <1>1, <1>2, <1>3

\* In every reachable state the SOFs on the link and between the channels follow the
\* last one handled and lead to the one that the NCC sends next, each with its
\* TTP, except where one is noted as lost.
THEOREM SuperFramesFollow == Spec => []StreamInv
<1> QED
  BY InitTyped, InitStream, NextTyped, NextStream, PTL DEF Spec

\* A terminal flushes its packets and logs on again only if the NCC did start
\* again or a SOF was lost (TerminalLogon.NoFalseAlarm).
THEOREM RebootsAreReal == Spec => NoFalseAlarm
<1>1. TypeOK /\ StreamInv /\ [Next]_vars =>
        [LET frame == Head(share).frame
         IN  HandleStartOfFrame /\ state' = "wait" /\ state = "running"
             => frame.life # seen.life \/ seen.sofLost \/ Lost]_vars
  <2> DEFINE frame == Head(share).frame
  <2> SUFFICES ASSUME TypeOK, StreamInv, HandleStartOfFrame, state' = "wait", state = "running",
                      frame.life = seen.life, ~seen.sofLost, ~Lost
               PROVE  FALSE
    BY Zenon DEF TypeOK
  <2>1. share # <<>> /\ frame.kind = "sof"
    BY DEF HandleStartOfFrame, Shared
  <2>2. frame.sf = NextNumber(counter)
    BY <2>1, HeadFollows DEF Follows
  <2>3. SeemsRebooted(frame.sf)
    BY DEF HandleStartOfFrame, RebootDetected, SuperFrameBegins
  <2> QED
    BY <2>2, <2>3, NextNumberIsNoReboot DEF TypeOK
<1> QED
  BY <1>1, TypeCorrect, SuperFramesFollow, PTL DEF Spec, NoFalseAlarm

\* What a terminal sends with in a superframe was allocated by the TTP of the
\* superframe before (TerminalLogon.GrantIsForThisFrame).
THEOREM GrantsAreForTheirFrame == Spec => GrantIsForThisFrame
<1>1. TypeOK /\ StreamInv /\ [Next]_vars =>
        [LET frame == Head(share).frame
         IN  /\ HandleStartOfFrame
             /\ ~SeemsRebooted(frame.sf)
             /\ allocated.kb > 0
             /\ frame.life = seen.life
             /\ ~seen.sofLost /\ ~Lost
             => allocated.life = frame.life /\ frame.sf = NextNumber(allocated.sf)]_vars
  <2> DEFINE frame == Head(share).frame
  <2> SUFFICES ASSUME TypeOK, StreamInv, HandleStartOfFrame, allocated.kb > 0,
                      frame.life = seen.life, ~seen.sofLost, ~Lost
               PROVE  allocated.life = frame.life /\ frame.sf = NextNumber(allocated.sf)
    BY Zenon
  <2>1. share # <<>> /\ frame.kind = "sof"
    BY DEF HandleStartOfFrame, Shared
  <2>2. frame.sf = NextNumber(counter)
    BY <2>1, HeadFollows DEF Follows
  <2>3. allocated.life = seen.life /\ allocated.sf = counter
    BY DEF StreamInv, GrantIsOfLastSof
  <2> QED
    BY <2>2, <2>3
<1> QED
  BY <1>1, TypeCorrect, SuperFramesFollow, PTL DEF Spec, GrantIsForThisFrame
=============================================================================
