------------------------------ MODULE MCRuntime ------------------------------
(* Instances of Runtime for TLC. *)
EXTENDS Runtime

CONSTANTS SharesUp  \* the blocks whose downward channel shares with the upward one

\* Every upward channel may answer through its downward channel.
StackRoutes ==
  [c \in Channels |->
     IF c[2] = "up" \/ c[1] \in SharesUp THEN {"next", "opp"} ELSE {"next"}]

\* The network is below the stack and the LAN above it.
StackEnds == {<<NBlocks, "up">>, <<1, "down">>}

\* Only the network sends (the run Runtime.cfg).
NetworkEnd == {<<NBlocks, "up">>}

\* The lowest block announces its link in onInit, as BlockDvbNcc does.
LinkUp == [c \in Channels |-> IF c = <<NBlocks, "up">> THEN 1 ELSE 0]
=============================================================================
