----------------------------- MODULE MCTalkLoop ------------------------------
(* A small instance of TalkLoop for TLC.                                   *)
EXTENDS TalkLoop, TLC

CONSTANTS p1, p2

(* Two commands, and a message as long as the limit.               *)
MCSends == p1 :> 4 @@ p2 :> 3
=============================================================================
