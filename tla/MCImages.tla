------------------------------ MODULE MCImages ------------------------------
(* The images of a screen, and the frames of one of them: each part from   *)
(* its own initial states.                                                 *)
EXTENDS ImageStore, Animation

VARIABLE part  \* the part that runs

ImagesInit == part \in {"store", "animation"} /\ IsInit /\ AnInit

ImagesNext ==
    /\ UNCHANGED part
    /\ \/ part = "store" /\ IsNext /\ UNCHANGED anvars
       \/ part = "animation" /\ AnNext /\ UNCHANGED isvars

ImagesSpec == ImagesInit /\ [][ImagesNext]_<<isvars, anvars, part>>
=============================================================================
