------------------------------ MODULE MCScreen ------------------------------
(* The parts of a screen, each from its own initial states.                *)
EXTENDS CursorMoves, Rewrap, LineStore, Scrollback

VARIABLE part  \* the part that runs

MCSizes == {[lines |-> 3, columns |-> 2], [lines |-> 2, columns |-> 2]}
MCScreenSizes == [lines : {2, 3}, columns : {2, 3}]
MCFirstSize == [lines |-> 2, columns |-> 3]

NoText == rsize = MCFirstSize /\ hist = <<>> /\ scr = <<>> /\ rcur = [x |-> 0, y |-> 0] /\ fill = FALSE

ScreenInit ==
    /\ part \in {"cursor", "rewrap", "store", "scrollback"}
    /\ Init /\ (part # "cursor" => size.lines = 3)
    /\ IF part = "rewrap" THEN RwInit ELSE NoText
    /\ LsInit
    /\ SbInit

ScreenNext ==
    /\ UNCHANGED part
    /\ \/ part = "cursor" /\ Next /\ UNCHANGED <<rvars, lsvars, sbvars>>
       \/ part = "rewrap" /\ RwNext /\ UNCHANGED <<cvars, lsvars, sbvars>>
       \/ part = "store" /\ LsNext /\ UNCHANGED <<cvars, rvars, sbvars>>
       \/ part = "scrollback" /\ SbNext /\ UNCHANGED <<cvars, rvars, lsvars>>

ScreenSpec == ScreenInit /\ [][ScreenNext]_<<cvars, rvars, lsvars, sbvars, part>>
=============================================================================
