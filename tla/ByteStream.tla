----------------------------- MODULE ByteStream ------------------------------
(***************************************************************************)
(* What a buffer between two threads promises: the bytes that were         *)
(* accepted come out in order, each once, unless what is still inside is   *)
(* discarded as a whole.                                                   *)
(***************************************************************************)
EXTENDS Integers, Sequences

CONSTANT MayDiscard

VARIABLES accepted, delivered

TypeOK == accepted \in Seq(Nat) /\ delivered \in Seq(Nat)

Init == accepted = <<>> /\ delivered = <<>>

Accept ==
    /\ Len(accepted') > Len(accepted)
    /\ SubSeq(accepted', 1, Len(accepted)) = accepted
    /\ UNCHANGED delivered

Deliver ==
    /\ Len(delivered') \in (Len(delivered) + 1)..Len(accepted)
    /\ delivered' = SubSeq(accepted, 1, Len(delivered'))
    /\ UNCHANGED accepted

(* What was delivered just before the loss may be part of the same step.   *)
Discard ==
    /\ MayDiscard
    /\ Len(delivered') \in Len(delivered)..Len(accepted)
    /\ delivered' = SubSeq(accepted, 1, Len(delivered'))
    /\ accepted' = delivered'

Next == Accept \/ Deliver \/ Discard

Spec == Init /\ [][Next]_<<accepted, delivered>>
=============================================================================
