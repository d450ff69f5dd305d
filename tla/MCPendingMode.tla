---------------------------- MODULE MCPendingMode ----------------------------
EXTENDS PendingMode

CONSTANT MaxCodes

(* An update that begins in one of the two ways, with any codes in it, and *)
(* text after it, or nothing more.                                         *)
MCPrograms ==
    {<<b>> \o p \o q : b \in Begin, p \in BoundedSeq(Codes, MaxCodes),
                      q \in {<<>>} \cup {<<e, <<"a">> >> : e \in End}}

(* An update of more than the pending buffer may hold.                     *)
MCFlood == {<<b>> \o [i \in 1..6 |-> <<"ESC", "[", "3", "m">>] : b \in Begin}

MCAllPrograms == MCPrograms \cup MCFlood

(* An update of text and colors.                                           *)
MCUpdates ==
    {<<b, <<"a">> >> \o p \o <<e>> :
        b \in Begin, e \in End, p \in BoundedSeq({<<"a">>, <<"ESC", "[", "3", "m">>}, MaxCodes)}
=============================================================================
