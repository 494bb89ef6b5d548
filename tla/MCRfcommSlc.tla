---------------------------- MODULE MCRfcommSlc ----------------------------
(* Instances of RfcommSlc: two phones that list their indicators in        *)
(* different orders, so that a name kept from the other one is wrong.      *)
EXTENDS RfcommSlc

CONSTANTS l1, l2

Names == {"call", "signal"}
Orders == [l \in Links |-> IF l = l1 THEN <<"call", "signal">>
                                     ELSE <<"signal", "call">>]
OneName == {"call"}
OneOrder == [l \in Links |-> <<"call">>]
Negotiation == {"BRSF", "CIND=?", "CIND?", "CMER", "CHLD=?"}
NoCommand == {}
=============================================================================
