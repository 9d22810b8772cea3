------------------------------ MODULE MCSession ------------------------------
(***************************************************************************)
(* An instance of Session for TLC: two files of different length, one with  *)
(* a row that is too short, one with a row that is not a bar; orders that   *)
(* open a position and close half of it.                                    *)
(***************************************************************************)
EXTENDS SessionInv, TLC

CONSTANTS s1, s2

TwoFiles == s1 :> <<"short", "unusable", "bar">> @@ s2 :> <<"bar", "unusable">>

Deal(side, offset, volume) ==
  [side |-> side, offset |-> offset, volume |-> volume]

SomeDeals == {Deal("Buy", "Open", 2), Deal("Sell", "Close", 1)}
=============================================================================
