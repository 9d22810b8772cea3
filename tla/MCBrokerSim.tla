---------------------------- MODULE MCBrokerSim ----------------------------
(***************************************************************************)
(* Instances of BrokerSim for TLC.                                          *)
(***************************************************************************)
EXTENDS BrokerSimInv

L(p, v) == [price |-> p, volume |-> v]
Limit(s, p, v) == [side |-> s, type |-> "Limit", limit |-> p, volume |-> v]
Any(s, v) == [side |-> s, type |-> "Any", limit |-> 0, volume |-> v]

\* An order deeper than one level of the board; a limit between its levels.
SomeInputs == {Limit("Buy", 2, 2), Limit("Sell", 2, 1), Any("Buy", 2)}

\* A board with two prices and a hole, and one without sellers.
SomeBoards == {[ask |-> <<L(1, 1), L(0, 0), L(2, 2)>>, bid |-> <<L(3, 1)>>],
               [ask |-> <<>>, bid |-> <<L(2, 3)>>]}

\* A volume of 1/2, as of a crypto currency, and a board that fills it.
HalfInputs == {Limit("Buy", 2, 1)}
HalfBoards == {[ask |-> <<L(1, 4)>>, bid |-> <<>>]}

\* A market order that needs two levels: there is money for each of them.
PoorInputs == {Any("Buy", 2)}
PoorBoards == {[ask |-> <<L(1, 1), L(2, 1)>>, bid |-> <<>>]}
============================================================================
