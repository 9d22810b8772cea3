-------------------------------- MODULE Turns --------------------------------
(***************************************************************************)
(* What BacktestSyncSignal (core/types.h) promises: "synchronize md/td      *)
(* behaviours in backtest".  Market data and matching take turns, beginning *)
(* with the data; the data may come to an end, in its own turn, and then    *)
(* nobody has the turn any more.                                            *)
(***************************************************************************)
VARIABLE turn

Init == turn = "none"

Begin == turn = "none" /\ turn' = "data"

DataDone == turn = "data" /\ turn' = "match"

MatchDone == turn = "match" /\ turn' = "data"

EndOfData == turn = "data" /\ turn' = "over"

Next == Begin \/ DataDone \/ MatchDone \/ EndOfData

Spec == Init /\ [][Next]_turn

\* With a finite amount of data it ends.
Ends == <>(turn = "over")
=============================================================================
