--------------------------- MODULE MCBinanceBroker ---------------------------
(***************************************************************************)
(* An instance of BinanceBroker for TLC: an order, its cancel, a request    *)
(* for the state of an order and one of which no message is made.           *)
(***************************************************************************)
EXTENDS BinanceBrokerInv, TLC

CONSTANTS order, cancel, status, positions

TypeOf ==
  order :> "OrderPlace" @@ cancel :> "OrderCancel" @@ status :> "OrderState"
    @@ positions :> None

TargetOf ==
  order :> order @@ cancel :> order @@ status :> status
    @@ positions :> positions
=============================================================================
