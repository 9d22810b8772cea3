---------------------------- MODULE PositionBook ----------------------------
(***************************************************************************)
(* The positions of a Book (core/book.cpp) in one instrument: what          *)
(* PositionBook::update makes of a trade.  A position is its volume: 0      *)
(* stands for no entry in the map, for an entry is created with the volume  *)
(* of a trade, which is positive, and erased when nothing is left of it.    *)
(* Cost prices and profits are left out.                                    *)
(***************************************************************************)
EXTENDS Integers

Directions == {"Long", "Short"}

Positions == [Directions -> Nat]

\* What a strategy orders and a broker trades.
Deals == [side : {"Buy", "Sell"}, offset : {"Open", "Close"}, volume : Nat \ {0}]

NoPositions == [d \in Directions |-> 0]

\* The position a trade is about: a close is booked on the opposite side.
DirectionOf(t) ==
  IF (t.side = "Buy") = (t.offset = "Open") THEN "Long" ELSE "Short"

\* Mutant: a close erases the position, whatever is left of it.
ClosesAll(volume, t) ==
  IF volume = 0 \/ t.offset = "Open" THEN volume + t.volume ELSE 0

\* Without an entry a close makes one, as an open does.
VolumeAfter(volume, t) ==
  IF volume = 0 \/ t.offset = "Open" THEN volume + t.volume
  ELSE IF volume > t.volume THEN volume - t.volume
  ELSE 0

\* PositionBook::update(trade).
Update(positions, t) ==
  [positions EXCEPT ![DirectionOf(t)] = VolumeAfter(@, t)]

-----------------------------------------------------------------------------
\* The volume of a trade with its sign, and that of the book.
Signed(t) == IF t.side = "Buy" THEN t.volume ELSE - t.volume

Net(positions) == positions["Long"] - positions["Short"]

\* A trade that closes no more than there is.
Covered(positions, t) ==
  t.offset = "Close" => t.volume <= positions[DirectionOf(t)]
=============================================================================
