----------------------------- MODULE SessionInv -----------------------------
(***************************************************************************)
(* What the turn-taking of a backtest promises, and the invariants behind.  *)
(***************************************************************************)
EXTENDS Session

\* Each engine's place, frames for its reader only, loops over what there is.
TypeOK ==
  /\ pc \in [Engines -> {"new", "starting", "preparing", "idle", "strategies",
                         "serving", "matching", "ending", "stopped", "crashed"}]
  /\ late \subseteq Requests
  /\ inbox \in [Engines -> Seq(Frames)]
  /\ toWrite \subseteq ToTd /\ toServe \subseteq Services
  /\ toMatch \subseteq Orders
  /\ success \in BOOLEAN /\ signal \in [{"md", "td"} -> Signals \cup {None}]
  /\ started \in [{"md", "td"} -> BOOLEAN]
  /\ row \in [Services -> Nat] /\ \A s \in Services : row[s] <= Len(Rows[s])
  /\ deal \in [Orders -> Wanted \cup {None}]
  /\ order \in [Orders -> Progress]
  /\ positions \in Positions /\ bought \in Int
  /\ early \in BOOLEAN

\* Engine e has a frame of one of these types to handle.
Waits(e, types) == \E i \in DOMAIN inbox[e] : inbox[e][i].type \in types

SignalsAt(e) == {i \in DOMAIN inbox[e] : inbox[e][i].type \in Signals}

Starting == pc["cp"] \in {"new", "starting", "preparing"}

DataTurn ==
  \/ Waits("md", Signals) \/ pc["md"] = "serving"
  \/ Waits("cp", {"MarketData"})

MatchTurn ==
  \/ Waits("td", Signals) \/ pc["td"] = "matching"
  \/ Waits("cp", {"MatchOrder"})

-----------------------------------------------------------------------------
\* There is one turn: no second signal is under way, and neither side works
\* while one is.  (LiveSubscriber passes on what it is sent, and the engines
\* answer what they are sent: a doubled signal would go round for ever.)
OneTurn ==
  /\ \A d, e \in Engines : \A i \in SignalsAt(d), j \in SignalsAt(e) :
       d = e /\ i = j
  /\ (\E e \in Engines : SignalsAt(e) # {}) =>
       ~ Starting /\ pc["md"] # "serving" /\ pc["td"] # "matching"
  /\ pc["md"] = "serving" => ~ Starting /\ pc["td"] # "matching"
  /\ pc["td"] = "matching" => ~ Starting

\* The engines keep to the turns of Turns.
Turn ==
  IF Starting THEN "none" ELSE IF DataTurn THEN "data"
  ELSE IF MatchTurn THEN "match" ELSE "over"

T == INSTANCE Turns WITH turn <- Turn

ImplementsTurns == T!Spec

\* No row is read, and the engines are not ended, before every trade of the
\* rounds so far is booked: the strategies see the next bar with the
\* positions the broker has.
BookIsUpToDate ==
  pc["md"] = "serving" \/ pc["cp"] \in {"ending", "stopped"} =>
    ~ Waits("cp", {"Trade"})

\* The orders are matched when the strategies have seen the bars before; the
\* signal may only overtake a Bar in a tie.
BarsComeFirst ==
  pc["td"] = "matching" /\ ~ early => ~ Waits("cp", {"Bar"})

\* No order meets a broker that is not Ready: pre_start writes a TradingStart to
\* the journal the orders come in. Only a td that joined that journal late, in
\* the very clock reading it was constructed in, may have skipped it.
NoneIgnored ==
  (\E o \in Orders : order[o] = "ignored") =>
    \E i \in DOMAIN inbox["td"] :
      LET f == inbox["td"][i] IN
      f.on = "Account" /\ f.type = "TradingStart" /\ f.fate = "skipped"

\* The files are read in step: one is at most a row ahead of another, which
\* then has its turn to come or has no row left.
RowsInStep ==
  \A s, t \in Services :
    row[s] <= row[t] + (IF (t \in toServe /\ s \notin toServe) \/ ~ HasRow(t)
                        THEN 1 ELSE 0)

\* With strategies that close no more than they hold, what the book holds is
\* what was bought less what was sold.
NetIsBought == Net(positions) = bought

\* What was written to engine e and is never offered to it.
LostAt(e) == {i \in DOMAIN inbox[e] : inbox[e][i].fate # "offered"}

\* Every engine ends, however long the files are and whatever the strategies
\* order, unless a short row kills the process, or a frame that passes the turn
\* or ends an engine is lost on it.
SessionEnds ==
  <>(\/ \A e \in Engines : pc[e] = "stopped"
     \/ \A e \in Engines : pc[e] = "crashed"
     \/ \E e \in Engines : \E i \in LostAt(e) :
          inbox[e][i].type \in Signals \cup {"Termination"})

-----------------------------------------------------------------------------
(***************************************************************************)
(* The inductive invariant.                                                *)
(***************************************************************************)

\* The places of each engine's code, and the signal it is working on.
PlaceInv ==
  /\ pc["md"] \in {"idle", "serving", "stopped", "crashed"}
  /\ pc["td"] \in {"idle", "matching", "stopped", "crashed"}
  /\ pc["cp"] \notin {"serving", "matching"}
  /\ pc["md"] = "serving" => signal["md"] = "MarketData"
  /\ pc["td"] = "matching" => signal["td"] = "MatchOrder"

\* What may come in which journal.
FrameInv ==
  /\ \A i \in DOMAIN inbox["md"] :
       inbox["md"][i].type \in {"TradingStart", "MarketData", "Termination"}
  /\ \A i \in DOMAIN inbox["td"] :
       LET f == inbox["td"][i] IN
       /\ f.type \in {"TradingStart", "Order", "MatchOrder", "Termination"}
       /\ f.type = "Order" => f.on = "Account" /\ f.order \in Orders
  /\ \A i \in DOMAIN inbox["cp"] :
       LET f == inbox["cp"][i] IN
       /\ f.type \in {"Bar", "Trade", "MarketData", "MatchOrder", "Termination"}
       /\ f.type \in {"Trade", "MatchOrder"} => f.on = "TdResp"
       /\ f.type = "Trade" => f.order \in Orders
       /\ f.on \notin Requests /\ f.fate # "skipped"

\* The data has come to an end, or the process.
Ended ==
  Waits("cp", {"Termination"}) \/ pc["cp"] \in {"ending", "stopped", "crashed"}

\* Then no signal is under way, and md will not send another.
EndInv ==
  Ended => /\ ~ Starting /\ pc["td"] # "matching"
           /\ \A e \in Engines : SignalsAt(e) = {}
           /\ pc["md"] = "serving" => ~ success

\* The trades of a round stand before the signal that ends it.
TradeInv ==
  \A i \in DOMAIN inbox["cp"] : inbox["cp"][i].type = "Trade" =>
    \/ pc["td"] = "matching"
    \/ \E j \in DOMAIN inbox["cp"] : j > i /\ inbox["cp"][j].type = "MatchOrder"

\* The bars of a turn stand before the signal that ends it; without a tie
\* they are handled before td has its turn.
BarInv ==
  /\ \A i, j \in DOMAIN inbox["cp"] :
       inbox["cp"][i].type = "Bar" /\ inbox["cp"][j].type = "MarketData" => i < j
  /\ (pc["td"] = "matching" \/ Waits("td", Signals)) /\ ~ early =>
       ~ Waits("cp", {"Bar"})

\* A TradingStart stands before the first order of the account's journal.
StartsBefore(q, n) ==
  \E j \in DOMAIN q : j < n /\ q[j].type = "TradingStart" /\ q[j].on = "Account"

OrdersAfter(q, begun) ==
  \A i \in DOMAIN q : q[i].type = "Order" => begun \/ StartsBefore(q, i)

ToStart(place, left) ==
  place = "new" \/ (place = "starting" /\ "Account" \in left)

StartInv ==
  /\ \/ ToStart(pc["cp"], toWrite) \/ started["td"]
     \/ StartsBefore(inbox["td"], Len(inbox["td"]) + 1)
  /\ OrdersAfter(inbox["td"], started["td"])

\* The files within a turn, between two turns, and at the end.
RowInv ==
  /\ ~ started["md"] => \A s \in Services : row[s] = 0
  /\ pc["md"] \notin {"serving", "crashed"} => toServe = {}
  /\ pc["md"] = "serving" /\ ~ success => Ended
  /\ \A s, t \in Services :
       /\ ~ Ended /\ pc["md"] # "serving" => row[s] = row[t]
       /\ s \in toServe /\ t \in toServe => row[s] = row[t]
       /\ s \notin toServe /\ t \in toServe =>
            \/ row[s] = row[t] + 1
            \/ row[s] = row[t] /\ ~ HasRow(s) /\ ~ success
       /\ s \notin toServe /\ t \notin toServe =>
            /\ row[s] <= row[t] + (IF HasRow(t) THEN 0 ELSE 1)
            /\ pc["md"] = "serving" /\ success => row[s] = row[t]

\* Each order is in one place.
OrderInv ==
  /\ \A o \in Orders : (deal[o] = None) = (order[o] = "new")
  /\ \A o \in toMatch : order[o] = "accepted"
  /\ \A i \in DOMAIN inbox["td"] : inbox["td"][i].type = "Order" =>
       order[inbox["td"][i].order] = "sent"
  /\ \A i, j \in DOMAIN inbox["td"] :
       /\ inbox["td"][i].type = "Order" /\ inbox["td"][j].type = "Order"
       /\ inbox["td"][i].order = inbox["td"][j].order
       => i = j
  /\ \A i \in DOMAIN inbox["cp"] : inbox["cp"][i].type = "Trade" =>
       order[inbox["cp"][i].order] = "filled"
  /\ \A i, j \in DOMAIN inbox["cp"] :
       /\ inbox["cp"][i].type = "Trade" /\ inbox["cp"][j].type = "Trade"
       /\ inbox["cp"][i].order = inbox["cp"][j].order
       => i = j

\* What a strategy asked to close is there until it is closed.
Closing(o) == order[o] \notin {"new", "booked"} /\ deal[o].offset = "Close"

CloseInv ==
  /\ \A o \in Orders : Closing(o) => Covered(positions, deal[o])
  /\ \A o, p \in Orders : Closing(o) /\ Closing(p) /\ o # p =>
       DirectionOf(deal[o]) # DirectionOf(deal[p])

IInv ==
  /\ TypeOK /\ PlaceInv /\ FrameInv /\ OneTurn /\ EndInv /\ TradeInv /\ BarInv
  /\ StartInv /\ RowInv /\ OrderInv /\ CloseInv /\ NetIsBought /\ NoneIgnored
=============================================================================
