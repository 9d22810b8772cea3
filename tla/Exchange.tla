------------------------------ MODULE Exchange ------------------------------
(***************************************************************************)
(* What a TradeService (broker/trade_service.h) promises the strategies of  *)
(* one account, whatever threads, rounds and books it has inside.  An order *)
(* is taken or lost, is filled in portions that are worth its limit, and    *)
(* comes to one end, after which it never trades again.  Money moves with   *)
(* the fills and never else.  The strategies read the news in the order in  *)
(* which it happened, and with whole volumes the portions never make more   *)
(* than was ordered.                                                        *)
(***************************************************************************)
EXTENDS Integers, Sequences

CONSTANTS
  Orders,
  Inputs,   \* what may be ordered: side, type, limit and volume
  None,     \* nothing ordered
  Cash,     \* the money there is at the start
  Scale     \* a price counts ticks, the value of a fill ticks/Scale

VARIABLES
  input,    \* input[o]: what was ordered
  life,     \* life[o]: where the order is in its life, an OrderStatus
  left,     \* left[o]: what an order that was taken has still to trade
  money,    \* the money of the account
  news,     \* what happened and was not read
  heard,    \* heard[o]: volume traded and answers to cancels, as read
  cash      \* the money as the reader counts it, less that at the start

vars == <<input, life, left, money, news, heard, cash>>

Init ==
  /\ input = [o \in Orders |-> None] /\ life = [o \in Orders |-> "new"]
  /\ left = [o \in Orders |-> 0] /\ money = Cash /\ news = <<>>
  /\ heard = [o \in Orders |-> [traded |-> 0, answers |-> {}]] /\ cash = 0

Becomes(o, l) == life' = [life EXCEPT ![o] = l]
Tell(n) == news' = Append(news, n)

----------------------------------------------------------------------------
Place(o) ==
  /\ life[o] = "new" /\ Becomes(o, "placed")
  /\ \E i \in Inputs : input' = [input EXCEPT ![o] = i]
  /\ UNCHANGED <<left, money, news, heard, cash>>

\* An order to buy is taken if there is money for all of it at its limit.
Accept(o) ==
  /\ life[o] = "placed" /\ Becomes(o, "open")
  /\ input[o].side = "Buy" => money >= input[o].limit * Scale * Scale * input[o].volume
  /\ left' = [left EXCEPT ![o] = input[o].volume]
  /\ UNCHANGED <<input, money, news, heard, cash>>

\* Nobody is told of an order that is not taken, or fails for want of money.
Lose(o) ==
  /\ life[o] = "placed" /\ Becomes(o, "lost")
  /\ UNCHANGED <<input, left, money, news, heard, cash>>

Fail(o) ==
  /\ life[o] = "open" /\ Becomes(o, "error")
  /\ UNCHANGED <<input, left, money, news, heard, cash>>

\* What fill t of an order costs or brings.
Proceeds(t) ==
  (IF input[t.order].side = "Buy" THEN - (t.value * Scale) ELSE t.value * Scale) - t.fee

WorthIt(o, t) ==
  input[o].type = "Limit" =>
    LET bound == input[o].limit * Scale * t.volume
    IN  IF input[o].side = "Buy" THEN t.value <= bound ELSE t.value >= bound

\* A portion of an open order is traded, and told.
Fill(o) ==
  /\ life[o] = "open" /\ Len(news') = Len(news) + 1
  /\ LET t == news'[Len(news) + 1]
     IN  /\ t.kind = "trade" /\ t.order = o /\ t.volume \in 1 .. left[o] /\ WorthIt(o, t)
         /\ Tell(t)
         /\ left' = [left EXCEPT ![o] = @ - t.volume]
         /\ Becomes(o, IF t.volume = left[o] THEN "filled" ELSE "open")
         /\ money' = money + Proceeds(t)
  /\ UNCHANGED <<input, heard, cash>>

\* A cancel is answered; it never overtakes the order it is about.
Answer(o) ==
  /\ life[o] \notin {"new", "placed"}
  /\ LET verdict == IF life[o] = "open" THEN "ok"
                    ELSE IF life[o] \in {"cancelled", "error"} THEN "status" ELSE "unknown"
     IN  Tell([kind |-> "cancel", order |-> o, answer |-> verdict])
  /\ IF life[o] = "open" THEN Becomes(o, "cancelled") ELSE UNCHANGED life
  /\ UNCHANGED <<input, left, money, heard, cash>>

\* In a backtest the turn goes back through the news.
Signal ==
  /\ Tell([kind |-> "sync"])
  /\ UNCHANGED <<input, life, left, money, heard, cash>>

Hear ==
  /\ news # <<>> /\ news' = Tail(news)
  /\ LET n == Head(news)
     IN  \/ /\ n.kind = "trade" /\ cash' = cash + Proceeds(n)
            /\ heard' = [heard EXCEPT ![n.order].traded = @ + n.volume]
         \/ /\ n.kind = "cancel" /\ UNCHANGED cash
            /\ heard' = [heard EXCEPT ![n.order].answers = @ \cup {n.answer}]
         \/ n.kind = "sync" /\ UNCHANGED <<cash, heard>>
  /\ UNCHANGED <<input, life, left, money>>

Next ==
  \/ \E o \in Orders : Place(o) \/ Accept(o) \/ Lose(o) \/ Fail(o) \/ Fill(o) \/ Answer(o)
  \/ Signal \/ Hear

Spec == Init /\ [][Next]_vars
============================================================================
