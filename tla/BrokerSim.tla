----------------------------- MODULE BrokerSim -----------------------------
(***************************************************************************)
(* The simulated broker: the orders it holds, the matching thread (live) or *)
(* the sync signal (backtest) that runs a matching round under the mutex,   *)
(* and the handlers of the TD engine that wait for the same mutex. The CP   *)
(* process sends orders, sets the depth on the shared board and keeps a     *)
(* cash book of its own from the trades it reads.                           *)
(*                                                                          *)
(* One account and one instrument. Quantities are exact: a volume counts    *)
(* units of 1/Lot, a price ticks, an executed price ticks/Scale, and money  *)
(* the matching unit. The broker's doubles are exact there too, or nearly.  *)
(***************************************************************************)
EXTENDS Integers, Sequences, FiniteSets

CONSTANTS
  Orders,        \* order ids
  Inputs,        \* the orders a strategy may place
  Boards,        \* what the CP may put on the DepthCallBoard
  Modes,         \* "live", "backtest"
  None,          \* no order, no board, no match, no answer
  Cash,          \* initial_capital
  Scale,         \* rates are in units of 1/Scale
  Slip,          \* slippage_rate_, 0 if it is disabled
  FeeRate,       \* commission_rate_, 0 if it is disabled
  Lot,           \* volume units in a volume of 1
  DefaultPrice,  \* base of generate_market_price for an order with no limit
  Noise,         \* bound: how far generate_market_price strays from the base
  MaxCancels,    \* bound: cancels the strategies ask for
  MaxInbox,      \* bound: messages the TD engine has not handled
  MaxResp        \* bound: responses the CP has not read

Sides  == {"Buy", "Sell"}
Level  == [price : Nat, volume : Nat]
Depth  == [ask : Seq(Level), bid : Seq(Level)]
Input  == [side : Sides, type : {"Limit", "Any"}, limit : Nat, volume : Nat \ {0}]
Status == {"Submitted", "Pending", "Cancelled", "Error", "Filled", "PartialFilledActive"}

ASSUME OrdersAreIds == Orders \subseteq Nat
ASSUME InputsAreOrders == Inputs \subseteq Input
ASSUME BoardsAreDepths == Boards \subseteq Depth
ASSUME ModesAreKnown == Modes \subseteq {"live", "backtest"}
ASSUME NoneIsFree == None \notin Inputs /\ None \notin [left : Nat, status : Status]
ASSUME MoneyIsWhole == Cash \in Nat /\ Scale \in Nat \ {0} /\ Slip \in 0 .. Scale /\ FeeRate \in Nat
ASSUME LotIsPositive == Lot \in Nat \ {0}
ASSUME PricesArePositive == Noise \in Nat /\ DefaultPrice \in Nat
ASSUME BoundsArePositive == MaxCancels \in Nat /\ MaxInbox \in Nat \ {0} /\ MaxResp \in Nat \ {0}

VARIABLES
  mode,       \* is_backtest_
  running,    \* running_, and state_ = Ready
  inbox,      \* events the TD engine has still to handle
  board,      \* the entry of the instrument on the DepthCallBoard
  active,     \* active_orders_
  avail, fees,\* asset_
  held,       \* positions_: held[s], the volume of the position trades of side s build
  lock,       \* who holds mutex_ between two steps: a round or nobody
  todo,       \* orders the round has still to visit
  job,        \* the order being matched level by level
  resp,       \* TD_RESPONSE, what the CP has not read of it
  sent,       \* sent[o]: the input the strategy placed
  cancels,    \* cancels the strategies asked for
  cash,       \* Book::asset.avail of the CP, less what it was at the start
  heard,      \* heard[o]: what the CP read about o, volume traded and answers to cancels
  accepted,   \* history: orders insert_order accepted
  traded      \* history: traded[o], the volume the broker executed

broker == <<active, avail, fees, held, accepted, traded>>
round  == <<lock, todo, job>>
cp     == <<sent, cancels, cash, heard>>
vars   == <<mode, running, inbox, board, broker, round, resp, cp>>

----------------------------------------------------------------------------
Order == [left : Nat, status : Status]
Job   == [order : Orders, levels : Seq(Level), at : Nat, rem : Nat, total : Nat, value : Int]
Event == [kind : {"insert", "cancel", "sync"}, order : Orders \cup {None}]
Answers == {"ok", "status", "unknown"}
TradeResp  == [kind : {"trade"}, order : Orders, volume : Nat, value : Int, fee : Int]
CancelResp == [kind : {"cancel"}, order : Orders, answer : Answers]
SyncResp   == [kind : {"sync"}]

\* static_cast<int64_t> of a volume that is not negative.
Whole(v) == (v \div Lot) * Lot

\* The cost of volume v at limit price p, in units of money.
LimitCost(p, v) == p * Scale * Scale * v

\* price * volume of a trade and its commission, in units of money; value is
\* the executed price times the volume.
Cost(value) == value * Scale
Fee(value)  == value * FeeRate

ApplySlippage(p, side) == IF side = "Buy" THEN p * (Scale + Slip) ELSE p * (Scale - Slip)

\* MarketPrices(o): what generate_market_price may draw.
MarketPrices(o) ==
  LET base == IF sent[o].limit > 0 THEN sent[o].limit ELSE DefaultPrice
  IN  {p \in (base - Noise) .. (base + Noise) : p > 0}

CanExecute(o, final) ==
  sent[o].type = "Limit" =>
     IF sent[o].side = "Buy" THEN final <= sent[o].limit * Scale
                             ELSE final >= sent[o].limit * Scale

FundsSuffice(o, value) == sent[o].side = "Buy" => avail >= Cost(value)

\* build_price_levels: the other side of the board, empty levels left out.
LevelsFor(o, d) == IF sent[o].side = "Buy" THEN d.ask ELSE d.bid
Usable(l) == l.price > 0 /\ l.volume > 0
HasLevels(levels) == \E i \in 1 .. Len(levels) : Usable(levels[i])

Live(o) == active[o] # None
\* Mutant: a cancelled order is matched like any other.
Ended(o) == active[o].status \in {"Filled", "Error"}
Done(o) == active[o].status \in {"Filled", "Cancelled", "Error"}
Cancellable(o) == active[o].status \in {"Submitted", "Pending", "PartialFilledActive"}

SetStatus(o, s) == active' = [active EXCEPT ![o].status = s]
Notify(r) == Len(resp) < MaxResp /\ resp' = Append(resp, r)

----------------------------------------------------------------------------
Init ==
  /\ mode \in Modes /\ running = FALSE /\ inbox = <<>> /\ board = None
  /\ active = [o \in Orders |-> None] /\ avail = Cash /\ fees = 0
  /\ held = [s \in Sides |-> 0]
  /\ lock = "free" /\ todo = {} /\ job = None /\ resp = <<>>
  /\ sent = [o \in Orders |-> None] /\ cancels = 0 /\ cash = 0
  /\ heard = [o \in Orders |-> [traded |-> 0, answers |-> {}]]
  /\ accepted = {} /\ traded = [o \in Orders |-> 0]

----------------------------------------------------------------------------
\* The CP process.

Send(m) == Len(inbox) < MaxInbox /\ inbox' = Append(inbox, m)

\* In backtest the sync signal goes round: it is not with the TD engine.
SignalAway ==
  /\ \A i \in 1 .. Len(inbox) : inbox[i].kind # "sync"
  /\ \A i \in 1 .. Len(resp) : resp[i].kind # "sync"

\* A strategy places an order; ids are never used twice.
Place(o) ==
  /\ sent[o] = None
  /\ \E i \in Inputs : sent' = [sent EXCEPT ![o] = i]
  /\ Send([kind |-> "insert", order |-> o])
  /\ UNCHANGED <<mode, running, board, broker, round, resp, cancels, cash, heard>>

\* A strategy asks to cancel an order it placed, once or more.
AskCancel(o) ==
  /\ sent[o] # None /\ cancels < MaxCancels
  /\ cancels' = cancels + 1
  /\ Send([kind |-> "cancel", order |-> o])
  /\ UNCHANGED <<mode, running, board, broker, round, resp, sent, cash, heard>>

\* LiveSubscriber::on_backtest_sync_signal passes the turn to the TD engine.
SendSync ==
  /\ mode = "backtest" /\ SignalAway
  /\ Send([kind |-> "sync", order |-> None])
  /\ UNCHANGED <<mode, running, board, broker, round, resp, cp>>

\* LiveSubscriber::on_quote; the matching thread copies what it finds. In
\* backtest no quote comes while the TD engine has the signal.
SetDepth ==
  /\ mode = "backtest" => SignalAway
  /\ \E d \in Boards : board # d /\ board' = d
  /\ UNCHANGED <<mode, running, inbox, broker, round, resp, cp>>

\* Mutant: the commission is not charged.
CashLessCost(t) == IF sent[t.order].side = "Buy" THEN cash - Cost(t.value) ELSE cash + Cost(t.value)

\* Book::update: what a trade does to the cash of the CP.
CashAfter(t) ==
  (IF sent[t.order].side = "Buy" THEN cash - Cost(t.value) ELSE cash + Cost(t.value)) - t.fee

ReadTrade(t) ==
  /\ cash' = CashAfter(t)
  /\ heard' = [heard EXCEPT ![t.order].traded = @ + t.volume]

ReadAnswer(r) ==
  /\ heard' = [heard EXCEPT ![r.order].answers = @ \cup {r.answer}]
  /\ UNCHANGED cash

Read ==
  /\ resp # <<>>
  /\ LET r == Head(resp)
     IN  \/ r.kind = "trade" /\ ReadTrade(r)
         \/ r.kind = "cancel" /\ ReadAnswer(r)
         \/ r.kind = "sync" /\ UNCHANGED <<cash, heard>>
  /\ resp' = Tail(resp)
  /\ UNCHANGED <<mode, running, inbox, board, broker, round, sent, cancels>>

----------------------------------------------------------------------------
\* The handlers of the TD engine; each takes the mutex for all of its work.

\* on_trading_start, which works once, and start().
TradingStart ==
  /\ lock = "free" /\ ~running
  /\ running' = TRUE
  /\ UNCHANGED <<mode, inbox, board, broker, round, resp, cp>>

Handles(kind, o) ==
  /\ lock = "free" /\ inbox # <<>>
  /\ Head(inbox).kind = kind /\ Head(inbox).order = o
  /\ inbox' = Tail(inbox)

\* Before trading starts the message is logged and forgotten.
Ignore(o) ==
  /\ \E kind \in {"insert", "cancel"} : Handles(kind, o)
  /\ ~running
  /\ UNCHANGED <<mode, running, board, broker, round, resp, cp>>

\* insert_order; the funds of other active orders are not set aside.
Affordable(o) == sent[o].side = "Buy" => avail >= LimitCost(sent[o].limit, sent[o].volume)

Insert(o) ==
  /\ Handles("insert", o) /\ running
  /\ IF Affordable(o)
     THEN /\ active' = [active EXCEPT ![o] = [left |-> sent[o].volume, status |-> "Submitted"]]
          /\ accepted' = accepted \cup {o}
     ELSE UNCHANGED <<active, accepted>>
  /\ UNCHANGED <<mode, running, board, avail, fees, held, traded, round, resp, cp>>

\* Mutant: the status of the order is not looked at.
CancelAnswerLive(o) == IF ~Live(o) THEN "unknown" ELSE "ok"

\* cancel_order: answered in all cases, and the order stays in the map.
CancelAnswer(o) ==
  IF ~Live(o) THEN "unknown" ELSE IF Cancellable(o) THEN "ok" ELSE "status"

\* Mutant: the answer is left out if the order is gone.
CancelIfLive(o) ==
  /\ Handles("cancel", o) /\ running
  /\ IF CancelAnswer(o) = "ok" THEN SetStatus(o, "Cancelled") ELSE UNCHANGED active
  /\ IF Live(o) THEN Notify([kind |-> "cancel", order |-> o, answer |-> CancelAnswer(o)])
                ELSE UNCHANGED resp
  /\ UNCHANGED <<mode, running, board, avail, fees, held, accepted, traded, round, cp>>

Cancel(o) ==
  /\ Handles("cancel", o) /\ running
  /\ IF CancelAnswer(o) = "ok" THEN SetStatus(o, "Cancelled") ELSE UNCHANGED active
  /\ Notify([kind |-> "cancel", order |-> o, answer |-> CancelAnswer(o)])
  /\ UNCHANGED <<mode, running, board, avail, fees, held, accepted, traded, round, cp>>

----------------------------------------------------------------------------
\* A matching round: process_order_matching, under the mutex.

\* The matching thread begins it every 100 ms, or the sync signal does, whether
\* or not trading has started.
BeginRound ==
  /\ lock = "free"
  /\ \/ mode = "live" /\ running
     \/ mode = "backtest" /\ inbox # <<>> /\ Head(inbox).kind = "sync"
  /\ lock' = "round"
  /\ todo' = {o \in Orders : Live(o)}
  /\ UNCHANGED <<mode, running, inbox, board, broker, job, resp, cp>>

\* The next order of the iteration, by id.
Visits(o) ==
  /\ lock = "round" /\ job = None
  /\ o \in todo /\ \A p \in todo : o <= p
  /\ todo' = todo \ {o}

Skip(o) ==
  /\ Visits(o) /\ Done(o)
  /\ UNCHANGED <<mode, running, inbox, board, broker, lock, job, resp, cp>>

\* Mutant: what is left is computed from the volume of the order.
LeftOfVolume(o, v) == sent[o].volume - Whole(v)

\* execute_summary_trade, update_position, update_asset, and the erase in the
\* loop of process_order_matching.
LeftAfter(o, v) == active[o].left - Whole(v)
AvailAfter(o, value) ==
  (IF sent[o].side = "Buy" THEN avail - Cost(value) ELSE avail + Cost(value)) - Fee(value)

Execute(o, v, value) ==
  /\ active' = [active EXCEPT ![o] =
       IF LeftAfter(o, v) = 0 THEN None
       ELSE [left |-> LeftAfter(o, v), status |-> "PartialFilledActive"]]
  /\ held' = [held EXCEPT ![sent[o].side] = @ + v]
  /\ avail' = AvailAfter(o, value)
  /\ fees' = fees + Fee(value)
  /\ traded' = [traded EXCEPT ![o] = @ + v]
  /\ Notify([kind |-> "trade", order |-> o, volume |-> v, value |-> value, fee |-> Fee(value)])
  /\ UNCHANGED accepted

\* handle_no_depth_execution: the whole order at once, whatever its limit.
SimulatedPrices(o) ==
  IF sent[o].type = "Limit" THEN {sent[o].limit * Scale}
  ELSE {ApplySlippage(p, sent[o].side) : p \in MarketPrices(o)}

NoDepth(o) ==
  /\ Visits(o) /\ ~Done(o) /\ board = None
  /\ \E p \in SimulatedPrices(o) :
       LET value == p * active[o].left
       IN  IF FundsSuffice(o, value)
           THEN Execute(o, active[o].left, value)
           ELSE /\ SetStatus(o, "Error")
                /\ UNCHANGED <<avail, fees, held, accepted, traded, resp>>
  /\ UNCHANGED <<mode, running, inbox, board, lock, job, cp>>

\* No level on the other side of the board.
NoLevel(o) ==
  /\ Visits(o) /\ ~Done(o)
  /\ board # None /\ ~HasLevels(LevelsFor(o, board))
  /\ IF active[o].status = "Submitted" THEN SetStatus(o, "Pending") ELSE UNCHANGED active
  /\ UNCHANGED <<mode, running, inbox, board, avail, fees, held, accepted, traded,
                 lock, job, resp, cp>>

\* The depth is copied and the levels are walked from the best one.
StartMatch(o) ==
  /\ Visits(o) /\ ~Done(o)
  /\ board # None /\ HasLevels(LevelsFor(o, board))
  /\ job' = [order |-> o, levels |-> LevelsFor(o, board), at |-> 1,
             rem |-> active[o].left, total |-> 0, value |-> 0]
  /\ UNCHANGED <<mode, running, inbox, board, broker, lock, resp, cp>>

\* Mutant: a level is taken whole.
WholeLevel(a, b) == b

Smaller(a, b) == IF a <= b THEN a ELSE b

\* Mutant: the limit is checked against the price before slippage.
GoesOnBeforeSlippage ==
  /\ job.at <= Len(job.levels) /\ job.rem > 0
  /\ LET l == job.levels[job.at] IN Usable(l) => CanExecute(job.order, l.price * Scale)

\* The loop of match_order_with_market_data goes on: there is a level, something
\* left to fill, and the price with slippage is within the limit.
GoesOn ==
  /\ job.at <= Len(job.levels) /\ job.rem > 0
  /\ LET l == job.levels[job.at]
     IN  Usable(l) => CanExecute(job.order, ApplySlippage(l.price, sent[job.order].side))

\* One turn of the loop. A level that avail does not pay for is passed over;
\* avail does not yet miss what the levels before it cost.
TakeLevel ==
  /\ job # None /\ GoesOn
  /\ LET l     == job.levels[job.at]
         v     == Smaller(job.rem, l.volume)
         value == ApplySlippage(l.price, sent[job.order].side) * v
     IN  job' = IF Usable(l) /\ FundsSuffice(job.order, value)
                THEN [job EXCEPT !.at = @ + 1, !.rem = @ - v,
                                 !.total = @ + v, !.value = @ + value]
                ELSE [job EXCEPT !.at = @ + 1]
  /\ UNCHANGED <<mode, running, inbox, board, broker, lock, todo, resp, cp>>

\* generate_summary_trade and execute_summary_trade, if anything was taken.
FinishMatch ==
  /\ job # None /\ ~GoesOn
  /\ IF job.total > 0 THEN Execute(job.order, job.total, job.value)
                      ELSE UNCHANGED <<broker, resp>>
  /\ job' = None
  /\ UNCHANGED <<mode, running, inbox, board, lock, todo, cp>>

\* The mutex is released; in backtest the TD engine returns the signal.
EndRound ==
  /\ lock = "round" /\ todo = {} /\ job = None
  /\ lock' = "free"
  /\ IF mode = "backtest"
     THEN inbox' = Tail(inbox) /\ Notify([kind |-> "sync"])
     ELSE UNCHANGED <<inbox, resp>>
  /\ UNCHANGED <<mode, running, board, broker, todo, job, cp>>

----------------------------------------------------------------------------
Handle == \E o \in Orders : Ignore(o) \/ Insert(o) \/ Cancel(o)

Round ==
  \/ \E o \in Orders : Skip(o) \/ NoDepth(o) \/ NoLevel(o) \/ StartMatch(o)
  \/ TakeLevel \/ FinishMatch \/ EndRound

Next ==
  \/ \E o \in Orders : Place(o) \/ AskCancel(o)
  \/ SendSync \/ SetDepth \/ Read
  \/ TradingStart \/ Handle
  \/ BeginRound \/ Round

Spec == Init /\ [][Next]_vars

\* Both processes and the matching thread keep running. The thread sleeps
\* between two rounds with the mutex free, so a handler gets it in the end.
FairSpec == Spec /\ WF_vars(Read) /\ WF_vars(Round)
                 /\ WF_vars(mode = "backtest" /\ BeginRound) /\ SF_vars(Handle)

----------------------------------------------------------------------------
\* Types of the variables.
TypeOK ==
  /\ mode \in Modes /\ running \in BOOLEAN
  /\ inbox \in Seq(Event) /\ board \in Boards \cup {None}
  /\ active \in [Orders -> Order \cup {None}]
  /\ avail \in Int /\ fees \in Int /\ held \in [Sides -> Nat]
  /\ lock \in {"free", "round"} /\ todo \subseteq Orders /\ job \in Job \cup {None}
  /\ resp \in Seq(TradeResp \cup CancelResp \cup SyncResp)
  /\ sent \in [Orders -> Inputs \cup {None}] /\ cancels \in Nat /\ cash \in Int
  /\ heard \in [Orders -> [traded : Nat, answers : SUBSET Answers]]
  /\ accepted \subseteq Orders /\ traded \in [Orders -> Nat]

\* What an accepted order still has to trade and what it traded make up its
\* volume; it leaves the map when, and only when, all of it is traded.
Conserved ==
  \A o \in Orders :
    IF o \notin accepted THEN traded[o] = 0 /\ ~Live(o)
    ELSE IF Live(o)
      THEN active[o].left > 0 /\ traded[o] + active[o].left = sent[o].volume
      ELSE traded[o] = sent[o].volume

\* A trade the CP reads is no worse than the limit of its order, slippage
\* included, though the price is an average over levels.
LimitRespected ==
  \A i \in 1 .. Len(resp) :
    resp[i].kind = "trade" /\ sent[resp[i].order].type = "Limit" =>
      LET bound == sent[resp[i].order].limit * Scale * resp[i].volume
      IN  IF sent[resp[i].order].side = "Buy" THEN resp[i].value <= bound
                                              ELSE resp[i].value >= bound

\* The CP and the broker agree on the money once the CP has read everything,
\* whatever became of the orders in between.
BooksAgree == resp = <<>> => Cash + cash = avail

\* Once the CP read that an order is cancelled, it reads no trade of it.
CancelIsFinal ==
  [][\A o \in Orders : "ok" \in heard[o].answers => heard'[o].traded = heard[o].traded]_vars

\* A cancel the TD engine takes while trading is on is answered, even if the
\* matching thread runs all the time and whatever became of the order.
CancelWaits(o) ==
  running /\ \E i \in 1 .. Len(inbox) : inbox[i] = [kind |-> "cancel", order |-> o]
CancelAnswered == \A o \in Orders : CancelWaits(o) ~> heard[o].answers # {}

\* The CP is never told of more than was ordered: "Filled: all volume executed".
FillsAtMostVolume ==
  \A o \in Orders : sent[o] # None => heard[o].traded <= sent[o].volume

\* Buying takes no more than there is: the check of the funds before each fill.
SpendsWhatThereIs == avail >= 0

----------------------------------------------------------------------------
\* An order as the strategies may see it: what the broker has inside is where
\* in its life an order is and what is left of it.
InsertWaits(o) == \E i \in 1 .. Len(inbox) : inbox[i] = [kind |-> "insert", order |-> o]

LifeOf(o) ==
  IF Live(o) THEN IF Cancellable(o) THEN "open"
                  ELSE IF active[o].status = "Cancelled" THEN "cancelled" ELSE "error"
  ELSE IF o \in accepted THEN "filled"
  ELSE IF sent[o] = None THEN "new"
  ELSE IF InsertWaits(o) THEN "placed" ELSE "lost"

Lives == [o \in Orders |-> LifeOf(o)]
Lefts == [o \in Orders |-> IF Live(o) THEN active[o].left ELSE 0]

X == INSTANCE Exchange WITH
       input <- sent, life <- Lives, left <- Lefts, money <- avail, news <- resp

\* Behind the mutex, the rounds and the walk over the levels is an exchange
\* that does one thing at a time: every step of the broker is one of its, or
\* none, although an order is looked at, walked and booked in several steps
\* between which strategies go on and quotes change.
ImplementsExchange == X!Spec
============================================================================
