------------------------------- MODULE Session -------------------------------
(***************************************************************************)
(* A backtest: the three engines that Mentor runs as threads of one process *)
(* (main/mentor_run.cpp), from CPEngine's pre_start to the Termination that  *)
(* the end of a data file sets off.                                         *)
(*                                                                         *)
(*   md  MDEngine and its FileDataServices, one CSV file each               *)
(*   cp  CPEngine, LiveSubscriber and the strategies, with their Book       *)
(*   td  TDEngine and one BrokerSim                                         *)
(*                                                                         *)
(* They talk through journals only.  inbox[e] holds the frames that engine  *)
(* e has not handled, in the order in which they were published.  A frame   *)
(* is tied to the one before it when the reader need not see that one as    *)
(* the older: both carry one reading of the clock, or Reader::sort looked   *)
(* at the journal of the older too early (module EventLoop).                *)
(*                                                                         *)
(* A frame may also be lost on its reader, and then stays in the inbox for   *)
(* ever: skipped, because an engine joins a journal in its own thread, after *)
(* its begin_time_ was taken, and skips what carries that reading; or behind *)
(* a page end, which a reader never gets past (module EventLoop).            *)
(*                                                                         *)
(* Abstracted here: the board is empty, as in a backtest without quotes, so *)
(* an order is filled whole or not at all; whether the funds suffice is     *)
(* left open (module BrokerSim); cancels (BrokerSim); cost prices.          *)
(***************************************************************************)
EXTENDS Integers, Sequences, FiniteSets, Functions, PositionBook

CONSTANTS
  Services,    \* the data services of the configuration
  Rows,        \* the rows of their files, [Services -> Seq(RowKinds)]
  Orders,      \* the orders strategies may send
  Wanted,      \* what they may order, a set of Deals
  None,        \* no order, no deal
  Ties,        \* can the clock give two events one reading?
  MaxTurned    \* bound: journals whose page is turned

\* A row with a date and numbers; one that FileDataService makes no Bar of; and
\* one of less than six columns, of which it only warns.
RowKinds == {"bar", "unusable", "short"}

ToTd == {"TdReq", "Account"}

Journals == {"MdReq", "MdResp", "TdResp"} \cup ToTd \cup Services

ASSUME RowsAreRows == Rows \in [Services -> Seq(RowKinds)]
ASSUME WantedAreDeals == Wanted \subseteq Deals
ASSUME NoneIsNothing == None \notin Orders \cup Wanted
ASSUME NamesDiffer == Services \cap ({"MdReq", "MdResp", "TdResp"} \cup ToTd) = {}
ASSUME TiesIsBoolean == Ties \in BOOLEAN
ASSUME MaxTurnedIsNatural == MaxTurned \in Nat

Engines == {"md", "cp", "td"}

\* The journals that md and td join in their threads.
Requests == {"MdReq"} \cup ToTd

ReaderOf(on) == IF on = "MdReq" THEN "md" ELSE "td"

Types == {"TradingStart", "Bar", "Order", "Trade", "MarketData", "MatchOrder",
          "Termination"}

\* MarketData and MatchOrder are the two flags of a BacktestSyncSignal.
Signals == {"MarketData", "MatchOrder"}

\* What becomes of a frame: offered to its reader, or lost on it.
Fates == {"offered", "skipped", "beyond"}

Frames == [on : Journals, type : Types, order : Orders \cup {None},
           tied : BOOLEAN, fate : Fates]

\* An order is sent, then accepted by the broker or refused; the round fills
\* it or drops it for want of funds; its trade is booked by the CP.
Progress == {"new", "sent", "ignored", "refused", "accepted", "error",
             "filled", "booked"}

VARIABLES
  pc,         \* where each engine is: see TypeOK
  late,       \* the Requests still to be joined, while the clock still reads
              \* the begin_time_ of their reader
  inbox,      \* the frames each engine has not handled
  toWrite,    \* cp: the journals of td a loop over writers_ has not reached
  toServe,    \* md: the services a handler has not reached
  toMatch,    \* td: the orders the round has not reached
  success,    \* md: the local of that name in on_backtest_sync_signal
  signal,     \* md, td: the flag of the signal that is handled
  started,    \* td: is_trading_started_; md: the headers are read
  row,        \* the rows read of each file
  deal,       \* what each order is for
  order,      \* the progress of each order
  positions,  \* the PositionBook of the executor
  bought,     \* history: what the booked trades bought, less what they sold
  early       \* history: cp passed the turn to td over frames it had before,
              \* in a tie or behind a page end

loops == <<toWrite, toServe, toMatch, success, signal>>
books == <<deal, order, positions, bought>>
vars == <<pc, late, inbox, loops, started, row, books, early>>

-----------------------------------------------------------------------------
\* Journals

Msg(on, type, o) ==
  [on |-> on, type |-> type, order |-> o, tied |-> FALSE, fate |-> "offered"]

\* The journals whose page was turned.
Turned ==
  UNION {{f.on : f \in {g \in Range(inbox[e]) : g.fate = "beyond"}} : e \in Engines}

\* Journal::seek_to_time skips what is not newer than begin_time_; the writer
\* turns the page when it is full.
FatesOn(on) ==
  IF on \in late THEN {"skipped"}
  ELSE IF on \in Turned THEN {"beyond"}
  ELSE {"offered"} \cup {f \in {"beyond"} : Cardinality(Turned) < MaxTurned}

\* Is one of the first n frames of q offered to its reader?
IsOffered(q, n) == \E h \in 1 .. n : q[h].fate = "offered"

\* The queue q when msg was written behind it.
Written(q, msg) ==
  {Append(q, [msg EXCEPT !.tied = w[1], !.fate = w[2]]) :
     w \in {v \in BOOLEAN \X FatesOn(msg.on) :
              v[1] => Ties /\ v[2] = "offered" /\ IsOffered(q, Len(q))}}

Publish(e, msg) ==
  \E q \in Written(inbox[e], msg) : inbox' = [inbox EXCEPT ![e] = q]

\* A frame is tied to the one offered before it: those in front of frame i are
\* tied, up to it, but for the first of them.
IsTied(q, i) ==
  \A j \in 1 .. i : q[j].fate = "offered" /\ IsOffered(q, j - 1) => q[j].tied

\* Mutant: a tied frame is chosen before an older one of its own journal.
DueOrTied(q) ==
  {i \in DOMAIN q :
     /\ q[i].fate = "offered"
     /\ IsTied(q, i)}

\* The frames Reader::sort may choose next: the first of its journal, but for
\* those skipped, with nothing in front that it is sure to see as older.
Due(q) ==
  {i \in DOMAIN q :
     /\ q[i].fate = "offered"
     /\ \A h \in 1 .. (i - 1) : q[h].on = q[i].on => q[h].fate = "skipped"
     /\ IsTied(q, i)}

\* The queue without frame i; nothing is in front of the first frame offered.
Without(q, i) ==
  [k \in 1 .. (Len(q) - 1) |->
     LET f == q[IF k < i THEN k ELSE k + 1]
     IN  [f EXCEPT !.tied = @ /\ \E h \in (1 .. k) \ {i} : q[h].fate = "offered"]]

\* Engine e, set up and between two handlers, takes frame i, of one of these
\* types.
Take(e, i, types) ==
  /\ pc[e] = "idle" /\ \A j \in late : ReaderOf(j) # e
  /\ i \in Due(inbox[e])
  /\ inbox[e][i].type \in types

Handle(e, i, types) ==
  /\ Take(e, i, types)
  /\ inbox' = [inbox EXCEPT ![e] = Without(@, i)]

Goto(e, place) == pc' = [pc EXCEPT ![e] = place]

\* The same, and the handler writes msg to another engine d.
HandleAndPublish(e, i, types, d, msg) ==
  /\ Take(e, i, types)
  /\ \E q \in Written(inbox[d], msg) :
       inbox' = [inbox EXCEPT ![e] = Without(@, i), ![d] = q]

-----------------------------------------------------------------------------
\* The engines are constructed; cp has joined its journals, before anything is
\* written to them.
Init ==
  /\ late = IF Ties THEN Requests ELSE {}
  /\ pc = [md |-> "idle", cp |-> "new", td |-> "idle"]
  /\ inbox = [e \in Engines |-> <<>>]
  /\ toWrite = {} /\ toServe = {} /\ toMatch = {}
  /\ success = FALSE /\ signal = [e \in {"md", "td"} |-> None]
  /\ started = [e \in {"md", "td"} |-> FALSE]
  /\ row = [s \in Services |-> 0]
  /\ deal = [o \in Orders |-> None]
  /\ order = [o \in Orders |-> "new"]
  /\ positions = NoPositions
  /\ bought = 0
  /\ early = FALSE

-----------------------------------------------------------------------------
\* cp: LiveSubscriber::pre_start, the strategies, the handlers

\* Mutant: no TradingStart in the journal of the account.
BeginWithoutAccount ==
  /\ pc["cp"] = "new"
  /\ Publish("md", Msg("MdReq", "TradingStart", None))
  /\ Goto("cp", "starting") /\ toWrite' = ToTd \ {"Account"}
  /\ UNCHANGED <<late, toServe, toMatch, success, signal, started, row,
                 books, early>>

Begin ==
  /\ pc["cp"] = "new"
  /\ Publish("md", Msg("MdReq", "TradingStart", None))
  /\ Goto("cp", "starting") /\ toWrite' = ToTd
  /\ UNCHANGED <<late, toServe, toMatch, success, signal, started, row,
                 books, early>>

\* The loop over the other writers, in pre_start and after a Termination.
WriteTd(place, type) ==
  /\ pc["cp"] = place
  /\ \E j \in toWrite :
       /\ Publish("td", Msg(j, type, None))
       /\ toWrite' = toWrite \ {j}
  /\ UNCHANGED <<late, pc, toServe, toMatch, success, signal, started, row, books,
                 early>>

StartTd == WriteTd("starting", "TradingStart")

EndTd == WriteTd("ending", "Termination")

\* The strategies' pre_start.
Prepare ==
  /\ pc["cp"] = "starting" /\ toWrite = {}
  /\ Goto("cp", "preparing")
  /\ UNCHANGED <<late, inbox, loops, started, row, books, early>>

\* Mutant: the first signal goes to td.
FirstToTd ==
  /\ pc["cp"] = "preparing"
  /\ Publish("td", Msg("TdReq", "MatchOrder", None))
  /\ Goto("cp", "idle")
  /\ UNCHANGED <<late, loops, started, row, books, early>>

\* Mutant: every strategy sends a first signal.
SignalOften ==
  /\ pc["cp"] = "preparing"
  /\ Publish("md", Msg("MdReq", "MarketData", None))
  /\ UNCHANGED <<late, pc, loops, started, row, books, early>>

FirstSignal ==
  /\ pc["cp"] = "preparing"
  /\ Publish("md", Msg("MdReq", "MarketData", None))
  /\ Goto("cp", "idle")
  /\ UNCHANGED <<late, loops, started, row, books, early>>

\* A strategy that closes what it holds, and waits for the trade before it
\* closes more of it.
Careful(w) ==
  w.offset = "Close" =>
    /\ Covered(positions, w)
    /\ \A o \in Orders :
         order[o] \notin {"new", "booked"} /\ deal[o].offset = "Close" =>
           DirectionOf(deal[o]) # DirectionOf(w)

\* LiveExecutor::insert_order, in pre_start, on_bar or on_trade.
SendOrder(o, w) ==
  /\ pc["cp"] \in {"preparing", "strategies"}
  /\ order[o] = "new" /\ o = CHOOSE p \in Orders : order[p] = "new"
  /\ Careful(w)
  /\ Publish("td", Msg("Account", "Order", o))
  /\ order' = [order EXCEPT ![o] = "sent"]
  /\ deal' = [deal EXCEPT ![o] = w]
  /\ UNCHANGED <<late, pc, loops, started, row, positions, bought, early>>

Return ==
  /\ pc["cp"] = "strategies" /\ Goto("cp", "idle")
  /\ UNCHANGED <<late, inbox, loops, started, row, books, early>>

OnBar(i) ==
  /\ Handle("cp", i, {"Bar"}) /\ Goto("cp", "strategies")
  /\ UNCHANGED <<late, loops, started, row, books, early>>

OnTrade(i) ==
  LET o == inbox["cp"][i].order IN
  /\ Handle("cp", i, {"Trade"}) /\ Goto("cp", "strategies")
  /\ positions' = Update(positions, deal[o])
  /\ bought' = bought + Signed(deal[o])
  /\ order' = [order EXCEPT ![o] = "booked"]
  /\ UNCHANGED <<late, loops, started, row, deal, early>>

\* on_backtest_sync_signal: the turn goes to the other side.
OnData(i) ==
  /\ HandleAndPublish("cp", i, {"MarketData"}, "td",
                      Msg("TdReq", "MatchOrder", None))
  /\ early' = (i # 1)
  /\ UNCHANGED <<late, pc, loops, started, row, books>>

OnMatch(i) ==
  /\ HandleAndPublish("cp", i, {"MatchOrder"}, "md",
                      Msg("MdReq", "MarketData", None))
  /\ UNCHANGED <<late, pc, loops, started, row, books, early>>

\* Mutant: the Termination is not passed on to td.
EndMdOnly(i) ==
  /\ HandleAndPublish("cp", i, {"Termination"}, "md",
                      Msg("MdReq", "Termination", None))
  /\ Goto("cp", "ending")
  /\ UNCHANGED <<late, loops, started, row, books, early>>

\* The Termination of a file service ends every engine, this one last.
OnTermination(i) ==
  /\ HandleAndPublish("cp", i, {"Termination"}, "md",
                      Msg("MdReq", "Termination", None))
  /\ Goto("cp", "ending") /\ toWrite' = ToTd
  /\ UNCHANGED <<late, toServe, toMatch, success, signal, started, row,
                 books, early>>

Stop ==
  /\ pc["cp"] = "ending" /\ toWrite = {} /\ Goto("cp", "stopped")
  /\ UNCHANGED <<late, inbox, loops, started, row, books, early>>

CpNext ==
  \/ Begin \/ StartTd \/ Prepare \/ FirstSignal \/ Return \/ EndTd \/ Stop
  \/ \E o \in Orders, w \in Wanted : SendOrder(o, w)
  \/ \E i \in DOMAIN inbox["cp"] :
       OnBar(i) \/ OnTrade(i) \/ OnData(i) \/ OnMatch(i) \/ OnTermination(i)

-----------------------------------------------------------------------------
\* md: MDEngine and FileDataService

\* MDEngine::on_setup. A join after the clock has moved on skips nothing, and is
\* like one just before.
MdJoin ==
  /\ "MdReq" \in late
  /\ late' = late \ {"MdReq"}
  /\ UNCHANGED <<pc, inbox, loops, started, row, books, early>>

\* Every service reads its header.
MdStart(i) ==
  /\ Handle("md", i, {"TradingStart"})
  /\ started' = [started EXCEPT !["md"] = TRUE]
  /\ UNCHANGED <<late, pc, loops, row, books, early>>

\* Mutant: the signal goes back before the services have had it.
AnswerAtOnce(i) ==
  /\ HandleAndPublish("md", i, Signals, "cp",
                      Msg("MdResp", inbox["md"][i].type, None))
  /\ Goto("md", "serving") /\ toServe' = Services /\ success' = FALSE
  /\ signal' = [signal EXCEPT !["md"] = inbox["md"][i].type]
  /\ UNCHANGED <<late, toWrite, toMatch, started, row, books, early>>

MdSignal(i) ==
  /\ Handle("md", i, Signals) /\ Goto("md", "serving")
  /\ toServe' = Services /\ success' = TRUE
  /\ signal' = [signal EXCEPT !["md"] = inbox["md"][i].type]
  /\ UNCHANGED <<late, toWrite, toMatch, started, row, books, early>>

\* read_row_into finds a row.
HasRow(s) == started["md"] /\ row[s] < Len(Rows[s])

\* FileDataService::handle_backtest_sync_signal
ServeBar(s) ==
  /\ HasRow(s) /\ Rows[s][row[s] + 1] \in {"bar", "short"}
  /\ Publish("cp", Msg(s, "Bar", None))
  /\ row' = [row EXCEPT ![s] = @ + 1]
  /\ UNCHANGED success

\* A number or a date that does not parse.
ServeUnusable(s) ==
  /\ HasRow(s) /\ Rows[s][row[s] + 1] \in {"unusable", "short"}
  /\ row' = [row EXCEPT ![s] = @ + 1]
  /\ UNCHANGED <<inbox, success>>

\* Mutant: the row that is not there is counted.
CountTheEnd(s) ==
  /\ ~ HasRow(s)
  /\ Publish("cp", Msg(s, "Termination", None))
  /\ success' = FALSE
  /\ row' = [row EXCEPT ![s] = @ + 1]

ServeEnd(s) ==
  /\ ~ HasRow(s)
  /\ Publish("cp", Msg(s, "Termination", None))
  /\ success' = FALSE
  /\ UNCHANGED row

Serve(s) ==
  /\ pc["md"] = "serving" /\ s \in toServe
  /\ ServeBar(s) \/ ServeUnusable(s) \/ ServeEnd(s)
  /\ toServe' = toServe \ {s}
  /\ UNCHANGED <<late, pc, toWrite, toMatch, signal, started, books, early>>

\* row_buffer_ is read behind its end: what is there may parse as a row (ServeBar)
\* or not (ServeUnusable), or the process dies, and leaves but its journals.
ServeFault(s) ==
  /\ pc["md"] = "serving" /\ s \in toServe
  /\ HasRow(s) /\ Rows[s][row[s] + 1] = "short"
  /\ pc' = [e \in Engines |-> "crashed"]
  /\ UNCHANGED <<late, inbox, loops, started, row, books, early>>

\* Mutant: the signal goes back when the first service has read.
AnswerFirst ==
  /\ pc["md"] = "serving" /\ toServe # Services /\ Goto("md", "idle")
  /\ IF success THEN Publish("cp", Msg("MdResp", signal["md"], None))
     ELSE UNCHANGED inbox
  /\ toServe' = {} /\ signal' = [signal EXCEPT !["md"] = None]
  /\ UNCHANGED <<late, toWrite, toMatch, success, started, row, books, early>>

\* The signal goes back if every service had a row.
MdAnswer ==
  /\ pc["md"] = "serving" /\ toServe = {} /\ Goto("md", "idle")
  /\ IF success THEN Publish("cp", Msg("MdResp", signal["md"], None))
     ELSE UNCHANGED inbox
  /\ signal' = [signal EXCEPT !["md"] = None]
  /\ UNCHANGED <<late, toWrite, toServe, toMatch, success, started, row, books,
                 early>>

MdStop(i) ==
  /\ Handle("md", i, {"Termination"}) /\ Goto("md", "stopped")
  /\ UNCHANGED <<late, loops, started, row, books, early>>

MdNext ==
  \/ MdJoin \/ MdAnswer
  \/ \E s \in Services : Serve(s) \/ ServeFault(s)
  \/ \E i \in DOMAIN inbox["md"] : MdStart(i) \/ MdSignal(i) \/ MdStop(i)

-----------------------------------------------------------------------------
\* td: TDEngine and BrokerSim

\* TDEngine::on_setup joins TdReq, and then the journals of the accounts.
TdJoin ==
  /\ late \cap ToTd # {}
  /\ late' = late \ (IF "TdReq" \in late THEN {"TdReq"} ELSE {"Account"})
  /\ UNCHANGED <<pc, inbox, loops, started, row, books, early>>

TdStart(i) ==
  /\ Handle("td", i, {"TradingStart"})
  /\ started' = [started EXCEPT !["td"] = TRUE]
  /\ UNCHANGED <<late, pc, loops, row, books, early>>

\* Thrown away while the broker is not Ready; else refused without funds.
TdOrder(i) ==
  LET o == inbox["td"][i].order IN
  /\ Handle("td", i, {"Order"})
  /\ \E p \in IF ~ started["td"] THEN {"ignored"}
             ELSE IF deal[o].side = "Buy" THEN {"accepted", "refused"}
             ELSE {"accepted"} :
       order' = [order EXCEPT ![o] = p]
  /\ UNCHANGED <<late, pc, loops, started, row, deal, positions, bought, early>>

TdSignal(i) ==
  /\ Handle("td", i, Signals) /\ Goto("td", "matching")
  /\ toMatch' = {o \in Orders : order[o] = "accepted"}
  /\ signal' = [signal EXCEPT !["td"] = inbox["td"][i].type]
  /\ UNCHANGED <<late, toWrite, toServe, success, started, row, books, early>>

\* process_order_matching takes the orders in any order (a hash map).
Fill(o) ==
  /\ Publish("cp", Msg("TdResp", "Trade", o))
  /\ order' = [order EXCEPT ![o] = "filled"]

NoFunds(o) ==
  /\ deal[o].side = "Buy"
  /\ order' = [order EXCEPT ![o] = "error"]
  /\ UNCHANGED inbox

Match(o) ==
  /\ pc["td"] = "matching" /\ o \in toMatch
  /\ Fill(o) \/ NoFunds(o)
  /\ toMatch' = toMatch \ {o}
  /\ UNCHANGED <<late, pc, toWrite, toServe, success, signal, started, row, deal,
                 positions, bought, early>>

TdAnswer ==
  /\ pc["td"] = "matching" /\ toMatch = {} /\ Goto("td", "idle")
  /\ Publish("cp", Msg("TdResp", signal["td"], None))
  /\ signal' = [signal EXCEPT !["td"] = None]
  /\ UNCHANGED <<late, toWrite, toServe, toMatch, success, started, row, books,
                 early>>

TdStop(i) ==
  /\ Handle("td", i, {"Termination"}) /\ Goto("td", "stopped")
  /\ UNCHANGED <<late, loops, started, row, books, early>>

TdNext ==
  \/ TdJoin \/ TdAnswer
  \/ \E o \in Orders : Match(o)
  \/ \E i \in DOMAIN inbox["td"] :
       TdStart(i) \/ TdOrder(i) \/ TdSignal(i) \/ TdStop(i)

-----------------------------------------------------------------------------
Next == MdNext \/ CpNext \/ TdNext

Spec == Init /\ [][Next]_vars

\* Each engine is a thread of its own, which never waits for another one.
FairSpec == Spec /\ WF_vars(MdNext) /\ WF_vars(CpNext) /\ WF_vars(TdNext)
=============================================================================
