# A verification development for btrader

btrader is a trading platform in C++20: market data services, strategies and
brokers run in three engines (threads of one process, or processes) that talk to
each other only through memory-mapped *journals*. This directory holds TLA+ models of its
code, TLC runs that check them on small instances, and TLAPS proofs about them
for every value of the constants.

`PROJECT.json` names, for each definition, the source lines it stands for, and
for each property a small change of the model (a plausible bug of the code) that
breaks it.

## 1. The system

| Component | Code | State | Operations |
|---|---|---|---|
| Journal | `core/journal/{frame,page,journal,writer,jlocation}`, `infra/mmap` | page files with a `PageHeader` and frames one behind the other; a cursor (`page_`, `frame_`) per `Journal` object; `writer_mtx_` | `open_frame`, `close_frame`, `close_page`; `load_page`, `load_next_page`, `next`, `seek_to_time`, `find_page_id` |
| Reader | `core/journal/reader` | a set of journals, `current_` | `join`, `disjoin`, `sort`, `data_available`, `next` |
| Event engine | `core/eventengine`, `core/observe_helper`, `core/corecomm`, `core/fds_map*`, `JourIndicator`/`JourObserver` in `journal.cpp` | `live_`, `continual_`, `begin_time_`, `now_event_time_`; an epoll set, one eventfd per journal | `setup`, `produce`, `drain`, `stop`, `post`, `wait` |
| Mentor | `main/` | role, child processes or threads, the socket that hands out eventfds | start-up, fork, wait |
| CP engine | `engines/cp`, `strategy/` | strategies, book, `trading_msg_count_`, `pre_start_`, writers to MD and TD | `pre_start`, one handler per message, `insert_order`, `cancel_order` |
| MD engine and data services | `engines/md`, `broker/data_service`, `broker/filedataservice`, `broker/binance/binance_data` | services, subscriptions, the next bar of a file | `on_trading_start`, `on_subscribe_data`, `on_backtest_sync_signal`; reconnection |
| TD engine and trade services | `engines/td`, `broker/trade_service`, `broker/binance/binance_broker` | services by account, `is_trading_started_`, a request book | `on_trading_start`, `insert_order`, `cancel_order`, `on_account_req`, `on_backtest_sync_signal` |
| Simulated broker | `broker/brokersim` | orders, positions, asset, a matching thread, a mutex | `start`, `stop`, `insert_order`, `cancel_order`, matching |
| Books | `core/book` | positions, asset, orders | `update(Trade)`, `update(Bar)` |
| Depth call board | `extension/depthcallboard`, `infra/mem_ipc` | order books in shared memory | `get`, `set` |
| Identifiers | `Writer::current_frame_uid`, `core/uid_util.h`, `core/requestbook` | frame uids used as order ids | build, account of an order |

How they interact. The strategy process (CP) writes `MD_REQ`, `TD_REQ` and one
journal per trading account; MD writes `MD_RESPONSE` and one journal per data
service; TD writes `TD_RESPONSE`. Each engine reads the journals of the others
through one `Reader`, which merges them by `gen_time`, and sleeps in `epoll_wait`
on their eventfds, to which the writers post after each frame. No memory is
shared but the journals and, in simulations, the depth call board. User
applications (C++ through `CoreComm`, Python through `pylib`) are further
processes that read and write the same journals.

What is hard in it:

* *No locks between processes.* A reader polls `FrameHeader.length` of memory
  another process is writing. Only the order of the stores protects it.
* *Pages.* A page is closed by three writes to two files while others look.
* *Restarts.* A `Writer` constructed on an existing journal finds its place by
  seeking to the present time over whatever its predecessor left.
* *Merging without a snapshot.* `Reader::sort` looks at one journal after the
  other while all of them grow.
* *Edge-triggered wake-ups without a time-out.* A wake-up lost is an engine hung.
* *Page files that come to be.* A file is created, stretched and given its header in
  three steps, and a process that joins lists the directory meanwhile.
* *Start and stop by messages*, skipped by a reader that joined "later": an engine
  takes `begin_time_` when it is constructed, joins in its own thread, and skips what
  carries that reading of the clock.
* *Threads in the services*: the matching thread of the simulated broker, the
  web-socket threads of Binance.

`PROJECT.json` lists these as hazards, each at its line, with the properties
that would catch it going wrong, or a note saying why none does.

## 2. The modules

| Module | What it is |
|---|---|
| `JournalLog` | the abstract specification of one journal: an append-only log, one writer, readers that join somewhere and are handed every entry from there on, in order |
| `Journal` | the code of one journal: stores into pages, cursor moves, seeking, page turns, deaths and restarts of the writing process; its properties |
| `JournalInv` | the inductive invariant of `Journal` |
| `JournalProofs` | the theorems, proved by TLAPS |
| `JournalPagesProofs` | the theorems about closed pages and about joining, on top of those |
| `MCJournal` | instances of `Journal` for TLC |
| `EventLoop` | the loop of a process that reads several journals: `Reader::sort`, eventfds and epoll, `EventEngine::drain` or `CoreComm::listening`; its properties. Each journal is what `JournalLog` says |
| `EventLoopInv` | its inductive invariant |
| `EventLoopProofs` | the theorems about it, proved by TLAPS |
| `MCEventLoop` | instances of `EventLoop` for TLC |
| `Exchange` | the abstract specification of a trade service: orders that are filled in portions and come to one end, the money, and the news the strategies read |
| `BrokerSim` | the simulated broker between the TD engine's handlers, its matching rounds and the CP process; its properties |
| `BrokerSimInv` | its inductive invariant |
| `BrokerSimProofs` | the theorems about it, proved by TLAPS |
| `ExchangeProofs` | the proof that it implements `Exchange` |
| `MCBrokerSim` | instances of `BrokerSim` for TLC |
| `Turns` | the abstract specification of a backtest: data and matching take turns until the data ends |
| `PositionBook` | what a trade does to the positions, as operators |
| `Session` | a whole backtest: the handlers of the MD, CP and TD engines, file data services, strategies, the position book, and the journals between them |
| `SessionInv` | its properties and its inductive invariant |
| `SessionProofs` | the theorems about it, proved by TLAPS |
| `MCSession` | an instance of `Session` for TLC |
| `RequestDesk` | the abstract specification of a connection to an exchange: each request has one end |
| `BinanceBroker` | the Binance broker and its request book between two threads, and a network that fails; its properties |
| `BinanceBrokerInv` | its inductive invariant |
| `BinanceBrokerProofs` | the theorems about it, proved by TLAPS |
| `MCBinanceBroker` | an instance of `BinanceBroker` for TLC |

`Journal` implements `JournalLog` (`ImplementsLog`), and `EventLoop` uses every
journal as one (`ImplementsLogs`): the loop is verified on top of the log. The one thing
of the pages that reaches further is their end, which no reader gets past
(`journal_page_end`): `JournalLog` promises nothing about when an entry is handed over,
so `EventLoop` and `Session` have the page end themselves. `BrokerSim` takes the two journals between CP and TD as what the other modules
show of them: queues that lose, double and reorder nothing (`inbox`, `resp`), as long as
each journal stays within one page. `Session`
takes from `EventLoop` what its merge of several journals does not promise: a frame
may be read before one of another journal that it is tied with. `Session` implements
`Turns` (`ImplementsTurns`), `BrokerSim` implements `Exchange` (`ImplementsExchange`) and
`BinanceBroker` implements `RequestDesk` (`ImplementsDesk`).

### Journal, and the code

Every store another process can tell from the next is an action of its own:

| Action | Code |
|---|---|
| `Start`, `SeekFind`, `SeekPage`, `SeekFrame`, `SeekDone` | `EventEngine::EventEngine` takes the time, `Reader::join` or the constructor of `Writer` seeks: `PageUnit::find_page_id`, then the two loops of `Journal::seek_to_time` |
| `SeekFault` | `find_page_id` maps each page it looks at read-only and unstretched (`lazy`, not writing): a file that is listed but has no header is too short to read, or `PageUnit::load` writes to the read-only map |
| `SeekNone`, `MakeFirst`, `LoadFirst` | no page is listed: page 1 is created and stretched, then initialised unless another process was faster |
| `OpenFrame` | `Writer::open_frame`, the frame fits |
| `MakePage`, `TurnPage`, `WritePageEnd`, `OpenInNewPage` | `open_frame` when it does not: `close_page` (create the file of the next page; initialise its header; write the PageEnd frame; store `last_frame_position`), then the new frame is opened |
| `WriteData` | the caller fills the payload (`Writer::write`, `FrameUnit::copy_data`) |
| `ZeroNext`, `StampFrame`, `PublishFrame`, `CloseFrame` | the stores of `Writer::close_frame`: next header zeroed, `gen_time`, `length`, then `last_frame_position` and `next()` |
| `Deliver` | one round of the loop of `EventEngine::drain`: `has_data`, the handlers, `Reader::next` |
| `Crash` | the writing process dies at one of `CrashPoints`; its successor runs the constructor of `Writer`. User applications, which write the same journals as the engines, come and go like this |
| `Tick` | the clock (`infra::time::now_time`), external |

Memory is a function from pages and places to frame headers; a place inside a
payload reads as a header with a length and a tag (`Junk`), because that is what
a cursor astray would see. Lengths are in units: a header is `HeaderLen` units,
the page header one. Stores of one process become visible in program order
(x86-64). `log`, `base`, `seen`, `first` and `got` are history: no guard reads
them, except `Len(log) < MaxFrames`, which is a bound.

`listed` are the page files in the directory, `Files` those that have their header.
Creating and stretching a file is one step: a joiner faults at either. So is the test
and the initialisation of a header, which two processes may do at once with the same
values.

Left out: page rollback (`set_page_rollback_size` is called nowhere, the size is
0), `copy_frame` (called nowhere), the 30-second wait for `writer_mtx_` (threads
of one process are serialised by it), the frame uid.

### EventLoop, and the code

| Action | Code |
|---|---|
| `Stamp`, `Publish`, `Post` | the writers, other processes: `open_frame` stays on its page or turns it, `Writer::write` evaluates `gen_time`, `close_frame` publishes, then `JourIndicator::post` writes to the eventfd |
| `Construct`, `Join` | `EventEngine::EventEngine` (or `JourCommData::init`) takes `begin_time_`; `Reader::join` for each journal, which settles on a page and sorts while `current_` is null |
| `Watch` | `ObserveHelper::add_customer`: an eventfd that was written before it is added is ready at once |
| `Wait` | `epoll_wait` returns at most `MaxEvents` events, which leave the ready list; `ObserveHelper::data_available` sorts |
| `EnterSort`, `Look` | `Reader::sort`: the clock is read, then the journals are looked at one after the other, in any order (an `unordered_map`), while writers go on |
| `Check`, `Handle`, `Leave` | the inner loop of `drain` (or of `listening`): `live_`, `data_available`, the handlers and `Reader::next`, back to `epoll_wait` or out |
| `Terminate` | `CoreComm::terminate` in another thread: `status_`, then the post to `interrupt_sender` |
| `Tick` | the clock, external |

`kind` is chosen at the start: an engine ends on a Termination frame (the handler
of the CP, MD and TD engines calls `stop`), an application by `terminate()`.
`rpage` is the page a cursor is on. A frame of a later page is never offered (`HasData`),
since the loop asks `data_available`, false at a PageEnd, before it calls `next()`;
`Join` leaves open how far the writer was when `find_page_id` looked.
`first`, `got`, `snap` and the field `knows` of a frame are history. Nobody reads
the eventfds (`JourObserver::handle` is never called), so their counters never go
back to 0 (`counted`).

There is one clock. Each process of the code has its own base (`infra/time.cpp`), taken
from the system's clock when it starts and advanced by the steady one, and two may
differ by the adjustments in between.

Left out: the HP build, which polls; `step()`; `end_time_`, which is never set;
`disjoin` and `Reader::seek_to_time`, called by nobody; an `epoll_wait` interrupted
by a signal (an engine goes round once more, `listening` ends); how the
descriptors reach the processes.

### BrokerSim, and the code

| Action | Code |
|---|---|
| `Place`, `AskCancel` | `LiveExecutor::insert_order`, `cancel_order`: strategies write to the journal of the account |
| `SetDepth`, `SendSync`, `Read` | the CP's handlers: `on_quote` puts the depth on the board, `on_backtest_sync_signal` passes the turn, `on_trade` and `on_order_action_error` take what the broker answered, and the `Book` its cash |
| `TradingStart` | `TDEngine::on_trading_start`, `BrokerSim::start` |
| `Ignore`, `Insert`, `Cancel` | `TDEngine::insert_order` and `cancel_order` by the state of the service, then the broker's functions of that name, in all their branches |
| `BeginRound`, `EndRound` | `process_order_matching` gets and frees the mutex: the matching thread (live), or `handle_backtest_sync_signal` on the TD engine's thread, which then returns the signal |
| `Skip`, `NoDepth`, `NoLevel`, `StartMatch` | what a round does with an order: done already; no depth; no level on the other side; else the copy of the depth is walked |
| `TakeLevel`, `FinishMatch` | one turn of the loop of `match_order_with_market_data`; the summary trade and `execute_summary_trade` |

A round is many steps during which the CP goes on (quotes, orders, answers), and
excludes the handlers, which take the same mutex. `job` holds the locals of
`match_order_with_market_data`. `accepted` and `traded` are history.

Quantities are exact integers: a volume counts units of `1/Lot`, a price ticks, an
executed price `1/Scale` ticks, and the product is the unit of money. The doubles of
the code round; `BooksAgree` is therefore about what is added and subtracted, not
about the last digit. `static_cast<int64_t>` is `Whole`, and not the identity unless
`Lot` is 1.

`Exchange` is what strategies may rely on. It knows no mutex, no round, no queue of
requests and no price levels: an order is placed, open, filled, cancelled, in error or
lost, and a fill, its money and its message are one step. `Lives` maps an order of the
broker to where it is in this life, by the request that still waits in `inbox`, its entry
in `active_orders_` and its status there; `Lefts` to `volume_left`. The messages under
way are the news, `avail` is the money. The steps of a round that only look, and the
walk over the levels, are stutters; `FinishMatch` is the fill.

Left out: a second account or instrument; `req_account_info`, which prints; `stop()`,
which nothing calls; the average price of positions; the bits of a depth read while it
is written; what a strategy does with the answers; that orders and the sync signal come in two
journals (here one queue: the merge is `EventLoop`'s subject).

### Session, and the code

Mentor runs the three engines as threads of one process. `inbox[e]` is what engine
`e` has not read of its journals, in the order of publication; `Due` are the frames
`Reader::sort` may choose: the first of its journal, with only tied frames in front
of it. A frame has a fate when it is written. It may be *skipped*: an engine's
`begin_time_` is taken in its constructor, its journals are joined in `on_setup`, in its
own thread, and what is written in between in the same reading of the clock is not newer
than `begin_time_`. `late` are the journals not joined yet while that reading lasts. Or it
may be *beyond* a page end, and everything after it in that journal too (`Turned`). Frames
with these fates stay in the inbox for ever. Two frames are tied when both carry one reading of the clock, or when the look
at the journal of the older came too early (`eventloop_earliest`). `Ties` says whether
there are any.

| Action | Code |
|---|---|
| `MdJoin`, `TdJoin` | `on_setup` of the MD and of the TD engine: `MD_REQ`; `TD_REQ`, then the account |
| `Begin`, `StartTd`, `Prepare`, `FirstSignal` | `LiveSubscriber::pre_start`: TradingStart to the MD engine, then to each other writer (`TD_REQ` and the account, in any order: a hash map), the strategies' `pre_start`, the first signal |
| `SendOrder`, `Return` | `LiveExecutor::insert_order` from `pre_start`, `on_bar` or `on_trade` of a strategy, and its end |
| `OnBar`, `OnTrade`, `OnData`, `OnMatch` | the handlers of `LiveSubscriber`; `OnTrade` books the trade, `OnData` and `OnMatch` pass the turn |
| `OnTermination`, `EndTd`, `Stop` | the Termination handler of `CPEngine::react` |
| `MdStart`, `MdSignal`, `Serve`, `MdAnswer`, `MdStop` | `MDEngine`; `Serve` is one call of `FileDataService::handle_backtest_sync_signal`: a bar, a row of which no bar is made, or the end of the file and a Termination |
| `ServeFault` | the same with a row of less than six columns. The code warns and reads behind the end of `row_buffer_`: the outcome is a bar, none (an exception), or a process that dies (`crashed`), and all three are in the model |
| `TdStart`, `TdOrder`, `TdSignal`, `Match`, `TdAnswer`, `TdStop` | `TDEngine` and the broker's round over its active orders |

A handler that writes to several journals is several steps, and other engines go on
between them. `early` and `bought` are history. Strategies are `Careful`: they close
no more than they hold, and wait for the trade. Without that `PositionBook::update`
takes a close without a position for an open.

`Session` begins when the CP engine is set up, with its writers and its readers; that no engine
faulted at a page file without header (`SeekFault`) when several create the same journal
for the first time is assumed. So is that an engine that joins finds a journal on its last page.

Left out here: quotes (so the board is empty and an order is filled whole or not at
all), cancels and funds, which are in `BrokerSim`; a second account (`cp_engine.h`
knows one) or instrument; cost prices and profits; user applications that write to
the same journals; the fork of three processes, which is never chosen.

### BinanceBroker, and the code

| Action | Code |
|---|---|
| `Open`, `Wait`, `Leave`, `Check` | `start` and `establish_connection` on the thread of the TD engine: `client_.open`, one turn of the waiting loop, its end, and the second look at `is_connected_` |
| `Request`, `Insert`, `Write`, `BeginAdd`, `Add` | the TD engine looks at `state_`; `insert_order`, `cancel_order` or `req_account_info` look at `is_connected_`; `send_order_request` writes the message and then enters it in the request book |
| `Opened`, `Closed`, `Message` | external: the client library, the network, the exchange |
| `Connect`, `Ready`, `Disconnect`, `Disconnected` | the two stores of `on_connect` and of `on_disconnect`, on the thread of the client |
| `HasRequest`, `GetRequest` | the two looks of `on_msg` into the request book; the map is not locked, so that while it is changed (`engine = "adding"`) a look may find the new entry or miss any |

`RequestDesk` is what remains when threads, flags and the book are taken away: a
connection that is there or not, and for each request what became of it. A request
waits for an answer while the exchange or `on_msg` has it (`DeskOf`); it is lost with
the connection, and nobody sends it again.

`fate` and `answer` record what became of a request and of its answer. An exception
in `start` ends the process (`engine = "ended"`): `EventEngine::produce` hands it to
`on_error`, which no subscriber handles.

Left out: `on_error`, `reconnect` and `handle_connection_timeout`, which nothing
calls; `stop`, which the destructor calls; the content and signature of a message;
other outcomes of a race on an unlocked map than a wrong result of the look (a crash).

## 3. The runs

| Run | Shows | Result |
|---|---|---|
| `journal_safety` | `TypeOK`, `DeliveredInOrder`, `PublishedStays`, `WriterAtTheEnd`, `JoinSkipsOnlyOld` with a reader joining at any time and a writer whose process may die once, at every step but one | holds, 877 658 states |
| `journal_live` | `PagesAreClosed`, `ImplementsLog`, and the liveness properties `SeekEnds`, `SamePageDelivered`, with one death of the writer outside of the rest of `close_page` and of seeking. `SeekEnds`: a process that joins gets through, or faults at a page file that has no header | holds, 200 452 states |
| `journal_page_end` | `EveryFrameDelivered`: what is published after a reader joined is delivered to it | **violated**: a reader never crosses a PageEnd |
| `journal_crash` | `PageEndIsLast` when the writer may die between the stores of `length` and `last_frame_position` | **violated**: the PageEnd overwrites a published frame |
| `eventloop_safety` | `TypeOK`, `MergeOrder`, `NoWakeupLost`: an application that joins two journals while both are written and turn pages | holds, 4.7 million states |
| `eventloop_live` | `ImplementsLogs`, `StopIsFinal`, and the liveness properties `Delivered`, `StopEnds`, `TerminateEnds`, for both kinds of loops. `Delivered`: what is published up to the end of the page joined is handed over unless the loop ends | holds, 242 508 states |
| `eventloop_earliest` | `EarliestFirst`: no frame is handed over while an older one waits that was published before it was stamped | **violated**: `sort` is not a snapshot |
| `brokersim_orders` | `TypeOK`, `Conserved`, `LimitRespected`, `BooksAgree`, `CancelIsFinal`, `ImplementsExchange`, and the liveness property `CancelAnswered`, live and in backtest | holds, 238 531 states |
| `brokersim_fraction` | `FillsAtMostVolume` with an order of volume 1/2 | **violated**: the fraction is traded in every round |
| `brokersim_funds` | `SpendsWhatThereIs`, without slippage and commission | **violated**: each level is checked alone |
| `session_turns` | `TypeOK`, `OneTurn`, `BookIsUpToDate`, `BarsComeFirst`, `NoneIgnored`, `RowsInStep`, `NetIsBought`, `ImplementsTurns`, and the liveness property `SessionEnds`. `NoneIgnored`: an order is thrown away for want of a started broker only if TD skipped the TradingStart of the account. `SessionEnds`: the engines end, unless a short row kills them or a signal or a Termination is skipped or lies behind a page end | holds, 465 558 states |
| `binance_threads` | `TypeOK`, `AnswersAsSent`, `UnknownIsEarly`, `RefusedWhileDown`, `ImplementsDesk`, and the liveness properties `StartEnds`, `ReadyAgain` | holds, 146 980 states |

Bounds of `Journal`. A header is two units, a page nine: a page takes two frames and its
PageEnd, and `PageUnit::is_full` holds of closed pages with a longer frame and
not of others, so both branches of the seek loops occur. Two pages and three
frames make the writer turn the page with frames on either side. Three
readings of the clock let frames be older than, as old as and newer than the
time a reader joins. One death is enough for every resume position: in `journal_safety` it may come at every step but
one, in `journal_live` when the writer is ready, has created a page file without header, or fills a frame (a page that is left in the
rest of `close_page` is never closed). A death
lets the clock advance, so a restarted writer does not seek to the very reading
its predecessor's last frame was stamped with (with `time_unit` "sec" it could:
this tie is a listed hazard outside of the model). One reader suffices: readers
write nothing but the initial header of a page file, which is idempotent.

Bounds of `EventLoop`. Two journals are enough for a merge, and with
`MaxEvents` 1 for a ready list longer than what one `epoll_wait` reports
(`eventloop_earliest` has the code's value, 10). Three frames let one come before
`sort` begins, one while it looks and one after; two frames are enough for each
way a loop can end. `MaxClock` 2 gives frames older than, as old as and newer
than `begin_time_` and than `min_time`; equal readings matter because every
configuration template sets `time_unit` to "milli". The liveness run lets the
clock tick once. Two pages put frames on either side of a page end. The safety run has
the application's loop only: that of an engine differs from it in what ends it, which is
the liveness run's subject, and the proofs hold for both.

Bounds of `BrokerSim`. Two orders compete for the funds and for the round; an order is
deeper than the first level, so it is filled in parts, in one round and over
several. One board has a hole between its levels and prices on both sides of the
limits, another no sellers; no board at all is the initial state. The cash of 80
pays for one of the two orders at limit 2 but not for both. Two cancels reach one order twice,
or both. Queues of two keep a message waiting behind another. `Scale` 4 with
slippage and commission of 1/4 makes both visible in every trade.

Bounds of `Session`. Two files, of three rows and of two, with a short row and
unusable ones: turns with two bars, one and none, a death, and an end that one service meets before the
other. Of two orders the first opens a position and the second may close half of it or add to it
(the short side of the book is left to the theorem `NetHolds`).
The n-th order sent is the n-th of `Orders`, since the ids are the program's own.
Every pair of frames in an inbox may be tied or not, each engine may join
before or after any of the frames of the start, and one journal, any, turns its page
at any frame (`MaxTurned` 1). Nothing else is bounded: the files end, and with them the run.

Bounds of `BinanceBroker`. One request of each way a request can go; the cancel is
about the order, so that mixing up their ids would show. Two seconds of waiting (10
in the code) have a first, a last and none left. Three faults are a refused try,
a loss, and a loss after the reconnection.

Fairness of `Journal` (`FairSpec`). Weak fairness of each reader's steps and of the steps of a
process that has begun to seek or to write a frame: none of these waits for
another process, and the operating system schedules runnable processes. Nobody
is obliged to begin a frame, to join, or to tick.

Fairness of `EventLoop`. Weak fairness of the loop (in `epoll_wait` it is not
enabled unless something is ready), of the second and third step of a write once
begun, and of the post in `terminate()` once the status is stored. Writing,
calling `terminate()` and the clock are not fair.

Fairness of `BrokerSim`. Weak fairness of the CP's reading, of a round once begun, and of
the round a sync signal asks for. The handlers are strongly fair: the matching
thread makes them wait for the mutex again and again, but sleeps 100 ms without it
between two rounds. Beginning a round in live mode, placing,
cancelling, quotes and TradingStart are not fair.

Fairness of `Session`. Weak fairness of each engine as a whole: three threads, none of
which waits for another except in `epoll_wait` with nothing to read. A strategy's
callback returns at some time, since it has finitely many orders to send.

Fairness of `BinanceBroker`. Weak fairness of the TD engine's thread and of the
callbacks of the client's thread. Nothing is assumed of the network or the exchange,
except in `ReadyAgain`, which says that it holds if some try to connect succeeds.

## 4. What is proved

`JournalProofs` proves, for every number of readers, every page size, every set
of frame lengths and any number of pages, frames, clock readings and deaths,
from the assumptions `WriterIsNotAReader`, `NoBodyIsNoBody`, `BoundsAreNatural`,
`FramesFitAPage` of `Journal` and from `NoCrashAtPublished` (the process does not
die between the stores of `length` and `last_frame_position`; without it
`journal_crash` shows the property false):

| Theorem | Statement |
|---|---|
| `Invariant` | `Spec => []IInv` |
| `TypeCorrect` | `Spec => []TypeOK`; no cursor gets past `address_border` |
| `FramesStay` | `Spec => []PublishedStays` |
| `Delivery` | `Spec => []DeliveredInOrder` |
| `WriterResumes` | `Spec => []WriterAtTheEnd` |
| `Refinement` | `Spec => ImplementsLog` |

`JournalPagesProofs` proves, from the same assumptions,

| Theorem | Statement |
|---|---|
| `JoinSkips` | `Spec => []JoinSkipsOnlyOld` |
| `PagesClosed` | `Spec => []PagesAreClosed`, if the process does not die inside `close_page` either (`NoCrashInClosePage`) |
| `PageEndsLast` | `Spec => []PageEndIsLast`, the property that `journal_crash` refutes when the death is allowed |

The argument. None of the properties is inductive: that a reader is handed whole
frames depends on what stands behind the last published frame, which depends on
where the writer is, which after a restart depends on what seeking meets on every
page. `IInv` names these dependences: `FilesInv` (page files get their headers one
after the other and cut the log into pages), `ListedInv` (files are listed before they
have a header, and a writer that found none meets at most the first), `LogInv` and `PagesInv` (the frames
of a page lie one behind the other, as published), `EndInv` (behind them stands a
header without length, or a PageEnd if there is a newer page), `LastInv` (what
`last_frame_position` names, so that the PageEnd goes behind the last frame),
`WriterInv` (the writer is at the end of the newest page and the header it fills
is ready up to where its code is), `GenInv` (nothing in memory is as new as the
time a restarted writer seeks to, so it skips everything), `CursorInv` (every
cursor stands at the place behind the frames it has passed), `ReaderInv` (a reader
was handed exactly those). `FramesFitAPage` is weaker than the code's assertion at
the head of `open_frame`, which forgets the page header.

The proof of `NextInv` in `JournalProofs` takes the actions one by one, and for each the conjuncts it
can disturb; lemmas about places (`FramePlace`, `EndPlace...`) carry the arithmetic.

`JournalPagesProofs` adds two invariants to `IInv`. `SkipInv` follows a seek: what it passed on its page
is not newer than its begin time, what it passed by choosing a page lies on earlier
pages; it is needed in the middle of the loops, where `first` is not yet set.
`ClosedInv` follows `close_page`: every page with a successor is closed, except the one
the writer is just leaving, which is so in two steps. A process that dies between
creating the next page and writing the PageEnd leaves a page that nobody closes later
(its successor starts on the new page, `WriterAtTheEnd`), hence `NoCrashInClosePage`:
TLC finds `PagesAreClosed` violated without it. The other theorems do not need it.

`EventLoopProofs` proves, for any finite set of journals, any `MAX_EVENTS` and any
number of frames and clock readings, from the assumptions named in `EventLoop`:

| Theorem | Statement |
|---|---|
| `Invariance` | `Spec => []IInv` |
| `TypeCorrect` | `Spec => []TypeOK` |
| `Merges` | `Spec => []MergeOrder` |
| `Wakes` | `Spec => []NoWakeupLost` |
| `Stops` | `Spec => StopIsFinal` |
| `Implements` | `Spec => ImplementsLogs`: each journal's log, cursor and deliveries step as in `JournalLog` |

The argument. `sort` is not atomic, so what is true when the process goes to sleep
has to be carried through it. `snap`, the lengths of the logs when `sort` was
entered, splits the frames into those the loop must have seen and the news. For
the old ones `LookInv` says what the choice is worth in the middle of `sort`
(`Oldest`: the best of the journals looked at, or nothing there, and nothing of the
future), which gives `MergeOrder` and, if there is no choice, `TestInv`: every
journal is read up to `snap`. For the news, `NewsInv`: a journal longer than its
`snap` is on the ready list or its writer has still to post. The two together
are `NoWakeupLost` when `Leave` goes back to `epoll_wait`. `PostInv` is the same
before the eventfds are added, and `ClockInv` keeps `min_time`, which starts as
the present, from excluding a frame that is there. `StopInv` says where an engine
told to stop can be. `ReaderInv` ties the cursor to the history.

`BrokerSimProofs` proves, for any set of orders, boards with any number of levels, any
rates, cash, numbers of cancels and lengths of the queues, from the assumptions
named in `BrokerSim`:

| Theorem | Statement |
|---|---|
| `Invariance` | `Spec => []IInv` |
| `TypeCorrect` | `Spec => []TypeOK` |
| `Conservation` | `Lot = 1` implies `Spec => []Conserved`; with fractions `brokersim_fraction` shows volume traded twice |
| `LimitsHold` | `Spec => []LimitRespected` |
| `CancelsAreFinal` | `Spec => CancelIsFinal` |
| `MoneyAgrees` | `Spec => []BooksAgree`, fractions included |
| `FillsWithinVolume` | `Lot = 1` implies `Spec => []FillsAtMostVolume`, the property that `brokersim_fraction` refutes |
| `ExchangeRefined` (in `ExchangeProofs`) | `Lot = 1` implies `Spec => ImplementsExchange` |

The argument. `InboxInv` says an order is offered once and only if it was sent, so that
`Insert` never overwrites one that is traded. `JobInv` relates the locals of the level
walk to the order: `rem + total` is what was left when the walk began, nobody else
changes the order meanwhile (the mutex), and `value` is within the limit times
`total`, which is what makes the average respect it. `RespInv` says the same of the
trades under way. `CancelInv` is behind `CancelIsFinal`: an "ok" that was read or is
under way means the order is Cancelled in the map, and no trade of
it stands behind the answer; a round skips it, and no walk is on it.

`BooksAgree` speaks of the moment when the CP has read everything; in between the two
books differ by the sum of the trades under way. That sum would be a recursive function,
and what it does under `Append` and `Tail` an induction over data. `LedgerInv` says
instead that there *is* a ledger (`Leads`): a function on the places of the queue that
begins with what the CP counts, ends with what the broker counts, and goes up from place
to place by the message there. A new message extends the ledger, a read one shifts it,
and in an empty queue beginning and end are the same. The same ledger over the volumes of
one order, with `Conserved`, gives `FillsAtMostVolume`.

`ExchangeRefined` shows each action a step of `Exchange` or a stutter. It needs two facts about the
inbox besides `IInv`: in a backtest the sync signal stays in front as long as its
round lasts (`SyncInv`), so that what `EndRound` takes away is no order; and a cancel
stands behind the order it is about (`BehindInv`), so that an answer "unknown" is not
given of an order that is still to be inserted. `Lot = 1` is `Conservation`'s assumption:
with fractions `left` is not reduced by what was traded, and no mapping would help.

`SessionProofs` proves, for any number of services, rows, orders and kinds of orders,
with and without ties, late joins, page ends and short rows, from the assumptions named in `Session`:

| Theorem | Statement |
|---|---|
| `Invariance` | `Spec => []IInv` |
| `TypeCorrect` | `Spec => []TypeOK` |
| `OneTurnHolds` | `Spec => []OneTurn` |
| `BookHolds` | `Spec => []BookIsUpToDate` |
| `BarsHold` | `Spec => []BarsComeFirst` |
| `NoneIgnoredHolds` | `Spec => []NoneIgnored` |
| `RowsHold` | `Spec => []RowsInStep` |
| `NetHolds` | `Spec => []NetIsBought` |
| `TurnsRefined` | `Spec => ImplementsTurns` |

The argument. The one signal is a token; `OneTurn` says it is in one place, and
`PlaceInv` and `FrameInv` who can have it. `TradeInv` and `BarInv` order what is in
the inbox of the CP around the token: trades stand before the signal of their round
and in its journal, which no tie can overtake; bars before the signal of their turn,
which a tie can. `EndInv` says that a Termination takes the token's place, so that
the end meets no trade. `StartInv` finds a TradingStart in the account's journal
before its first order. An order can only be taken past it if the reader skipped it, for
`Due` is the first frame of its journal that was not skipped, and a skipped frame never
leaves the inbox: this is how the exemption of `NoneIgnored` is kept. `RowInv` follows the files through a turn, `OrderInv` each
order through the three engines, and `CloseInv` keeps what a strategy asked to close
in the book until it is closed, which makes every booked close a covered one.
The proof splits a step into one of the three engines (`Step`), a join, which changes
`late` only, and the death of the process, which changes the places only.

`BinanceBrokerProofs` proves, for any requests, number of seconds and number of
faults, from the assumptions named in `BinanceBroker`:

| Theorem | Statement |
|---|---|
| `Invariance` | `Spec => []IInv` |
| `TypeCorrect` | `Spec => []TypeOK` |
| `AnswersHold` | `Spec => []AnswersAsSent` |
| `UnknownHolds` | `Spec => UnknownIsEarly` |
| `RefusedHolds` | `Spec => RefusedWhileDown` |
| `DeskRefined` | `Spec => ImplementsDesk` |

The argument. `Places` says what the TD engine's thread has done with its request,
`Linked` what `on_connect` and `on_disconnect` have still to store: between two
callbacks of an open connection both flags say so. `Answered` and `Recorded` say that
what can be answered was sent, and that only the request that is being sent may be
missing in the book. For the refinement `DeskInv` adds what
the exchange and `on_msg` hold: nothing waits without a connection, and the request
whose answer is being handled has left the wire and has no answer yet.

Every safety property and action property that a passing run checks, and every
refinement, is so proved for all values of the constants, as are the two that a violation run refutes
only outside of an assumption (`PageEndIsLast`, `FillsAtMostVolume`).

Only model-checked: the nine liveness properties (`SeekEnds`, `SamePageDelivered`,
`Delivered`, `StopEnds`, `TerminateEnds`, `CancelAnswered`, `SessionEnds`, `StartEnds`,
`ReadyAgain`). Liveness under fairness and `ENABLED` are out of the prover's reach.
So is induction over data (what a recursive definition computes for every input); where a
proof would have needed it, the invariant is stated with an existential or pointwise.

## 5. Findings

* *Readers never cross the end of a page* (`journal_page_end`). `Journal::next`
  would load the next page on a PageEnd, but every caller asks `has_data` first,
  which is false of a PageEnd (`msg_type` 0).
* *A death in `close_frame` can cost a published frame* (`journal_crash`).
* *The merge is not always in order* (`eventloop_earliest`). `reader.h` promises the
  earliest frame; within one reading of the clock `sort` may hand over a frame
  while an older one waits that was there before it. The TD engine can so handle
  the signal to match orders before an order written earlier. `MergeOrder` is what
  does hold.
* *A fraction of a volume is traded for ever* (`brokersim_fraction`). Volumes are
  `double`, but `execute_summary_trade` subtracts the whole part of the traded volume
  from `volume_left`.
* *The funds are checked level by level* (`brokersim_funds`). A market order over
  several levels may cost more than there is, since `avail` changes only
  at the summary trade.

Seen on the way, with nothing in the repository that promises otherwise:

* An order that is rejected, or turns to Error for want of funds, is never reported
  to its strategy; orders that ended as Cancelled or Error stay in `active_orders_`,
  because the loop skips them before it could erase them.
* A process that dies between creating a page file and initialising it leaves a journal
  that nobody can join any more: every later `find_page_id` faults at that file
  (`SeekFault`). Until the header is there, so does every process that joins meanwhile.
* The TD engine may join so late that, with the clock still at its `begin_time_`, it skips
  TradingStart, and then drops every order without an answer; the MD engine may skip the
  first signal, and the backtest hangs. The coarser `time_unit` is, the likelier it is.
* A row of a CSV file with less than six columns is warned of and then read behind the
  end of its buffer.
* A blank line in a CSV file ends the backtest as its end does, and so does the end
  of the shortest file, while other files still have rows.
* In a tie the broker may have its turn before the strategy saw a bar: its orders
  then wait for the next round (`early` in `BarsComeFirst`).
* A close without a position opens one on the side it should have closed
  (`PositionBook::update`), and what a close has too much is dropped.
* When `BinanceBroker::start` gives up after its ten seconds it throws; no subscriber
  handles the error, and the process ends.
* An answer that overtakes `add_request` is dropped as unknown; requests are never
  removed from the request book.
* `BinanceData` sets `is_connected_` before the connection is open, and does not send
  its subscriptions again after the client reconnected.

## 6. Plan, and what is not modelled

Done: `Journal`, `EventLoop`, `BrokerSim`, `Session`, `BinanceBroker`, with their
proofs. `Session` has Mentor's threads, the trading start and the end besides the
turns of a backtest.

What could follow, in this order: `BinanceData` (subscriptions over a connection that
is lost); quotes and cancels in `Session`, with `BrokerSim` in the place of its round;
two writers on one journal; frame uids (their 16 bits, and the account of an id); the
depth call board (torn reads).

Not to be modelled: `algorithm/` (floating-point indicators), `strategies/` (user
code), `tradeview/` (a viewer), `infra/` wrappers, `thirdparty/` (vendored, and most
of the lines in the tree), and the Python binding code, which adds no state of its
own to Writer and Reader.
