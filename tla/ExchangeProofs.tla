---------------------------- MODULE ExchangeProofs ----------------------------
(***************************************************************************)
(* With whole volumes the simulated broker implements Exchange: every step  *)
(* of the TD engine, of the matching round and of the CP is a step of the   *)
(* exchange, or changes nothing that the strategies may see.                *)
(***************************************************************************)
EXTENDS BrokerSimProofs

----------------------------------------------------------------------------
(* The inbox *)

\* A message more.
LEMMA QueueGrows ==
  ASSUME IInv, QueueInv, NEW m \in Event, inbox' = Append(inbox, m), UNCHANGED <<mode, lock>>,
         IsInsert(m) => sent[m.order] = None
  PROVE  QueueInv'
<1>1. inbox \in Seq(Event) /\ InboxInv /\ RoundInv
  BY DEF IInv, TypeOK
<1>2. /\ Len(inbox) \in Nat /\ Len(inbox') = Len(inbox) + 1
      /\ \A i \in 1 .. Len(inbox) : inbox'[i] = inbox[i]
      /\ inbox'[Len(inbox) + 1] = m
  BY <1>1, Appended
<1>3. SyncInv'
  <2>1. lock = "round" /\ mode = "backtest" => Len(inbox) # 0
    BY <1>1 DEF RoundInv
  <2> QED BY <1>2, <2>1 DEF QueueInv, SyncInv
<1>4. ASSUME NEW i \in 1 .. Len(inbox'), NEW j \in 1 .. Len(inbox'),
             inbox'[i].kind = "cancel", IsInsert(inbox'[j]), inbox'[i].order = inbox'[j].order
      PROVE  j < i
  <2>1. CASE i \in 1 .. Len(inbox) /\ j \in 1 .. Len(inbox)
    BY <1>2, <1>4, <2>1 DEF QueueInv, BehindInv
  <2>2. CASE i \in 1 .. Len(inbox) /\ j = Len(inbox) + 1
    <3>1. sent[inbox[i].order] # None
      BY <1>1, <1>2, <1>4, <2>2 DEF InboxInv
    <3> QED BY <1>2, <1>4, <2>2, <3>1
  <2>3. CASE i = Len(inbox) + 1
    BY <1>2, <1>4, <2>3 DEF IsInsert
  <2> QED BY <1>2, <2>1, <2>2, <2>3
<1> QED BY <1>3, <1>4 DEF QueueInv, BehindInv, IsInsert

\* The first message is taken, by a handler or at the end of a round.
LEMMA QueueShrinks ==
  ASSUME IInv, QueueInv, inbox # <<>>, inbox' = Tail(inbox), lock' = "free"
  PROVE  QueueInv'
<1>1. inbox \in Seq(Event)
  BY DEF IInv, TypeOK
<1>2. /\ Len(inbox) \in Nat \ {0} /\ Len(inbox') = Len(inbox) - 1
      /\ \A i \in 1 .. Len(inbox') : i + 1 \in 1 .. Len(inbox) /\ inbox'[i] = inbox[i + 1]
  BY <1>1, Tailed
<1>3. ASSUME NEW i \in 1 .. Len(inbox'), NEW j \in 1 .. Len(inbox'),
             inbox'[i].kind = "cancel", IsInsert(inbox'[j]), inbox'[i].order = inbox'[j].order
      PROVE  j < i
  <2>1. j + 1 < i + 1
    BY <1>2, <1>3 DEF QueueInv, BehindInv
  <2> QED BY <1>2, <2>1
<1> QED BY <1>3 DEF QueueInv, SyncInv, BehindInv, IsInsert

\* Every step keeps the order of the inbox.
LEMMA QueueStep ==
  ASSUME IInv, QueueInv, [Next]_vars
  PROVE  QueueInv'
<1>1. ASSUME UNCHANGED <<mode, lock, inbox>> PROVE QueueInv'
  BY <1>1 DEF QueueInv, SyncInv, BehindInv, IsInsert
<1>2. ASSUME NEW o \in Orders, Place(o) PROVE QueueInv'
  <2>1. /\ [kind |-> "insert", order |-> o] \in Event
        /\ inbox' = Append(inbox, [kind |-> "insert", order |-> o])
        /\ UNCHANGED <<mode, lock>> /\ sent[o] = None
    BY <1>2 DEF Place, Send, Event, round
  <2> QED BY <2>1, QueueGrows
<1>3. ASSUME NEW o \in Orders, AskCancel(o) PROVE QueueInv'
  <2> DEFINE m == [kind |-> "cancel", order |-> o]
  <2>1. /\ m \in Event /\ inbox' = Append(inbox, m) /\ UNCHANGED <<mode, lock>> /\ ~IsInsert(m)
    BY <1>3 DEF AskCancel, Send, Event, round, IsInsert
  <2> QED BY <2>1, QueueGrows
<1>4. CASE SendSync
  <2> DEFINE m == [kind |-> "sync", order |-> None]
  <2>1. /\ m \in Event /\ inbox' = Append(inbox, m) /\ UNCHANGED <<mode, lock>> /\ ~IsInsert(m)
    BY <1>4 DEF SendSync, Send, Event, round, IsInsert
  <2> QED BY <2>1, QueueGrows
<1>5. CASE SetDepth \/ Read \/ TradingStart
  BY <1>1, <1>5 DEF SetDepth, Read, TradingStart, round
<1>6. ASSUME NEW o \in Orders, Ignore(o) \/ Insert(o) \/ Cancel(o) PROVE QueueInv'
  <2>1. inbox # <<>> /\ inbox' = Tail(inbox) /\ lock' = "free"
    BY <1>6 DEF Ignore, Insert, Cancel, Handles, round
  <2> QED BY <2>1, QueueShrinks
<1>7. CASE BeginRound
  <2>1. UNCHANGED <<mode, inbox>> /\ (mode = "backtest" => inbox # <<>> /\ Head(inbox).kind = "sync")
    BY <1>7 DEF BeginRound
  <2>2. inbox # <<>> => Head(inbox) = inbox[1]
    BY Tailed DEF IInv, TypeOK
  <2> QED BY <2>1, <2>2 DEF QueueInv, SyncInv, BehindInv, IsInsert
<1>8. ASSUME NEW o \in Orders, Skip(o) \/ NoDepth(o) \/ NoLevel(o) \/ StartMatch(o) PROVE QueueInv'
  BY <1>1, <1>8 DEF Skip, NoDepth, NoLevel, StartMatch
<1>9. CASE TakeLevel \/ FinishMatch \/ UNCHANGED vars
  BY <1>1, <1>9 DEF TakeLevel, FinishMatch, vars, round
<1>10. CASE EndRound
  <2>1. CASE mode = "backtest"
    <3>1. inbox # <<>> /\ inbox' = Tail(inbox) /\ lock' = "free"
      BY <1>10, <2>1 DEF EndRound, IInv, RoundInv
    <3> QED BY <3>1, QueueShrinks
  <2>2. CASE mode # "backtest"
    BY <1>10, <2>2 DEF EndRound, QueueInv, SyncInv, BehindInv, IsInsert
  <2> QED BY <2>1, <2>2
<1> QED BY <1>2, <1>3, <1>4, <1>5, <1>6, <1>7, <1>8, <1>9, <1>10 DEF Next, Handle, Round

LEMMA QueueOrder == Spec => []QueueInv
<1>1. Init => QueueInv
  BY DEF Init, QueueInv, SyncInv, BehindInv
<1> QED BY <1>1, QueueStep, Invariance, PTL DEF Spec

----------------------------------------------------------------------------
(* The life of an order *)

\* A message more waits; or one less, which waited once.
LEMMA WaitsGrow ==
  ASSUME IInv, NEW m \in Event, inbox' = Append(inbox, m), NEW p
  PROVE  InsertWaits(p)' <=> (InsertWaits(p) \/ m = [kind |-> "insert", order |-> p])
<1>1. /\ Len(inbox) \in Nat /\ Len(inbox') = Len(inbox) + 1
      /\ \A i \in 1 .. Len(inbox) : inbox'[i] = inbox[i]
      /\ inbox'[Len(inbox) + 1] = m
  BY Appended DEF IInv, TypeOK
<1>2. \A i \in 1 .. Len(inbox') : i \in 1 .. Len(inbox) \/ i = Len(inbox) + 1
  BY <1>1
<1>3. Len(inbox) + 1 \in 1 .. Len(inbox') /\ \A i \in 1 .. Len(inbox) : i \in 1 .. Len(inbox')
  BY <1>1
<1> QED BY <1>1, <1>2, <1>3 DEF InsertWaits

LEMMA WaitsShrink ==
  ASSUME IInv, inbox # <<>>, inbox' = Tail(inbox), NEW p
  PROVE  IF Head(inbox) = [kind |-> "insert", order |-> p]
         THEN InsertWaits(p) /\ ~ InsertWaits(p)'
         ELSE InsertWaits(p)' <=> InsertWaits(p)
<1> DEFINE m == [kind |-> "insert", order |-> p]
<1>1. /\ Len(inbox) \in Nat \ {0} /\ Len(inbox') = Len(inbox) - 1 /\ Head(inbox) = inbox[1]
      /\ \A i \in 1 .. Len(inbox') : i + 1 \in 1 .. Len(inbox) /\ inbox'[i] = inbox[i + 1]
  BY Tailed DEF IInv, TypeOK
<1>2. \A i \in 1 .. Len(inbox) : i = 1 \/ (i - 1 \in 1 .. Len(inbox') /\ (i - 1) + 1 = i)
  BY <1>1
<1>3. 1 \in 1 .. Len(inbox)
  BY <1>1
<1>4. InsertWaits(p)' <=> \E i \in 1 .. Len(inbox) : i # 1 /\ inbox[i] = m
  <2>1. ASSUME NEW i \in 1 .. Len(inbox'), inbox'[i] = m
        PROVE  \E k \in 1 .. Len(inbox) : k # 1 /\ inbox[k] = m
    BY <1>1, <2>1
  <2>2. ASSUME NEW k \in 1 .. Len(inbox), k # 1, inbox[k] = m
        PROVE  \E i \in 1 .. Len(inbox') : inbox'[i] = m
    <3>1. k - 1 \in 1 .. Len(inbox') /\ (k - 1) + 1 = k
      BY <1>2, <2>2
    <3> QED BY <1>1, <2>2, <3>1
  <2> QED BY <2>1, <2>2 DEF InsertWaits
<1>5. CASE inbox[1] = m
  <2>1. \A i \in 1 .. Len(inbox) : i # 1 => inbox[i] # m
    <3>1. ASSUME NEW i \in 1 .. Len(inbox), i # 1, inbox[i] = m PROVE FALSE
      <4>1. IsInsert(inbox[1]) /\ IsInsert(inbox[i]) /\ inbox[1].order = inbox[i].order
        BY <1>5, <3>1 DEF IsInsert
      <4> QED BY <1>3, <3>1, <4>1 DEF IInv, InboxInv
    <3> QED BY <3>1
  <2> QED BY <1>1, <1>3, <1>4, <1>5, <2>1 DEF InsertWaits
<1>6. CASE inbox[1] # m
  BY <1>1, <1>4, <1>6 DEF InsertWaits
<1> QED BY <1>5, <1>6, <1>1

\* What the life of an order is made of.
LEMMA LifeStays ==
  ASSUME NEW p \in Orders, active'[p] = active[p], sent'[p] = sent[p],
         p \in accepted' <=> p \in accepted,
         p \in accepted \/ sent[p] = None \/ (InsertWaits(p)' <=> InsertWaits(p))
  PROVE  LifeOf(p)' = LifeOf(p) /\ Lefts'[p] = Lefts[p]
<1>1. (Live(p)' <=> Live(p)) /\ (Cancellable(p)' <=> Cancellable(p))
  BY DEF Live, Cancellable
<1>2. LifeOf(p)' = LifeOf(p)
  BY <1>1 DEF LifeOf
<1>3. Lefts[p] = (IF Live(p) THEN active[p].left ELSE 0)
  BY DEF Lefts
<1>4. Lefts'[p] = (IF Live(p)' THEN active'[p].left ELSE 0)
  BY DEF Lefts
<1> QED BY <1>1, <1>2, <1>3, <1>4

\* All orders stay what they are, or all but one.
LEMMA AllStay ==
  ASSUME \A p \in Orders : LifeOf(p)' = LifeOf(p) /\ Lefts'[p] = Lefts[p]
  PROVE  Lives' = Lives /\ Lefts' = Lefts
<1>1. Lives' = Lives
  BY DEF Lives
<1>2. Lefts \in [Orders -> {Lefts[p] : p \in Orders}] /\ DOMAIN Lefts' = Orders
  BY DEF Lefts
<1>3. Lefts' = [p \in Orders |-> Lefts'[p]] /\ Lefts = [p \in Orders |-> Lefts[p]]
  BY DEF Lefts
<1> QED BY <1>1, <1>3

LEMMA OneChanges ==
  ASSUME NEW o \in Orders, NEW l, NEW n, LifeOf(o)' = l, Lefts'[o] = n,
         \A p \in Orders : p # o => LifeOf(p)' = LifeOf(p) /\ Lefts'[p] = Lefts[p]
  PROVE  Lives' = [Lives EXCEPT ![o] = l] /\ Lefts' = [Lefts EXCEPT ![o] = n]
<1>1. /\ Lives = [p \in Orders |-> LifeOf(p)] /\ Lives' = [p \in Orders |-> LifeOf(p)']
  BY DEF Lives
<1>2. Lives' = [Lives EXCEPT ![o] = l]
  BY <1>1
<1>3. Lefts' = [p \in Orders |-> Lefts'[p]] /\ Lefts = [p \in Orders |-> Lefts[p]]
  BY DEF Lefts
<1>4. Lefts' = [Lefts EXCEPT ![o] = n]
  <2> SUFFICES ASSUME NEW f, NEW g, f = Lefts, g = Lefts' PROVE g = [f EXCEPT ![o] = n]
    OBVIOUS
  <2> QED BY <1>3
<1> QED BY <1>2, <1>4

LEMMA LivesAt ==
  ASSUME NEW o \in Orders
  PROVE  Lives[o] = LifeOf(o) /\ Lefts[o] = (IF Live(o) THEN active[o].left ELSE 0)
BY DEF Lives, Lefts

\* An order a round may match is open.
LEMMA OpenIs ==
  ASSUME IInv, NEW o \in Orders, Live(o)
  PROVE  ((LifeOf(o) = "open") <=> Cancellable(o)) /\ (~Done(o) => Cancellable(o))
<1>1. active[o].status \in Status
  BY LiveIsPlaced DEF Order
<1>2. ~Done(o) => Cancellable(o)
  BY <1>1 DEF Done, Cancellable, Status
<1> QED BY <1>2 DEF LifeOf

----------------------------------------------------------------------------
(* The steps *)

\* A step inside the broker.
LEMMA InsideStays ==
  ASSUME UNCHANGED <<active, accepted, sent, avail, resp, cash, heard>>,
         \A p \in Orders : InsertWaits(p)' <=> InsertWaits(p)
  PROVE  UNCHANGED X!vars
<1>1. \A p \in Orders : LifeOf(p)' = LifeOf(p) /\ Lefts'[p] = Lefts[p]
  BY LifeStays
<1>2. Lives' = Lives /\ Lefts' = Lefts
  BY <1>1, AllStay
<1> QED BY <1>2 DEF X!vars

\* The trade of a round is a fill.
LEMMA ExecuteFills ==
  ASSUME IInv, Lot = 1, NEW o \in Orders, NEW v \in Nat, NEW value \in Int,
         Live(o), ~Done(o), v > 0, v <= active[o].left, WithinLimit(o, v, value),
         Execute(o, v, value), UNCHANGED <<inbox, cp>>
  PROVE  X!Fill(o)
<1> DEFINE r == [kind |-> "trade", order |-> o, volume |-> v, value |-> value, fee |-> Fee(value)]
<1>1. /\ o \in accepted /\ sent[o] \in Input /\ active[o].left \in Nat \ {0}
      /\ Lives[o] = "open" /\ Lefts[o] = active[o].left
  BY LiveIsPlaced, LivesAt, OpenIs
<1>2. resp \in Seq(TradeResp \cup CancelResp \cup SyncResp) /\ avail \in Int
      /\ active \in [Orders -> Order \cup {None}]
  BY DEF IInv, TypeOK
<1>3. LeftAfter(o, v) = active[o].left - v
  BY WholeBounds DEF LeftAfter
<1>4. /\ resp' = Append(resp, r) /\ UNCHANGED <<sent, cash, heard, accepted>>
      /\ avail' = AvailAfter(o, value)
      /\ active'[o] = (IF active[o].left - v = 0 THEN None
                       ELSE [left |-> active[o].left - v, status |-> "PartialFilledActive"])
      /\ \A p \in Orders : p # o => active'[p] = active[p]
  BY <1>2, <1>3 DEF Execute, Notify, cp
<1>5. Len(resp) \in Nat /\ Len(resp') = Len(resp) + 1 /\ resp'[Len(resp) + 1] = r
  BY <1>2, <1>4
<1>6. \A p \in Orders : p # o => LifeOf(p)' = LifeOf(p) /\ Lefts'[p] = Lefts[p]
  <2>1. \A p \in Orders : InsertWaits(p)' <=> InsertWaits(p)
    BY DEF InsertWaits
  <2> QED BY <1>4, <2>1, LifeStays
<1>7. /\ LifeOf(o)' = (IF v = Lefts[o] THEN "filled" ELSE "open")
      /\ Lefts'[o] = Lefts[o] - v
  <2>1. LifeOf(o)' = IF Live(o)' THEN IF Cancellable(o)' THEN "open"
                        ELSE IF active'[o].status = "Cancelled" THEN "cancelled" ELSE "error"
                     ELSE "filled"
    BY <1>1, <1>4 DEF LifeOf
  <2>2. Lefts'[o] = IF Live(o)' THEN active'[o].left ELSE 0
    BY DEF Lefts
  <2>3. CASE v = active[o].left
    BY <1>1, <1>4, <2>1, <2>2, <2>3 DEF Live
  <2>4. CASE v # active[o].left
    <3>1. active[o].left - v # 0 /\ active[o].left - v \in Nat
      BY <1>1, <2>4
    <3>2. active'[o] = [left |-> active[o].left - v, status |-> "PartialFilledActive"]
      BY <1>4, <3>1
    <3>3. active'[o] # None
      BY <3>1, <3>2, NoneIsFree DEF Status
    <3> QED BY <1>1, <2>1, <2>2, <2>4, <3>2, <3>3 DEF Live, Cancellable
  <2> QED BY <2>3, <2>4
<1>8. /\ Lives' = [Lives EXCEPT ![o] = IF v = Lefts[o] THEN "filled" ELSE "open"]
      /\ Lefts' = [Lefts EXCEPT ![o] = @ - v]
  BY <1>6, <1>7, OneChanges
<1>9. avail' = avail + X!Proceeds(r)
  <2>1. value * Scale \in Int /\ Fee(value) \in Int
    BY MoneyIsWhole DEF Fee
  <2> QED BY <1>2, <1>4, <2>1 DEF AvailAfter, Cost, X!Proceeds
<1>10. X!WorthIt(o, r)
  BY DEF WithinLimit, X!WorthIt
<1>11. r.kind = "trade" /\ r.order = o /\ r.volume = v /\ v \in 1 .. Lefts[o]
  BY <1>1
<1> HIDE DEF r
<1> QED BY <1>1, <1>4, <1>5, <1>8, <1>9, <1>10, <1>11 DEF X!Fill, X!Tell, X!Becomes

\* Placing an order.
LEMMA PlaceMaps ==
  ASSUME IInv, NEW o \in Orders, Place(o)
  PROVE  X!Place(o)
<1>1. /\ sent[o] = None /\ UNCHANGED <<active, accepted, avail, resp, cash, heard>>
      /\ inbox' = Append(inbox, [kind |-> "insert", order |-> o])
  BY DEF Place, Send, broker
<1>2. PICK i \in Inputs : sent' = [sent EXCEPT ![o] = i]
  BY DEF Place
<1>3. sent'[o] = i /\ i # None /\ \A p \in Orders : p # o => sent'[p] = sent[p]
  BY <1>2, NoneIsFree DEF IInv, TypeOK
<1>4. o \notin accepted /\ ~Live(o)
  BY <1>1 DEF IInv, OrderInv
<1>5. [kind |-> "insert", order |-> o] \in Event
  BY DEF Event
<1>6. \A p \in Orders : InsertWaits(p)' <=> (InsertWaits(p) \/ p = o)
  <2>1. \A p \in Orders : [kind |-> "insert", order |-> o] = [kind |-> "insert", order |-> p] <=> p = o
    OBVIOUS
  <2> QED BY <1>1, <1>5, <2>1, WaitsGrow
<1>7. \A p \in Orders : p # o => LifeOf(p)' = LifeOf(p) /\ Lefts'[p] = Lefts[p]
  BY <1>1, <1>3, <1>6, LifeStays
<1>8. Lives[o] = "new" /\ LifeOf(o)' = "placed" /\ Lefts'[o] = Lefts[o]
  <2>1. Lefts[o] = 0 /\ Lives[o] = "new"
    BY <1>1, <1>4 DEF Lefts, Lives, LifeOf
  <2>2. Lefts'[o] = 0
    BY <1>1, <1>4 DEF Lefts, Live
  <2>3. LifeOf(o)' = "placed"
    BY <1>1, <1>3, <1>4, <1>6 DEF LifeOf, Live
  <2> QED BY <2>1, <2>2, <2>3
<1>9. Lives' = [Lives EXCEPT ![o] = "placed"] /\ Lefts' = [Lefts EXCEPT ![o] = Lefts[o]]
  BY <1>7, <1>8, OneChanges
<1>10. Lefts' = Lefts
  BY <1>9 DEF Lefts
<1> QED BY <1>1, <1>2, <1>8, <1>9, <1>10 DEF X!Place, X!Becomes

\* The CP reads a response.
LEMMA ReadMaps ==
  ASSUME IInv, Read
  PROVE  X!Hear
<1> DEFINE r == Head(resp)
<1>1. /\ resp # <<>> /\ resp' = Tail(resp) /\ UNCHANGED <<inbox, active, accepted, sent, avail>>
  BY DEF Read, broker
<1>2. Lives' = Lives /\ Lefts' = Lefts
  <2>1. \A p \in Orders : InsertWaits(p)' <=> InsertWaits(p)
    BY <1>1 DEF InsertWaits
  <2>2. \A p \in Orders : LifeOf(p)' = LifeOf(p) /\ Lefts'[p] = Lefts[p]
    BY <1>1, <2>1, LifeStays
  <2> QED BY <2>2, AllStay
<1>3. CASE r.kind = "trade" /\ ReadTrade(r)
  <2>1. r \in TradeResp
    <3>1. resp \in Seq(TradeResp \cup CancelResp \cup SyncResp)
      BY DEF IInv, TypeOK
    <3>2. r \in TradeResp \cup CancelResp \cup SyncResp
      BY <1>1, <3>1, Tailed
    <3> QED BY <1>3, <3>2 DEF CancelResp, SyncResp
  <2>2. /\ r.value * Scale \in Int /\ r.fee \in Int /\ cash \in Int
    BY <2>1, MoneyIsWhole DEF TradeResp, IInv, TypeOK
  <2>3. cash' = cash + X!Proceeds(r)
    BY <1>3, <2>2 DEF ReadTrade, CashAfter, Cost, X!Proceeds
  <2>4. heard' = [heard EXCEPT ![r.order].traded = @ + r.volume]
    BY <1>3 DEF ReadTrade
  <2> QED BY <1>1, <1>2, <1>3, <2>3, <2>4 DEF X!Hear
<1>4. CASE r.kind = "cancel" /\ ReadAnswer(r)
  BY <1>1, <1>2, <1>4 DEF X!Hear, ReadAnswer
<1>5. CASE r.kind = "sync" /\ UNCHANGED <<cash, heard>>
  BY <1>1, <1>2, <1>5 DEF X!Hear
<1> QED BY <1>3, <1>4, <1>5 DEF Read

\* A message about o is in front of the inbox.
LEMMA HandlesIs ==
  ASSUME IInv, NEW o \in Orders, NEW kind, Handles(kind, o)
  PROVE  /\ inbox # <<>> /\ inbox' = Tail(inbox)
         /\ Head(inbox) = inbox[1] /\ 1 \in 1 .. Len(inbox)
         /\ Head(inbox) = [kind |-> kind, order |-> o]
<1>1. /\ inbox # <<>> /\ inbox' = Tail(inbox) /\ Head(inbox).kind = kind /\ Head(inbox).order = o
  BY DEF Handles
<1>2. Head(inbox) \in Event /\ Head(inbox) = inbox[1] /\ 1 \in 1 .. Len(inbox)
  BY <1>1, Tailed DEF IInv, TypeOK
<1> QED BY <1>1, <1>2 DEF Event

\* An order that waits was not taken; after this it does not wait.
LEMMA TakesInsert ==
  ASSUME IInv, NEW o \in Orders, Handles("insert", o)
  PROVE  /\ o \notin accepted /\ ~Live(o) /\ sent[o] # None
         /\ Lives[o] = "placed" /\ Lefts[o] = 0 /\ ~InsertWaits(o)'
         /\ \A p \in Orders : p # o => (InsertWaits(p)' <=> InsertWaits(p))
<1> DEFINE m == [kind |-> "insert", order |-> o]
<1>1. /\ inbox # <<>> /\ inbox' = Tail(inbox) /\ Head(inbox) = inbox[1] /\ 1 \in 1 .. Len(inbox)
      /\ Head(inbox) = m
  BY HandlesIs
<1>2. inbox[1].order = o /\ inbox[1].kind = "insert" /\ IsInsert(inbox[1])
  BY <1>1 DEF IsInsert
<1>3. o \notin accepted /\ sent[o] # None
  BY <1>1, <1>2 DEF IInv, InboxInv
<1>4. ~Live(o)
  BY <1>3 DEF IInv, OrderInv
<1>5. InsertWaits(o) /\ ~InsertWaits(o)'
  BY <1>1, WaitsShrink
<1>6. ASSUME NEW p \in Orders, p # o PROVE InsertWaits(p)' <=> InsertWaits(p)
  <2>1. Head(inbox) # [kind |-> "insert", order |-> p]
    BY <1>1, <1>2, <1>6
  <2> QED BY <1>1, <2>1, WaitsShrink
<1> QED BY <1>3, <1>4, <1>5, <1>6 DEF Lives, Lefts, LifeOf

\* The order is not taken.
LEMMA LoseMaps ==
  ASSUME IInv, NEW o \in Orders, Handles("insert", o),
         UNCHANGED <<active, accepted, sent, avail, resp, cash, heard>>
  PROVE  X!Lose(o)
<1>1. /\ o \notin accepted /\ ~Live(o) /\ sent[o] # None
      /\ Lives[o] = "placed" /\ Lefts[o] = 0 /\ ~InsertWaits(o)'
      /\ \A p \in Orders : p # o => (InsertWaits(p)' <=> InsertWaits(p))
  BY TakesInsert
<1>2. \A p \in Orders : p # o => LifeOf(p)' = LifeOf(p) /\ Lefts'[p] = Lefts[p]
  BY <1>1, LifeStays
<1>3. LifeOf(o)' = "lost" /\ Lefts'[o] = 0
  BY <1>1 DEF LifeOf, Lefts, Live
<1>4. Lives' = [Lives EXCEPT ![o] = "lost"] /\ Lefts' = [Lefts EXCEPT ![o] = 0]
  BY <1>2, <1>3, OneChanges
<1>5. Lefts' = Lefts
  BY <1>1, <1>4 DEF Lefts
<1> QED BY <1>1, <1>4, <1>5 DEF X!Lose, X!Becomes

\* insert_order.
LEMMA InsertMaps ==
  ASSUME IInv, NEW o \in Orders, Insert(o)
  PROVE  X!Accept(o) \/ X!Lose(o)
<1>1. Handles("insert", o) /\ UNCHANGED <<sent, avail, resp, cash, heard>>
  BY DEF Insert, cp
<1>2. /\ o \notin accepted /\ ~Live(o) /\ sent[o] # None
      /\ Lives[o] = "placed" /\ Lefts[o] = 0
      /\ \A p \in Orders : p # o => (InsertWaits(p)' <=> InsertWaits(p))
  BY <1>1, TakesInsert
<1>3. sent[o] \in Input /\ active \in [Orders -> Order \cup {None}]
  BY <1>2, InputsAreOrders DEF IInv, TypeOK
<1>4. CASE Affordable(o)
  <2>1. /\ active'[o] = [left |-> sent[o].volume, status |-> "Submitted"]
        /\ o \in accepted' /\ \A p \in Orders : p # o => active'[p] = active[p]
        /\ \A p \in Orders : p # o => (p \in accepted' <=> p \in accepted)
    BY <1>3, <1>4 DEF Insert
  <2>2. \A p \in Orders : p # o => LifeOf(p)' = LifeOf(p) /\ Lefts'[p] = Lefts[p]
    BY <1>1, <1>2, <2>1, LifeStays
  <2>3. active'[o] # None
    BY <1>3, <2>1, NoneIsFree DEF Input, Status
  <2>4. LifeOf(o)' = "open" /\ Lefts'[o] = sent[o].volume
    BY <2>1, <2>3 DEF LifeOf, Lefts, Live, Cancellable
  <2>5. Lives' = [Lives EXCEPT ![o] = "open"] /\ Lefts' = [Lefts EXCEPT ![o] = sent[o].volume]
    BY <2>2, <2>4, OneChanges
  <2>6. sent[o].side = "Buy" => avail >= sent[o].limit * Scale * Scale * sent[o].volume
    BY <1>4 DEF Affordable, LimitCost
  <2>7. X!Accept(o)
    BY <1>1, <1>2, <2>5, <2>6 DEF X!Accept, X!Becomes
  <2> QED BY <2>7
<1>5. CASE ~Affordable(o)
  BY <1>1, <1>5, LoseMaps DEF Insert
<1> QED BY <1>4, <1>5

\* Before trading starts.
LEMMA IgnoreMaps ==
  ASSUME IInv, NEW o \in Orders, Ignore(o)
  PROVE  X!Lose(o) \/ UNCHANGED X!vars
<1>1. UNCHANGED <<active, accepted, sent, avail, resp, cash, heard>>
  BY DEF Ignore, broker, cp
<1>2. CASE Handles("insert", o)
  BY <1>1, <1>2, LoseMaps
<1>3. CASE Handles("cancel", o)
  <2>1. inbox # <<>> /\ inbox' = Tail(inbox) /\ Head(inbox) = [kind |-> "cancel", order |-> o]
    BY <1>3, HandlesIs
  <2>2. \A p : Head(inbox) # [kind |-> "insert", order |-> p]
    BY <2>1
  <2>3. \A p \in Orders : InsertWaits(p)' <=> InsertWaits(p)
    BY <2>1, <2>2, WaitsShrink
  <2> QED BY <1>1, <2>3, InsideStays
<1> QED BY <1>2, <1>3 DEF Ignore

\* cancel_order.
LEMMA CancelMaps ==
  ASSUME IInv, QueueInv, NEW o \in Orders, Cancel(o)
  PROVE  X!Answer(o)
<1> DEFINE m == [kind |-> "cancel", order |-> o]
<1>1. /\ inbox # <<>> /\ inbox' = Tail(inbox) /\ Head(inbox) = inbox[1] /\ 1 \in 1 .. Len(inbox)
      /\ Head(inbox) = m
  BY HandlesIs DEF Cancel
<1>2. inbox[1].order = o /\ inbox[1].kind = "cancel" /\ \A p : inbox[1] # [kind |-> "insert", order |-> p]
  BY <1>1
<1>3. ~InsertWaits(o) /\ sent[o] # None
  <2>1. sent[o] # None
    BY <1>1, <1>2 DEF IInv, InboxInv
  <2>2. ASSUME NEW j \in 1 .. Len(inbox), inbox[j] = [kind |-> "insert", order |-> o] PROVE FALSE
    <3>1. IsInsert(inbox[j]) /\ inbox[1].order = inbox[j].order
      BY <1>2, <2>2 DEF IsInsert
    <3>2. j < 1
      BY <1>1, <1>2, <3>1 DEF QueueInv, BehindInv
    <3> QED BY <3>2
  <2> QED BY <2>1, <2>2 DEF InsertWaits
<1>4. \A p \in Orders : InsertWaits(p)' <=> InsertWaits(p)
  BY <1>1, <1>2, WaitsShrink
<1>5. /\ UNCHANGED <<accepted, sent, avail, cash, heard>>
      /\ resp' = Append(resp, [kind |-> "cancel", order |-> o, answer |-> CancelAnswer(o)])
  BY DEF Cancel, Notify, cp
<1>6. Lives[o] \notin {"new", "placed"}
  BY <1>3, LivesAt DEF LifeOf
<1>7. CASE CancelAnswer(o) = "ok"
  <2>1. Live(o) /\ Cancellable(o) /\ Lives[o] = "open" /\ Lefts[o] = active[o].left
    BY <1>7, LivesAt DEF CancelAnswer, LifeOf
  <2>2. active' = [active EXCEPT ![o].status = "Cancelled"]
    BY <1>7 DEF Cancel, SetStatus
  <2>3. active[o] \in Order /\ active \in [Orders -> Order \cup {None}]
    BY <2>1, LiveIsPlaced DEF IInv, TypeOK
  <2>4. /\ active'[o] = [active[o] EXCEPT !.status = "Cancelled"]
        /\ \A p \in Orders : p # o => active'[p] = active[p]
    BY <2>2, <2>3
  <2>5. active'[o].left = active[o].left /\ active'[o].status = "Cancelled" /\ active'[o] \in Order
    BY <2>3, <2>4 DEF Order, Status
  <2>6. active'[o] # None
    BY <2>5, NoneIsFree DEF Order
  <2>7. LifeOf(o)' = "cancelled" /\ Lefts'[o] = Lefts[o]
    BY <2>1, <2>5, <2>6 DEF LifeOf, Lefts, Live, Cancellable
  <2>8. \A p \in Orders : p # o => LifeOf(p)' = LifeOf(p) /\ Lefts'[p] = Lefts[p]
    BY <1>4, <1>5, <2>4, LifeStays
  <2>9. Lives' = [Lives EXCEPT ![o] = "cancelled"] /\ Lefts' = [Lefts EXCEPT ![o] = Lefts[o]]
    BY <2>7, <2>8, OneChanges
  <2>10. Lefts' = Lefts
    BY <2>9 DEF Lefts
  <2> QED BY <1>5, <1>6, <1>7, <2>1, <2>9, <2>10 DEF X!Answer, X!Tell, X!Becomes
<1>8. CASE CancelAnswer(o) # "ok"
  <2>1. UNCHANGED active
    BY <1>8 DEF Cancel
  <2>2. Lives' = Lives /\ Lefts' = Lefts
    <3>1. \A p \in Orders : LifeOf(p)' = LifeOf(p) /\ Lefts'[p] = Lefts[p]
      BY <1>4, <1>5, <2>1, LifeStays
    <3> QED BY <3>1, AllStay
  <2>3. /\ Lives[o] # "open"
        /\ CancelAnswer(o) = (IF Lives[o] \in {"cancelled", "error"} THEN "status" ELSE "unknown")
    BY <1>8, LivesAt DEF CancelAnswer, LifeOf
  <2> QED BY <1>5, <1>6, <2>2, <2>3 DEF X!Answer, X!Tell
<1> QED BY <1>7, <1>8

\* A round fills an order without looking at quotes, or has no money for it.
LEMMA NoDepthMaps ==
  ASSUME IInv, Lot = 1, NEW o \in Orders, NoDepth(o)
  PROVE  X!Fill(o) \/ X!Fail(o)
<1>1. Live(o) /\ ~Done(o) /\ UNCHANGED <<inbox, cp>>
  BY DEF NoDepth, Visits, IInv, RoundInv
<1>2. sent[o] \in Input /\ active[o].left \in Nat \ {0} /\ active[o] \in Order
      /\ Lives[o] = "open" /\ Lefts[o] = active[o].left
  BY <1>1, LiveIsPlaced, LivesAt, OpenIs
<1>3. PICK p \in SimulatedPrices(o) :
        IF FundsSuffice(o, p * active[o].left) THEN Execute(o, active[o].left, p * active[o].left)
        ELSE SetStatus(o, "Error") /\ UNCHANGED <<avail, fees, held, accepted, traded, resp>>
  BY DEF NoDepth
<1>4. p \in Int /\ (sent[o].type = "Limit" => p = sent[o].limit * Scale)
  BY <1>2, SimulatedPriceIs
<1>5. CASE Execute(o, active[o].left, p * active[o].left)
  <2>1. PICK w \in Nat \ {0} : w = active[o].left
    BY <1>2
  <2>2. PICK value \in Int : value = p * w
    BY <1>4, <2>1
  <2>3. Execute(o, w, value)
    BY <1>5, <2>1, <2>2 DEF Execute, LeftAfter, AvailAfter
  <2>4. WithinLimit(o, w, value)
    <3>1. sent[o].limit * Scale \in Int
      BY <1>2, MoneyIsWhole DEF Input
    <3> QED BY <1>4, <2>1, <2>2, <3>1 DEF WithinLimit
  <2>5. w > 0 /\ w <= active[o].left
    BY <2>1
  <2>6. X!Fill(o)
    BY <1>1, <2>1, <2>2, <2>3, <2>4, <2>5, ExecuteFills
  <2> QED BY <2>6
<1>6. CASE SetStatus(o, "Error") /\ UNCHANGED <<avail, fees, held, accepted, traded, resp>>
  <2>1. active' = [active EXCEPT ![o].status = "Error"] /\ active \in [Orders -> Order \cup {None}]
    BY <1>6 DEF SetStatus, IInv, TypeOK
  <2>2. /\ active'[o] = [active[o] EXCEPT !.status = "Error"]
        /\ \A q \in Orders : q # o => active'[q] = active[q]
    BY <2>1
  <2>3. active'[o].left = active[o].left /\ active'[o].status = "Error" /\ active'[o] \in Order
    BY <1>2, <2>2 DEF Order, Status
  <2>4. active'[o] # None
    BY <2>3, NoneIsFree DEF Order
  <2>5. LifeOf(o)' = "error" /\ Lefts'[o] = Lefts[o]
    BY <1>2, <2>3, <2>4 DEF LifeOf, Lefts, Live, Cancellable
  <2>6. \A q \in Orders : q # o => LifeOf(q)' = LifeOf(q) /\ Lefts'[q] = Lefts[q]
    <3>1. \A q \in Orders : InsertWaits(q)' <=> InsertWaits(q)
      BY <1>1 DEF InsertWaits
    <3> QED BY <1>1, <1>6, <2>2, <3>1, LifeStays DEF cp
  <2>7. Lives' = [Lives EXCEPT ![o] = "error"] /\ Lefts' = [Lefts EXCEPT ![o] = Lefts[o]]
    BY <2>5, <2>6, OneChanges
  <2>8. Lefts' = Lefts
    BY <2>7 DEF Lefts
  <2>9. X!Fail(o)
    BY <1>1, <1>2, <1>6, <2>7, <2>8 DEF X!Fail, X!Becomes, cp
  <2> QED BY <2>9
<1> QED BY <1>3, <1>5, <1>6

\* A visit with nobody to trade with; the order goes on waiting.
LEMMA NoLevelMaps ==
  ASSUME IInv, NEW o \in Orders, NoLevel(o)
  PROVE  UNCHANGED X!vars
<1>1. /\ Live(o) /\ ~Done(o)
      /\ UNCHANGED <<inbox, accepted, sent, avail, resp, cash, heard>>
  BY DEF NoLevel, Visits, IInv, RoundInv, cp
<1>2. \A p \in Orders : InsertWaits(p)' <=> InsertWaits(p)
  BY <1>1 DEF InsertWaits
<1>3. CASE UNCHANGED active
  BY <1>1, <1>2, <1>3, InsideStays
<1>4. CASE active[o].status = "Submitted" /\ SetStatus(o, "Pending")
  <2>1. active[o] \in Order /\ active \in [Orders -> Order \cup {None}] /\ o \in accepted
    BY <1>1, LiveIsPlaced DEF IInv, TypeOK
  <2>2. /\ active'[o] = [active[o] EXCEPT !.status = "Pending"]
        /\ \A p \in Orders : p # o => active'[p] = active[p]
    BY <1>4, <2>1 DEF SetStatus
  <2>3. active'[o].left = active[o].left /\ active'[o].status = "Pending" /\ active'[o] \in Order
    BY <2>1, <2>2 DEF Order, Status
  <2>4. active'[o] # None
    BY <2>3, NoneIsFree DEF Order
  <2>5. LifeOf(o)' = LifeOf(o) /\ Lefts'[o] = Lefts[o]
    BY <1>1, <1>4, <2>3, <2>4 DEF LifeOf, Lefts, Live, Cancellable
  <2>6. \A p \in Orders : LifeOf(p)' = LifeOf(p) /\ Lefts'[p] = Lefts[p]
    BY <1>1, <1>2, <2>2, <2>5, LifeStays
  <2>7. Lives' = Lives /\ Lefts' = Lefts
    BY <2>6, AllStay
  <2> QED BY <1>1, <2>7 DEF X!vars
<1> QED BY <1>3, <1>4 DEF NoLevel

\* The walk ends with one trade for all levels, or with none.
LEMMA FinishMaps ==
  ASSUME IInv, Lot = 1, FinishMatch
  PROVE  (\E o \in Orders : X!Fill(o)) \/ UNCHANGED X!vars
<1>1. job # None /\ UNCHANGED <<inbox, cp>>
  BY DEF FinishMatch
<1>2. /\ job \in Job /\ Live(job.order) /\ ~Done(job.order)
      /\ job.rem + job.total = active[job.order].left
      /\ WithinLimit(job.order, job.total, job.value)
  BY <1>1 DEF IInv, TypeOK, JobInv
<1>3. CASE job.total > 0 /\ Execute(job.order, job.total, job.value)
  <2>1. PICK o \in Orders, v \in Nat, value \in Int :
          o = job.order /\ v = job.total /\ value = job.value
    BY <1>2 DEF Job
  <2>2. Execute(o, v, value)
    BY <1>3, <2>1 DEF Execute, LeftAfter, AvailAfter
  <2>3. Live(o) /\ ~Done(o) /\ WithinLimit(o, v, value) /\ v > 0
    BY <1>2, <1>3, <2>1
  <2>4. v <= active[o].left
    <3>1. job.rem \in Nat /\ active[o].left = job.rem + v
      BY <1>2, <2>1 DEF Job
    <3> QED BY <3>1
  <2>5. X!Fill(o)
    BY <1>1, <2>2, <2>3, <2>4, ExecuteFills
  <2> QED BY <2>5
<1>4. CASE UNCHANGED <<broker, resp>>
  <2>1. \A p \in Orders : InsertWaits(p)' <=> InsertWaits(p)
    BY <1>1 DEF InsertWaits
  <2> QED BY <1>1, <1>4, <2>1, InsideStays DEF broker, cp
<1> QED BY <1>3, <1>4 DEF FinishMatch

\* The mutex is released; in backtest the signal goes back.
LEMMA EndRoundMaps ==
  ASSUME IInv, QueueInv, EndRound
  PROVE  X!Signal \/ UNCHANGED X!vars
<1>1. lock = "round" /\ UNCHANGED <<active, accepted, sent, avail, cash, heard>>
  BY DEF EndRound, broker, cp
<1>2. CASE mode = "backtest"
  <2>1. inbox # <<>> /\ inbox' = Tail(inbox) /\ resp' = Append(resp, [kind |-> "sync"])
    BY <1>2 DEF EndRound, Notify, IInv, RoundInv
  <2>2. Head(inbox) = inbox[1] /\ inbox[1].kind = "sync"
    BY <1>1, <1>2, <2>1, Tailed DEF QueueInv, SyncInv, IInv, TypeOK
  <2>3. \A p : Head(inbox) # [kind |-> "insert", order |-> p]
    BY <2>2
  <2>4. \A p \in Orders : InsertWaits(p)' <=> InsertWaits(p)
    BY <2>1, <2>3, WaitsShrink
  <2>5. \A p \in Orders : LifeOf(p)' = LifeOf(p) /\ Lefts'[p] = Lefts[p]
    BY <1>1, <2>4, LifeStays
  <2>6. Lives' = Lives /\ Lefts' = Lefts
    BY <2>5, AllStay
  <2> QED BY <1>1, <2>1, <2>6 DEF X!Signal, X!Tell
<1>3. CASE mode # "backtest"
  <2>1. UNCHANGED <<inbox, resp>>
    BY <1>3 DEF EndRound
  <2>2. \A p \in Orders : InsertWaits(p)' <=> InsertWaits(p)
    BY <2>1 DEF InsertWaits
  <2> QED BY <1>1, <2>1, <2>2, InsideStays
<1> QED BY <1>2, <1>3

\* Every step is one of the exchange, or none.
LEMMA ExchangeStep ==
  ASSUME Lot = 1, IInv, QueueInv, [Next]_vars
  PROVE  [X!Next]_X!vars
<1>1. ASSUME UNCHANGED <<inbox, active, accepted, sent, avail, resp, cash, heard>>
      PROVE  UNCHANGED X!vars
  <2>1. \A p \in Orders : InsertWaits(p)' <=> InsertWaits(p)
    BY <1>1 DEF InsertWaits
  <2> QED BY <1>1, <2>1, InsideStays
<1>2. ASSUME NEW m \in Event, inbox' = Append(inbox, m), ~IsInsert(m),
             UNCHANGED <<active, accepted, sent, avail, resp, cash, heard>>
      PROVE  UNCHANGED X!vars
  <2>1. \A p \in Orders : m # [kind |-> "insert", order |-> p]
    BY <1>2 DEF IsInsert
  <2>2. \A p \in Orders : InsertWaits(p)' <=> InsertWaits(p)
    BY <1>2, <2>1, WaitsGrow
  <2> QED BY <1>2, <2>2, InsideStays
<1>3. ASSUME NEW o \in Orders, Place(o) PROVE [X!Next]_X!vars
  BY <1>3, PlaceMaps DEF X!Next
<1>4. ASSUME NEW o \in Orders, AskCancel(o) PROVE [X!Next]_X!vars
  <2> DEFINE m == [kind |-> "cancel", order |-> o]
  <2>1. m \in Event /\ inbox' = Append(inbox, m) /\ ~IsInsert(m)
    BY <1>4 DEF AskCancel, Send, Event, IsInsert
  <2>2. UNCHANGED <<active, accepted, sent, avail, resp, cash, heard>>
    BY <1>4 DEF AskCancel, broker
  <2> QED BY <1>2, <2>1, <2>2
<1>5. CASE SendSync
  <2> DEFINE m == [kind |-> "sync", order |-> None]
  <2>1. m \in Event /\ inbox' = Append(inbox, m) /\ ~IsInsert(m)
    BY <1>5 DEF SendSync, Send, Event, IsInsert
  <2>2. UNCHANGED <<active, accepted, sent, avail, resp, cash, heard>>
    BY <1>5 DEF SendSync, broker, cp
  <2> QED BY <1>2, <2>1, <2>2
<1>6. CASE Read
  BY <1>6, ReadMaps DEF X!Next
<1>7. CASE SetDepth \/ TradingStart \/ BeginRound \/ TakeLevel \/ UNCHANGED vars
  BY <1>1, <1>7 DEF SetDepth, TradingStart, BeginRound, TakeLevel, vars, broker, cp
<1>8. ASSUME NEW o \in Orders, Skip(o) \/ StartMatch(o) PROVE [X!Next]_X!vars
  BY <1>1, <1>8 DEF Skip, StartMatch, broker, cp
<1>9. ASSUME NEW o \in Orders, Ignore(o) \/ Insert(o) \/ Cancel(o) PROVE [X!Next]_X!vars
  BY <1>9, IgnoreMaps, InsertMaps, CancelMaps DEF X!Next
<1>10. ASSUME NEW o \in Orders, NoDepth(o) \/ NoLevel(o) PROVE [X!Next]_X!vars
  BY <1>10, NoDepthMaps, NoLevelMaps DEF X!Next
<1>11. CASE FinishMatch
  BY <1>11, FinishMaps DEF X!Next
<1>12. CASE EndRound
  BY <1>12, EndRoundMaps DEF X!Next
<1> QED BY <1>3, <1>4, <1>5, <1>6, <1>7, <1>8, <1>9, <1>10, <1>11, <1>12 DEF Next, Handle, Round

\* The simulated broker is an exchange: with whole volumes, every behaviour of
\* the handlers, the matching rounds and the CP is one of Exchange.
THEOREM ExchangeRefined ==
  ASSUME Lot = 1
  PROVE  Spec => ImplementsExchange
<1>1. Init => X!Init
  <2> SUFFICES ASSUME Init PROVE X!Init
    OBVIOUS
  <2>1. \A o \in Orders : LifeOf(o) = "new" /\ ~Live(o)
    BY DEF Init, LifeOf, Live
  <2>2. Lives = [o \in Orders |-> "new"] /\ Lefts = [o \in Orders |-> 0]
    BY <2>1 DEF Lives, Lefts
  <2> QED BY <2>2 DEF Init, X!Init
<1>2. IInv /\ QueueInv /\ [Next]_vars => [X!Next]_X!vars
  BY ExchangeStep
<1> QED BY <1>1, <1>2, Invariance, QueueOrder, PTL DEF Spec, ImplementsExchange, X!Spec
=============================================================================
