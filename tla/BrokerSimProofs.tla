--------------------------- MODULE BrokerSimProofs ---------------------------
(***************************************************************************)
(* For every instance: types, what a trade may cost, and that a cancelled   *)
(* order trades no more. IInv of BrokerSimInv is inductive: one lemma per   *)
(* kind of step, and one for the trade a round makes.                       *)
(***************************************************************************)
EXTENDS BrokerSimInv, TLAPS

\* static_cast drops a fraction, and nothing if there is none.
LEMMA WholeBounds ==
  ASSUME NEW v \in Nat
  PROVE  Whole(v) \in Nat /\ Whole(v) <= v /\ (Lot = 1 => Whole(v) = v)
<1>1. Lot \in Nat \ {0}
  BY LotIsPositive
<1>2. v \div Lot \in Nat /\ (v \div Lot) * Lot <= v
  BY <1>1
<1>3. (v \div Lot) * Lot \in Nat
  BY <1>1, <1>2
<1>4. Lot = 1 => (v \div Lot) * Lot = v
  BY <1>1
<1> QED
  BY <1>2, <1>3, <1>4 DEF Whole

\* A product keeps the order of its factors.
LEMMA ProductGrows ==
  ASSUME NEW a \in Int, NEW b \in Int, NEW n \in Nat, a <= b
  PROVE  a * n \in Int /\ b * n \in Int /\ a * n <= b * n
<1>1. \A k \in Nat : k * n \in Nat
  OBVIOUS
<1>2. (b - a) * n >= 0
  BY <1>1
<1>3. (b - a) * n = b * n - a * n
  OBVIOUS
<1> QED
  BY <1>2, <1>3

\* Executed prices are prices.
LEMMA SlippageTypes ==
  ASSUME NEW p \in Nat, NEW s \in Sides
  PROVE  ApplySlippage(p, s) \in Nat
<1>1. Scale + Slip \in Nat /\ Scale - Slip \in Nat
  BY MoneyIsWhole
<1> QED
  BY <1>1 DEF ApplySlippage

\* What Append and Tail do to a sequence, place by place.
LEMMA Appended ==
  ASSUME NEW S, NEW s \in Seq(S), NEW e \in S
  PROVE  /\ Append(s, e) \in Seq(S) /\ Append(s, e) # <<>>
         /\ Len(s) \in Nat /\ Len(Append(s, e)) = Len(s) + 1
         /\ \A i \in 1 .. Len(s) : Append(s, e)[i] = s[i]
         /\ Append(s, e)[Len(s) + 1] = e
OBVIOUS

LEMMA Tailed ==
  ASSUME NEW S, NEW s \in Seq(S), s # <<>>
  PROVE  /\ Tail(s) \in Seq(S) /\ Len(s) \in Nat \ {0} /\ Len(Tail(s)) = Len(s) - 1
         /\ \A i \in 1 .. Len(Tail(s)) : i + 1 \in 1 .. Len(s) /\ Tail(s)[i] = s[i + 1]
         /\ Head(s) = s[1] /\ Head(s) \in S
OBVIOUS

\* An order in the map was placed; the broker knows its input.
LEMMA LiveIsPlaced ==
  ASSUME IInv, NEW o \in Orders, Live(o)
  PROVE  /\ o \in accepted /\ sent[o] # None /\ sent[o] \in Input
         /\ active[o] \in Order /\ active[o].left \in Nat \ {0}
<1>1. OrderInv(o) /\ TypeOK
  BY DEF IInv
<1>2. o \in accepted /\ sent[o] # None
  BY <1>1 DEF OrderInv
<1>3. sent[o] \in Input
  BY <1>1, <1>2, InputsAreOrders DEF TypeOK
<1>4. active[o] \in Order
  BY <1>1 DEF TypeOK, Live
<1> QED
  BY <1>1, <1>2, <1>3, <1>4 DEF OrderInv, Order

\* A trade of part or all of what is left of an order, as a round makes it.
LEMMA ExecuteKeeps ==
  ASSUME IInv, NEW o \in Orders, NEW v \in Nat, NEW value \in Int,
         Live(o), ~Done(o), v > 0, v <= active[o].left, WithinLimit(o, v, value),
         Execute(o, v, value), job' = None, lock = "round",
         todo' \subseteq todo, o \notin todo',
         UNCHANGED <<mode, running, inbox, board, lock, cp>>
  PROVE  IInv'
<1> DEFINE r == [kind |-> "trade", order |-> o, volume |-> v, value |-> value, fee |-> Fee(value)]
           R == TradeResp \cup CancelResp \cup SyncResp
<1>1. /\ o \in accepted /\ sent[o] # None /\ sent[o] \in Input
      /\ active[o] \in Order /\ active[o].left \in Nat \ {0}
  BY LiveIsPlaced
<1>2. TypeOK /\ InboxInv /\ RoundInv /\ RespInv
  BY DEF IInv
<1>3. Whole(v) \in Nat /\ Whole(v) <= v /\ (Lot = 1 => Whole(v) = v)
  BY WholeBounds
<1>4. LeftAfter(o, v) \in Nat
  BY <1>1, <1>3 DEF LeftAfter
<1>5. Cost(value) \in Int /\ Fee(value) \in Int
  BY MoneyIsWhole DEF Cost, Fee
<1>6. /\ UNCHANGED <<mode, running, inbox, board, lock, sent, cancels, cash, heard, accepted>>
      /\ resp' = Append(resp, r)
  BY DEF Execute, Notify, cp
<1>7. r \in R /\ resp \in Seq(R)
  BY <1>2, <1>5 DEF TradeResp, TypeOK
<1>8. /\ active' \in [Orders -> Order \cup {None}]
      /\ active'[o] = IF LeftAfter(o, v) = 0 THEN None
                      ELSE [left |-> LeftAfter(o, v), status |-> "PartialFilledActive"]
      /\ \A p \in Orders \ {o} : active'[p] = active[p]
  BY <1>2, <1>4 DEF TypeOK, Execute, Order, Status
<1>9. /\ traded' \in [Orders -> Nat] /\ traded'[o] = traded[o] + v
      /\ \A p \in Orders \ {o} : traded'[p] = traded[p]
  BY <1>2 DEF TypeOK, Execute
<1>10. held' \in [Sides -> Nat]
  BY <1>1, <1>2 DEF TypeOK, Execute, Input
<1>11. avail' \in Int /\ fees' \in Int
  BY <1>2, <1>5 DEF TypeOK, Execute, AvailAfter
<1> HIDE DEF r, R
<1>12. /\ Len(resp) \in Nat /\ resp' \in Seq(R) /\ Len(resp') = Len(resp) + 1
       /\ \A i \in 1 .. Len(resp) : resp'[i] = resp[i]
       /\ resp'[Len(resp) + 1] = r
  BY <1>6, <1>7, Appended
<1>13. TypeOK'
  BY <1>2, <1>6, <1>8, <1>9, <1>10, <1>11, <1>12 DEF TypeOK, R
<1>14. InboxInv' /\ JobInv'
  BY <1>2, <1>6 DEF InboxInv, JobInv
<1>15. RoundInv'
  BY <1>2, <1>6, <1>8 DEF RoundInv, Live, TypeOK
<1>16. r.kind = "trade" /\ r.order = o /\ r.volume = v /\ r.value = value
  BY DEF r
<1>17. RespInv'
  BY <1>1, <1>2, <1>6, <1>12, <1>16 DEF RespInv, WithinLimit
<1>18. ASSUME NEW p \in Orders
       PROVE  OrderInv(p)' /\ CancelInv(p)'
  <2>1. OrderInv(p) /\ CancelInv(p)
    BY DEF IInv
  <2>2. OrderInv(p)'
    <3>1. CASE p # o
      BY <2>1, <3>1, <1>6, <1>8, <1>9 DEF OrderInv, Live
    <3>2. CASE p = o
      <4>1. [left |-> LeftAfter(o, v), status |-> "PartialFilledActive"] # None
        BY <1>4, NoneIsFree DEF Status
      <4>2. Lot = 1 => traded[o] + active[o].left = sent[o].volume
        BY <2>1, <3>2 DEF OrderInv
      <4>3. sent[o].volume \in Nat /\ traded[o] \in Nat
        BY <1>1, <1>2 DEF Input, TypeOK
      <4>4. LeftAfter(o, v) = active[o].left - Whole(v)
        BY DEF LeftAfter
      <4>5. CASE LeftAfter(o, v) = 0
        BY <4>2, <4>3, <4>4, <4>5, <3>2, <1>1, <1>3, <1>6, <1>8, <1>9 DEF OrderInv, Live
      <4>6. CASE LeftAfter(o, v) # 0
        <5>1. Live(o)' /\ active'[o].left = LeftAfter(o, v)
          BY <1>8, <4>1, <4>6 DEF Live
        <5>2. Lot = 1 => traded'[o] + LeftAfter(o, v) = sent[o].volume
          BY <4>2, <4>3, <4>4, <1>1, <1>3, <1>9
        <5> QED
          BY <5>1, <5>2, <4>6, <3>2, <1>1, <1>4, <1>6 DEF OrderInv
      <4> QED
        BY <4>5, <4>6
    <3> QED
      BY <3>1, <3>2
  <2>3. Cancelled(p) => p # o /\ Cancelled(p)'
    BY <1>8 DEF Cancelled, Live, Done
  <2>4. ASSUME "ok" \in heard[p].answers
        PROVE  Cancelled(p)' /\ \A i \in 1 .. Len(resp') : ~TradeOf(resp'[i], p)
    <3>1. Cancelled(p) /\ \A i \in 1 .. Len(resp) : ~TradeOf(resp[i], p)
      BY <2>1, <2>4 DEF CancelInv
    <3> QED
      BY <3>1, <2>3, <1>12, <1>16 DEF TradeOf
  <2>5. ASSUME NEW i \in 1 .. Len(resp'),
               resp'[i] = [kind |-> "cancel", order |-> p, answer |-> "ok"]
        PROVE  Cancelled(p)' /\ \A j \in 1 .. Len(resp') : i < j => ~TradeOf(resp'[j], p)
    <3>1. i \in 1 .. Len(resp) /\ resp'[i] = resp[i]
      BY <2>5, <1>12, <1>16
    <3>2. Cancelled(p) /\ \A j \in 1 .. Len(resp) : i < j => ~TradeOf(resp[j], p)
      BY <3>1, <2>1, <2>5 DEF CancelInv
    <3> QED
      BY <3>2, <2>3, <1>12, <1>16 DEF TradeOf
  <2>6. CancelInv(p)'
    BY <2>4, <2>5, <1>6 DEF CancelInv
  <2> QED
    BY <2>2, <2>6
<1> QED
  BY <1>13, <1>14, <1>15, <1>17, <1>18 DEF IInv

\* Steps that touch neither orders nor messages: only the round, the board and
\* the state of the broker.
LEMMA QuietKeeps ==
  ASSUME IInv, UNCHANGED <<mode, inbox, broker, resp, cp>>,
         running' \in BOOLEAN, board' \in Boards \cup {None}, lock' \in {"free", "round"},
         todo' \subseteq Orders, job' \in Job \cup {None}, RoundInv', JobInv'
  PROVE  IInv'
<1>1. TypeOK /\ InboxInv /\ RespInv
  BY DEF IInv
<1>2. TypeOK'
  BY <1>1 DEF TypeOK, broker, cp
<1>3. InboxInv'
  BY <1>1 DEF InboxInv, broker, cp
<1>4. RespInv'
  BY <1>1 DEF RespInv, WithinLimit, cp
<1>5. ASSUME NEW p \in Orders
      PROVE  OrderInv(p)' /\ CancelInv(p)'
  <2>1. OrderInv(p) /\ CancelInv(p)
    BY DEF IInv
  <2>2. OrderInv(p)'
    BY <2>1 DEF OrderInv, Live, broker, cp
  <2>3. CancelInv(p)'
    BY <2>1 DEF CancelInv, Cancelled, Live, TradeOf, broker, cp
  <2> QED
    BY <2>2, <2>3
<1> QED
  BY <1>2, <1>3, <1>4, <1>5 DEF IInv

\* The TD engine takes a message; an insert may be accepted.
LEMMA InboxShrinks ==
  ASSUME IInv, inbox # <<>>, inbox' = Tail(inbox), sent' = sent,
         \/ accepted' = accepted
         \/ IsInsert(Head(inbox)) /\ accepted' = accepted \cup {Head(inbox).order}
  PROVE  inbox' \in Seq(Event) /\ InboxInv'
<1>1. inbox \in Seq(Event) /\ InboxInv
  BY DEF IInv, TypeOK
<1>2. /\ inbox' \in Seq(Event) /\ Len(inbox) \in Nat \ {0}
      /\ Len(inbox') = Len(inbox) - 1 /\ Head(inbox) = inbox[1]
      /\ \A i \in 1 .. Len(inbox') : i + 1 \in 1 .. Len(inbox) /\ inbox'[i] = inbox[i + 1]
  BY <1>1, Tailed
<1>3. \A i \in 1 .. Len(inbox') :
        inbox'[i].kind # "sync" => inbox'[i].order \in Orders /\ sent'[inbox'[i].order] # None
  BY <1>1, <1>2 DEF InboxInv
<1>4. \A i, j \in 1 .. Len(inbox') :
        IsInsert(inbox'[i]) /\ IsInsert(inbox'[j]) /\ i # j => inbox'[i].order # inbox'[j].order
  BY <1>1, <1>2 DEF InboxInv
<1>5. ASSUME NEW i \in 1 .. Len(inbox'), IsInsert(inbox'[i])
      PROVE  inbox'[i].order \notin accepted'
  <2>1. i + 1 \in 1 .. Len(inbox) /\ 1 \in 1 .. Len(inbox) /\ i + 1 # 1 /\ inbox'[i] = inbox[i + 1]
    BY <1>2
  <2>2. inbox[i + 1].order \notin accepted
    BY <1>1, <1>5, <2>1 DEF InboxInv
  <2>3. IsInsert(inbox[1]) => inbox[i + 1].order # inbox[1].order
    BY <1>1, <1>5, <2>1 DEF InboxInv
  <2> QED
    BY <1>2, <2>1, <2>2, <2>3
<1> QED
  BY <1>2, <1>3, <1>4, <1>5 DEF InboxInv, IsInsert

\* The CP sends a message; if it is an insert the order was not placed before.
LEMMA InboxGrows ==
  ASSUME IInv, NEW m \in Event, inbox' = Append(inbox, m), accepted' = accepted,
         \A p \in Orders : sent[p] # None => sent'[p] # None,
         m.kind # "sync" => m.order \in Orders /\ sent'[m.order] # None,
         IsInsert(m) => sent[m.order] = None
  PROVE  inbox' \in Seq(Event) /\ inbox' # <<>> /\ InboxInv'
<1>1. inbox \in Seq(Event) /\ InboxInv /\ \A p \in Orders : OrderInv(p)
  BY DEF IInv, TypeOK
<1>2. /\ inbox' \in Seq(Event) /\ inbox' # <<>> /\ Len(inbox) \in Nat
      /\ Len(inbox') = Len(inbox) + 1
      /\ \A i \in 1 .. Len(inbox) : inbox'[i] = inbox[i]
      /\ inbox'[Len(inbox) + 1] = m
  BY <1>1, Appended
<1>3. \A i \in 1 .. Len(inbox') :
        inbox'[i].kind # "sync" => inbox'[i].order \in Orders /\ sent'[inbox'[i].order] # None
  BY <1>1, <1>2 DEF InboxInv
<1>4. IsInsert(m) => m.order \notin accepted
  BY <1>1 DEF OrderInv, IsInsert
<1>5. \A i \in 1 .. Len(inbox') : IsInsert(inbox'[i]) => inbox'[i].order \notin accepted'
  BY <1>1, <1>2, <1>4 DEF InboxInv
<1>6. IsInsert(m) => \A i \in 1 .. Len(inbox) : IsInsert(inbox[i]) => inbox[i].order # m.order
  BY <1>1 DEF InboxInv, IsInsert
<1>7. \A i, j \in 1 .. Len(inbox') :
        IsInsert(inbox'[i]) /\ IsInsert(inbox'[j]) /\ i # j => inbox'[i].order # inbox'[j].order
  BY <1>1, <1>2, <1>6 DEF InboxInv
<1> QED
  BY <1>2, <1>3, <1>5, <1>7 DEF InboxInv, IsInsert

\* The initial states.
LEMMA InitHolds == Init => IInv
<1> SUFFICES ASSUME Init PROVE IInv
  OBVIOUS
<1>1. TypeOK
  <2>1. <<>> \in Seq(Event) /\ <<>> \in Seq(TradeResp \cup CancelResp \cup SyncResp)
    OBVIOUS
  <2>2. heard \in [Orders -> [traded : Nat, answers : SUBSET Answers]]
    BY DEF Init
  <2>3. traded \in [Orders -> Nat] /\ held \in [Sides -> Nat]
    BY DEF Init
  <2>4. active \in [Orders -> Order \cup {None}] /\ sent \in [Orders -> Inputs \cup {None}]
    BY DEF Init
  <2>5. inbox \in Seq(Event) /\ resp \in Seq(TradeResp \cup CancelResp \cup SyncResp)
    BY <2>1 DEF Init
  <2>6. mode \in Modes /\ running \in BOOLEAN /\ board \in Boards \cup {None}
    BY DEF Init
  <2>7. lock \in {"free", "round"} /\ todo \subseteq Orders /\ job \in Job \cup {None}
    BY DEF Init
  <2>8. avail \in Int /\ fees \in Int /\ cash \in Int /\ cancels \in Nat /\ accepted \subseteq Orders
    BY MoneyIsWhole DEF Init
  <2> QED
    BY <2>2, <2>3, <2>4, <2>5, <2>6, <2>7, <2>8 DEF TypeOK
<1>2. InboxInv /\ RoundInv /\ JobInv /\ RespInv
  BY DEF Init, InboxInv, RoundInv, JobInv, RespInv
<1>3. ASSUME NEW o \in Orders
      PROVE  OrderInv(o) /\ CancelInv(o)
  BY DEF Init, OrderInv, CancelInv, Live
<1> QED
  BY <1>1, <1>2, <1>3 DEF IInv

\* Messages of the CP.
LEMMA PlaceKeeps ==
  ASSUME IInv, NEW o \in Orders, Place(o)
  PROVE  IInv'
<1> DEFINE m == [kind |-> "insert", order |-> o]
<1>1. TypeOK /\ RoundInv /\ JobInv /\ RespInv
  BY DEF IInv
<1>2. PICK i \in Inputs : sent' = [sent EXCEPT ![o] = i]
  BY DEF Place
<1>3. /\ sent' \in [Orders -> Inputs \cup {None}] /\ sent'[o] = i /\ i # None
      /\ \A p \in Orders \ {o} : sent'[p] = sent[p]
  BY <1>1, <1>2, NoneIsFree DEF TypeOK
<1>4. sent[o] = None /\ inbox' = Append(inbox, m)
  BY DEF Place, Send
<1>5. UNCHANGED <<mode, running, board, broker, round, resp, cancels, cash, heard>>
  BY DEF Place
<1>6. m \in Event /\ m.kind # "sync" /\ m.order = o
  BY DEF Event
<1> HIDE DEF m
<1>7. inbox' \in Seq(Event) /\ inbox' # <<>> /\ InboxInv'
  BY <1>3, <1>4, <1>5, <1>6, InboxGrows DEF broker
<1>8. TypeOK'
  BY <1>1, <1>3, <1>5, <1>7 DEF TypeOK, broker, round
<1>9. RoundInv'
  BY <1>1, <1>5, <1>7 DEF RoundInv, Live, broker, round
<1>10. JobInv'
  <2> SUFFICES ASSUME job # None PROVE JobInv'
    BY <1>5 DEF JobInv, round
  <2>1. job.order \in Orders /\ Live(job.order)
    BY <1>1 DEF TypeOK, Job, JobInv
  <2>2. job.order # o
    BY <2>1, <1>4, LiveIsPlaced
  <2> QED
    BY <2>1, <2>2, <1>1, <1>3, <1>5 DEF JobInv, WithinLimit, Live, Done, broker, round
<1>11. RespInv'
  <2> SUFFICES ASSUME NEW k \in 1 .. Len(resp), resp[k].kind = "trade"
               PROVE  sent'[resp[k].order] # None /\ WithinLimit(resp[k].order, resp[k].volume, resp[k].value)'
    BY <1>5 DEF RespInv
  <2>1. resp[k] \in TradeResp
    BY <1>1 DEF TypeOK, TradeResp, CancelResp, SyncResp
  <2>2. resp[k].order \in Orders /\ resp[k].order # o
    BY <1>1, <1>4, <2>1 DEF RespInv, TradeResp
  <2> QED
    BY <2>2, <1>1, <1>3, <1>5 DEF RespInv, WithinLimit
<1>12. ASSUME NEW p \in Orders
       PROVE  OrderInv(p)' /\ CancelInv(p)'
  <2>1. OrderInv(p) /\ CancelInv(p)
    BY DEF IInv
  <2>2. OrderInv(p)'
    BY <2>1, <1>3, <1>4, <1>5 DEF OrderInv, Live, broker
  <2>3. CancelInv(p)'
    BY <2>1, <1>5 DEF CancelInv, Cancelled, Live, TradeOf, broker
  <2> QED
    BY <2>2, <2>3
<1> QED
  BY <1>7, <1>8, <1>9, <1>10, <1>11, <1>12 DEF IInv

\* A message that is not an insert, AskCancel or SendSync.
LEMMA SendKeeps ==
  ASSUME IInv, NEW m \in Event, inbox' = Append(inbox, m), ~IsInsert(m),
         m.kind # "sync" => m.order \in Orders /\ sent[m.order] # None,
         cancels' \in Nat,
         UNCHANGED <<mode, running, board, broker, round, resp, sent, cash, heard>>
  PROVE  IInv'
<1>1. TypeOK /\ RoundInv /\ JobInv /\ RespInv
  BY DEF IInv
<1>2. inbox' \in Seq(Event) /\ inbox' # <<>> /\ InboxInv'
  BY InboxGrows DEF broker
<1>3. TypeOK'
  BY <1>1, <1>2 DEF TypeOK, broker, round
<1>4. RoundInv'
  BY <1>1, <1>2 DEF RoundInv, Live, broker, round
<1>5. JobInv' /\ RespInv'
  BY <1>1 DEF JobInv, RespInv, WithinLimit, Live, Done, broker, round
<1>6. ASSUME NEW p \in Orders
      PROVE  OrderInv(p)' /\ CancelInv(p)'
  <2>1. OrderInv(p) /\ CancelInv(p)
    BY DEF IInv
  <2>2. OrderInv(p)'
    BY <2>1 DEF OrderInv, Live, broker
  <2>3. CancelInv(p)'
    BY <2>1 DEF CancelInv, Cancelled, Live, TradeOf, broker
  <2> QED
    BY <2>2, <2>3
<1> QED
  BY <1>2, <1>3, <1>4, <1>5, <1>6 DEF IInv

\* The CP reads a response.
LEMMA ReadKeeps ==
  ASSUME IInv, Read
  PROVE  IInv'
<1> DEFINE R == TradeResp \cup CancelResp \cup SyncResp
<1>1. TypeOK /\ InboxInv /\ RoundInv /\ JobInv /\ RespInv
  BY DEF IInv
<1>2. resp # <<>> /\ resp \in Seq(R) /\ resp' = Tail(resp)
  BY <1>1 DEF Read, TypeOK
<1>3. UNCHANGED <<mode, running, inbox, board, broker, round, sent, cancels>>
  BY DEF Read
<1> HIDE DEF R
<1>4. /\ resp' \in Seq(R) /\ Len(resp) \in Nat \ {0} /\ Len(resp') = Len(resp) - 1
      /\ Head(resp) = resp[1] /\ resp[1] \in R
      /\ \A i \in 1 .. Len(resp') : i + 1 \in 1 .. Len(resp) /\ resp'[i] = resp[i + 1]
  BY <1>2, Tailed
<1>5. \/ resp[1] \in TradeResp /\ ReadTrade(resp[1])
      \/ resp[1] \in CancelResp /\ ReadAnswer(resp[1])
      \/ UNCHANGED <<cash, heard>>
  BY <1>4 DEF Read, R, TradeResp, CancelResp, SyncResp
<1>6. cash' \in Int /\ heard' \in [Orders -> [traded : Nat, answers : SUBSET Answers]]
  <2>1. CASE resp[1] \in TradeResp /\ ReadTrade(resp[1])
    <3>1. cash' \in Int
      <4>1. Cost(resp[1].value) \in Int /\ resp[1].fee \in Int
        BY <2>1, MoneyIsWhole DEF Cost, TradeResp
      <4> QED
        BY <2>1, <1>1, <4>1 DEF ReadTrade, CashAfter, TypeOK
    <3>2. resp[1].order \in Orders /\ resp[1].volume \in Nat
      BY <2>1 DEF TradeResp
    <3>3. heard' = [heard EXCEPT ![resp[1].order].traded = @ + resp[1].volume]
      BY <2>1 DEF ReadTrade
    <3>4. heard \in [Orders -> [traded : Nat, answers : SUBSET Answers]]
      BY <1>1 DEF TypeOK
    <3>5. [heard[resp[1].order] EXCEPT !.traded = @ + resp[1].volume]
            \in [traded : Nat, answers : SUBSET Answers]
      BY <3>2, <3>4
    <3> QED
      BY <3>1, <3>2, <3>3, <3>4, <3>5
  <2>2. CASE resp[1] \in CancelResp /\ ReadAnswer(resp[1])
    BY <2>2, <1>1 DEF ReadAnswer, CancelResp, TypeOK
  <2>3. CASE UNCHANGED <<cash, heard>>
    BY <2>3, <1>1 DEF TypeOK
  <2> QED
    BY <1>5, <2>1, <2>2, <2>3
<1>7. TypeOK'
  BY <1>1, <1>3, <1>4, <1>6 DEF TypeOK, R, broker, round
<1>8. InboxInv' /\ RoundInv' /\ JobInv'
  BY <1>1, <1>3 DEF InboxInv, RoundInv, JobInv, WithinLimit, Live, Done, broker, round
<1>9. RespInv'
  BY <1>1, <1>3, <1>4 DEF RespInv, WithinLimit
<1>10. ASSUME NEW p \in Orders
       PROVE  OrderInv(p)' /\ CancelInv(p)'
  <2>1. OrderInv(p) /\ CancelInv(p)
    BY DEF IInv
  <2>2. OrderInv(p)'
    BY <2>1, <1>3 DEF OrderInv, Live, broker
  <2>3. Cancelled(p)' = Cancelled(p)
    BY <1>3 DEF Cancelled, Live, broker
  <2>4. "ok" \in heard'[p].answers =>
          "ok" \in heard[p].answers \/ resp[1] = [kind |-> "cancel", order |-> p, answer |-> "ok"]
    <3>1. CASE resp[1] \in TradeResp /\ ReadTrade(resp[1])
      BY <3>1, <1>1 DEF ReadTrade, TradeResp, TypeOK
    <3>2. CASE resp[1] \in CancelResp /\ ReadAnswer(resp[1])
      <4>1. resp[1] = [kind |-> "cancel", order |-> resp[1].order, answer |-> resp[1].answer]
        BY <3>2 DEF CancelResp
      <4>2. heard'[p].answers \subseteq heard[p].answers \cup
              (IF resp[1].order = p THEN {resp[1].answer} ELSE {})
        BY <3>2, <1>1 DEF ReadAnswer, CancelResp, TypeOK
      <4> QED
        BY <4>1, <4>2
    <3>3. CASE UNCHANGED <<cash, heard>>
      BY <3>3
    <3> QED
      BY <1>5, <3>1, <3>2, <3>3
  <2>5. ASSUME "ok" \in heard'[p].answers
        PROVE  Cancelled(p) /\ \A i \in 1 .. Len(resp') : ~TradeOf(resp'[i], p)
    <3>1. CASE "ok" \in heard[p].answers
      BY <3>1, <2>1, <1>4 DEF CancelInv
    <3>2. CASE resp[1] = [kind |-> "cancel", order |-> p, answer |-> "ok"]
      <4>1. 1 \in 1 .. Len(resp)
        BY <1>4
      <4>2. Cancelled(p) /\ \A j \in 1 .. Len(resp) : 1 < j => ~TradeOf(resp[j], p)
        BY <2>1, <3>2, <4>1 DEF CancelInv
      <4> QED
        BY <4>2, <1>4
    <3> QED
      BY <2>4, <2>5, <3>1, <3>2
  <2>6. ASSUME NEW i \in 1 .. Len(resp'),
               resp'[i] = [kind |-> "cancel", order |-> p, answer |-> "ok"]
        PROVE  Cancelled(p) /\ \A j \in 1 .. Len(resp') : i < j => ~TradeOf(resp'[j], p)
    <3>1. i + 1 \in 1 .. Len(resp) /\ resp'[i] = resp[i + 1]
      BY <1>4
    <3>2. Cancelled(p) /\ \A j \in 1 .. Len(resp) : i + 1 < j => ~TradeOf(resp[j], p)
      BY <2>1, <2>6, <3>1 DEF CancelInv
    <3> QED
      BY <3>2, <1>4
  <2>7. CancelInv(p)'
    BY <2>3, <2>5, <2>6 DEF CancelInv, TradeOf
  <2> QED
    BY <2>2, <2>7
<1> QED
  BY <1>7, <1>8, <1>9, <1>10 DEF IInv

\* insert_order.
LEMMA InsertKeeps ==
  ASSUME IInv, NEW o \in Orders, Insert(o)
  PROVE  IInv'
<1> DEFINE new == [left |-> sent[o].volume, status |-> "Submitted"]
<1>1. TypeOK /\ InboxInv /\ RoundInv /\ RespInv
  BY DEF IInv
<1>2. /\ lock = "free" /\ inbox # <<>> /\ inbox' = Tail(inbox)
      /\ Head(inbox).kind = "insert" /\ Head(inbox).order = o
      /\ UNCHANGED <<mode, running, board, avail, fees, held, traded, round, resp, cp>>
  BY DEF Insert, Handles
<1>3. \/ UNCHANGED <<active, accepted>>
      \/ active' = [active EXCEPT ![o] = new] /\ accepted' = accepted \cup {o}
  BY DEF Insert
<1>4. 1 \in 1 .. Len(inbox) /\ Head(inbox) = inbox[1]
  <2>1. inbox \in Seq(Event)
    BY <1>1 DEF TypeOK
  <2> QED
    BY <2>1, <1>2, Tailed
<1>5. sent[o] # None /\ o \notin accepted
  BY <1>1, <1>2, <1>4 DEF InboxInv, IsInsert
<1>6. sent[o].volume \in Nat \ {0}
  <2>1. sent[o] \in Input
    BY <1>1, <1>5, InputsAreOrders DEF TypeOK
  <2> QED
    BY <2>1 DEF Input
<1>7. new \in Order /\ new # None /\ new.left = sent[o].volume /\ new.status = "Submitted"
  BY <1>6, NoneIsFree DEF Order, Status
<1> HIDE DEF new
<1>8. inbox' \in Seq(Event) /\ InboxInv'
  BY <1>2, <1>3, InboxShrinks DEF IsInsert, cp
<1>9. active' \in [Orders -> Order \cup {None}] /\ accepted' \subseteq Orders
  BY <1>1, <1>3, <1>7 DEF TypeOK
<1>10. TypeOK'
  BY <1>1, <1>2, <1>8, <1>9 DEF TypeOK, round, cp
<1>11. RoundInv' /\ JobInv'
  BY <1>1, <1>2 DEF RoundInv, JobInv, round
<1>12. RespInv'
  BY <1>1, <1>2 DEF RespInv, WithinLimit, cp
<1>13. ASSUME NEW p \in Orders
       PROVE  OrderInv(p)' /\ CancelInv(p)'
  <2>1. OrderInv(p) /\ CancelInv(p)
    BY DEF IInv
  <2>2. traded[o] = 0 /\ ~Live(o)
    BY <1>5 DEF IInv, OrderInv
  <2>3. OrderInv(p)'
    <3>1. CASE UNCHANGED <<active, accepted>>
      BY <2>1, <3>1, <1>2 DEF OrderInv, Live, cp
    <3>2. CASE active' = [active EXCEPT ![o] = new] /\ accepted' = accepted \cup {o} /\ p # o
      BY <2>1, <3>2, <1>1, <1>2 DEF OrderInv, Live, cp, TypeOK
    <3>3. CASE active' = [active EXCEPT ![o] = new] /\ accepted' = accepted \cup {o} /\ p = o
      <4>1. active'[o] = new
        BY <3>3, <1>1 DEF TypeOK
      <4>2. sent'[o] = sent[o] /\ traded'[o] = 0
        BY <1>2, <2>2 DEF cp
      <4> QED
        BY <3>3, <4>1, <4>2, <1>5, <1>6, <1>7 DEF OrderInv, Live
    <3> QED
      BY <1>3, <3>1, <3>2, <3>3
  <2>4. Cancelled(p) => Cancelled(p)'
    BY <1>1, <1>3, <2>2 DEF Cancelled, Live, TypeOK
  <2>5. CancelInv(p)'
    BY <2>1, <2>4, <1>2 DEF CancelInv, TradeOf, cp
  <2> QED
    BY <2>3, <2>5
<1> QED
  BY <1>8, <1>10, <1>11, <1>12, <1>13 DEF IInv

\* A message forgotten before trading starts.
LEMMA IgnoreKeeps ==
  ASSUME IInv, NEW o \in Orders, Ignore(o)
  PROVE  IInv'
<1>1. TypeOK /\ InboxInv /\ RoundInv /\ RespInv
  BY DEF IInv
<1>2. /\ lock = "free" /\ inbox # <<>> /\ inbox' = Tail(inbox)
      /\ UNCHANGED <<mode, running, board, broker, round, resp, cp>>
  BY DEF Ignore, Handles
<1>3. inbox' \in Seq(Event) /\ InboxInv'
  BY <1>2, InboxShrinks DEF broker, cp
<1>4. TypeOK'
  BY <1>1, <1>2, <1>3 DEF TypeOK, broker, round, cp
<1>5. RoundInv' /\ JobInv'
  BY <1>1, <1>2 DEF RoundInv, JobInv, round
<1>6. RespInv'
  BY <1>1, <1>2 DEF RespInv, WithinLimit, cp
<1>7. ASSUME NEW p \in Orders
      PROVE  OrderInv(p)' /\ CancelInv(p)'
  <2>1. OrderInv(p) /\ CancelInv(p)
    BY DEF IInv
  <2>2. OrderInv(p)'
    BY <2>1, <1>2 DEF OrderInv, Live, broker, cp
  <2>3. CancelInv(p)'
    BY <2>1, <1>2 DEF CancelInv, Cancelled, Live, TradeOf, broker, cp
  <2> QED
    BY <2>2, <2>3
<1> QED
  BY <1>3, <1>4, <1>5, <1>6, <1>7 DEF IInv

\* A response that is not a trade.
LEMMA AnswerKeeps ==
  ASSUME IInv, NEW r \in CancelResp \cup SyncResp, resp' = Append(resp, r),
         UNCHANGED <<sent, heard>>,
         \A p \in Orders : Cancelled(p) => Cancelled(p)',
         \A p \in Orders : r = [kind |-> "cancel", order |-> p, answer |-> "ok"] => Cancelled(p)'
  PROVE  /\ resp' \in Seq(TradeResp \cup CancelResp \cup SyncResp)
         /\ RespInv' /\ \A p \in Orders : CancelInv(p)'
<1> DEFINE R == TradeResp \cup CancelResp \cup SyncResp
<1>1. RespInv /\ resp \in Seq(R)
  BY DEF IInv, TypeOK
<1>2. r \in R /\ r.kind # "trade"
  BY DEF CancelResp, SyncResp
<1> HIDE DEF R
<1>3. /\ Len(resp) \in Nat /\ resp' \in Seq(R) /\ Len(resp') = Len(resp) + 1
      /\ \A i \in 1 .. Len(resp) : resp'[i] = resp[i]
      /\ resp'[Len(resp) + 1] = r
  BY <1>1, <1>2, Appended
<1>4. RespInv'
  BY <1>1, <1>2, <1>3 DEF RespInv, WithinLimit
<1>5. ASSUME NEW p \in Orders
      PROVE  CancelInv(p)'
  <2>1. CancelInv(p)
    BY DEF IInv
  <2>2. ASSUME "ok" \in heard[p].answers
        PROVE  Cancelled(p)' /\ \A i \in 1 .. Len(resp') : ~TradeOf(resp'[i], p)
    <3>1. Cancelled(p) /\ \A i \in 1 .. Len(resp) : ~TradeOf(resp[i], p)
      BY <2>1, <2>2 DEF CancelInv
    <3> QED
      BY <3>1, <1>2, <1>3 DEF TradeOf
  <2>3. ASSUME NEW i \in 1 .. Len(resp'),
               resp'[i] = [kind |-> "cancel", order |-> p, answer |-> "ok"]
        PROVE  Cancelled(p)' /\ \A j \in 1 .. Len(resp') : i < j => ~TradeOf(resp'[j], p)
    <3>1. CASE i \in 1 .. Len(resp)
      <4>1. Cancelled(p) /\ \A j \in 1 .. Len(resp) : i < j => ~TradeOf(resp[j], p)
        BY <2>1, <2>3, <3>1, <1>3 DEF CancelInv
      <4> QED
        BY <4>1, <1>2, <1>3 DEF TradeOf
    <3>2. CASE i = Len(resp) + 1
      BY <2>3, <3>2, <1>3
    <3> QED
      BY <3>1, <3>2, <1>3
  <2> QED
    BY <2>2, <2>3 DEF CancelInv
<1> QED
  BY <1>3, <1>4, <1>5 DEF R

\* cancel_order.
LEMMA CancelKeeps ==
  ASSUME IInv, NEW o \in Orders, Cancel(o)
  PROVE  IInv'
<1> DEFINE r == [kind |-> "cancel", order |-> o, answer |-> CancelAnswer(o)]
<1>1. TypeOK /\ InboxInv /\ RoundInv /\ RespInv
  BY DEF IInv
<1>2. /\ lock = "free" /\ inbox # <<>> /\ inbox' = Tail(inbox) /\ resp' = Append(resp, r)
      /\ UNCHANGED <<mode, running, board, avail, fees, held, accepted, traded, round, cp>>
  BY DEF Cancel, Handles, Notify
<1>3. \/ CancelAnswer(o) # "ok" /\ active' = active
      \/ CancelAnswer(o) = "ok" /\ active' = [active EXCEPT ![o].status = "Cancelled"]
  BY DEF Cancel, SetStatus
<1>4. r \in CancelResp
  BY DEF CancelResp, Answers, CancelAnswer
<1>5. CancelAnswer(o) = "ok" => Live(o) /\ Cancellable(o)
  BY DEF CancelAnswer
<1>6. CancelAnswer(o) = "ok" =>
        /\ active' \in [Orders -> Order \cup {None}]
        /\ active'[o] \in Order /\ active'[o] # None
        /\ active'[o].left = active[o].left /\ active'[o].status = "Cancelled"
        /\ \A p \in Orders \ {o} : active'[p] = active[p]
  <2> SUFFICES ASSUME CancelAnswer(o) = "ok" PROVE
        /\ active' \in [Orders -> Order \cup {None}]
        /\ active'[o] \in Order /\ active'[o] # None
        /\ active'[o].left = active[o].left /\ active'[o].status = "Cancelled"
        /\ \A p \in Orders \ {o} : active'[p] = active[p]
    OBVIOUS
  <2>1. active[o] \in Order
    BY <1>1, <1>5 DEF TypeOK, Live
  <2>2. [active[o] EXCEPT !.status = "Cancelled"] \in Order
    BY <2>1 DEF Order, Status
  <2>3. /\ [active[o] EXCEPT !.status = "Cancelled"].left = active[o].left
        /\ [active[o] EXCEPT !.status = "Cancelled"].status = "Cancelled"
    BY <2>1 DEF Order
  <2>4. /\ active' \in [Orders -> Order \cup {None}]
        /\ active'[o] = [active[o] EXCEPT !.status = "Cancelled"]
        /\ \A p \in Orders \ {o} : active'[p] = active[p]
    BY <1>1, <1>3, <2>2 DEF TypeOK
  <2> QED
    BY <2>2, <2>3, <2>4, NoneIsFree DEF Order
<1>7. active' \in [Orders -> Order \cup {None}]
  BY <1>1, <1>3, <1>6 DEF TypeOK
<1>8. ASSUME NEW p \in Orders
      PROVE  /\ Live(p)' = Live(p) /\ (Live(p) => active'[p].left = active[p].left)
             /\ Cancelled(p) => Cancelled(p)'
             /\ r = [kind |-> "cancel", order |-> p, answer |-> "ok"] => Cancelled(p)'
  <2>1. r = [kind |-> "cancel", order |-> p, answer |-> "ok"] => p = o /\ CancelAnswer(o) = "ok"
    OBVIOUS
  <2> HIDE DEF r
  <2>2. CASE active' = active
    BY <2>1, <2>2, <1>3, <1>6 DEF Live, Cancelled
  <2>3. CASE CancelAnswer(o) = "ok"
    BY <2>1, <2>3, <1>5, <1>6 DEF Live, Cancelled
  <2> QED
    BY <1>3, <2>2, <2>3
<1> HIDE DEF r
<1>9. inbox' \in Seq(Event) /\ InboxInv'
  BY <1>2, InboxShrinks DEF cp
<1>10. /\ resp' \in Seq(TradeResp \cup CancelResp \cup SyncResp)
       /\ RespInv' /\ \A p \in Orders : CancelInv(p)'
  BY <1>2, <1>4, <1>8, AnswerKeeps DEF cp
<1>11. TypeOK'
  BY <1>1, <1>2, <1>7, <1>9, <1>10 DEF TypeOK, round, cp
<1>12. RoundInv' /\ JobInv'
  BY <1>1, <1>2 DEF RoundInv, JobInv, round
<1>13. ASSUME NEW p \in Orders
       PROVE  OrderInv(p)'
  <2>1. OrderInv(p)
    BY DEF IInv
  <2> QED
    BY <2>1, <1>2, <1>8 DEF OrderInv, cp
<1> QED
  BY <1>9, <1>10, <1>11, <1>12, <1>13 DEF IInv

\* A visit that only changes the status of an order not yet ended.
LEMMA StatusKeeps ==
  ASSUME IInv, NEW o \in Orders, NEW st \in {"Pending", "Error"},
         Live(o), ~Done(o), SetStatus(o, st), lock = "round", job = None, todo' \subseteq todo,
         UNCHANGED <<mode, running, inbox, board, avail, fees, held, accepted, traded, lock, job, resp, cp>>
  PROVE  IInv'
<1>1. TypeOK /\ InboxInv /\ RoundInv /\ RespInv
  BY DEF IInv
<1>2. active[o] \in Order
  BY <1>1 DEF TypeOK, Live
<1>3. /\ [active[o] EXCEPT !.status = st] \in Order
      /\ [active[o] EXCEPT !.status = st].left = active[o].left
  BY <1>2 DEF Order, Status
<1>4. /\ active' \in [Orders -> Order \cup {None}]
      /\ active'[o] = [active[o] EXCEPT !.status = st]
      /\ \A p \in Orders \ {o} : active'[p] = active[p]
  BY <1>1, <1>3 DEF TypeOK, SetStatus
<1>5. active'[o] # None /\ active'[o].left = active[o].left
  BY <1>3, <1>4, NoneIsFree DEF Order
<1>6. ASSUME NEW p \in Orders
      PROVE  /\ Live(p)' = Live(p) /\ (Live(p) => active'[p].left = active[p].left)
             /\ Cancelled(p) => Cancelled(p)'
  BY <1>4, <1>5 DEF Live, Cancelled, Done
<1>7. TypeOK'
  BY <1>1, <1>4 DEF TypeOK, cp
<1>8. InboxInv' /\ JobInv'
  BY <1>1 DEF InboxInv, JobInv, cp
<1>9. RoundInv'
  BY <1>1, <1>6 DEF RoundInv, TypeOK
<1>10. RespInv'
  BY <1>1 DEF RespInv, WithinLimit, cp
<1>11. ASSUME NEW p \in Orders
       PROVE  OrderInv(p)' /\ CancelInv(p)'
  <2>1. OrderInv(p) /\ CancelInv(p)
    BY DEF IInv
  <2>2. OrderInv(p)'
    BY <2>1, <1>6 DEF OrderInv, cp
  <2>3. CancelInv(p)'
    BY <2>1, <1>6 DEF CancelInv, TradeOf, cp
  <2> QED
    BY <2>2, <2>3
<1> QED
  BY <1>7, <1>8, <1>9, <1>10, <1>11 DEF IInv

\* The board, the start, and the visits of a round that trade nothing.
LEMMA OthersKeep ==
  ASSUME IInv, SetDepth \/ TradingStart \/ BeginRound \/ \E o \in Orders : Skip(o)
  PROVE  IInv'
<1>1. TypeOK /\ RoundInv /\ JobInv
  BY DEF IInv
<1>2. CASE SetDepth
  <2>1. RoundInv' /\ JobInv'
    BY <1>1, <1>2 DEF SetDepth, RoundInv, JobInv, WithinLimit, Live, Done, broker, round, cp
  <2> QED
    BY <1>1, <1>2, <2>1, QuietKeeps DEF SetDepth, TypeOK, round
<1>3. CASE TradingStart
  <2>1. RoundInv' /\ JobInv'
    BY <1>1, <1>3 DEF TradingStart, RoundInv, JobInv, WithinLimit, Live, Done, broker, round, cp
  <2> QED
    BY <1>1, <1>3, <2>1, QuietKeeps DEF TradingStart, TypeOK, round
<1>4. CASE BeginRound
  <2>1. RoundInv' /\ JobInv'
    BY <1>1, <1>4 DEF BeginRound, RoundInv, JobInv, Live, broker
  <2> QED
    BY <1>1, <1>4, <2>1, QuietKeeps DEF BeginRound, TypeOK
<1>5. CASE \E o \in Orders : Skip(o)
  <2>1. RoundInv' /\ JobInv'
    BY <1>1, <1>5 DEF Skip, Visits, RoundInv, JobInv, Live, broker
  <2> QED
    BY <1>1, <1>5, <2>1, QuietKeeps DEF Skip, Visits, TypeOK
<1> QED
  BY <1>2, <1>3, <1>4, <1>5

\* The price handle_no_depth_execution takes: the limit if there is one.
LEMMA SimulatedPriceIs ==
  ASSUME NEW o \in Orders, sent[o] \in Input, NEW p \in SimulatedPrices(o)
  PROVE  p \in Int /\ (sent[o].type = "Limit" => p = sent[o].limit * Scale)
<1>1. sent[o].limit \in Nat /\ sent[o].side \in Sides
  BY DEF Input
<1>2. CASE sent[o].type = "Limit"
  BY <1>1, <1>2, MoneyIsWhole DEF SimulatedPrices
<1>3. CASE sent[o].type # "Limit"
  <2>1. PICK q \in MarketPrices(o) : p = ApplySlippage(q, sent[o].side)
    BY <1>3 DEF SimulatedPrices
  <2>2. q \in Nat
    BY <1>1, PricesArePositive DEF MarketPrices
  <2> QED
    BY <1>1, <1>3, <2>1, <2>2, SlippageTypes
<1> QED
  BY <1>2, <1>3

\* A visit with no depth: the whole order, or an error.
LEMMA NoDepthKeeps ==
  ASSUME IInv, NEW o \in Orders, NoDepth(o)
  PROVE  IInv'
<1>1. TypeOK /\ RoundInv
  BY DEF IInv
<1>2. /\ lock = "round" /\ job = None /\ todo' \subseteq todo /\ o \notin todo' /\ Live(o) /\ ~Done(o)
      /\ UNCHANGED <<mode, running, inbox, board, lock, job, cp>>
  BY <1>1 DEF NoDepth, Visits, RoundInv
<1>3. sent[o] \in Input /\ active[o].left \in Nat \ {0}
  BY <1>2, LiveIsPlaced
<1>4. PICK p \in SimulatedPrices(o) :
        IF FundsSuffice(o, p * active[o].left) THEN Execute(o, active[o].left, p * active[o].left)
        ELSE /\ SetStatus(o, "Error")
             /\ UNCHANGED <<avail, fees, held, accepted, traded, resp>>
  BY DEF NoDepth
<1>5. PICK w \in Nat : w = active[o].left /\ w > 0
  BY <1>3
<1>6. p \in Int /\ (sent[o].type = "Limit" => p = sent[o].limit * Scale)
  BY <1>3, SimulatedPriceIs
<1>7. PICK value \in Int : value = p * w
  BY <1>5, <1>6
<1>8. CASE Execute(o, active[o].left, p * active[o].left)
  <2>1. Execute(o, w, value)
    BY <1>5, <1>7, <1>8 DEF Execute, LeftAfter, AvailAfter
  <2>2. WithinLimit(o, w, value)
    <3>1. sent[o].limit * Scale \in Int
      BY <1>3, MoneyIsWhole DEF Input
    <3> QED
      BY <3>1, <1>5, <1>6, <1>7 DEF WithinLimit
  <2> QED
    BY <2>1, <2>2, <1>2, <1>5, <1>7, ExecuteKeeps
<1>9. CASE SetStatus(o, "Error") /\ UNCHANGED <<avail, fees, held, accepted, traded, resp>>
  BY <1>2, <1>9, StatusKeeps
<1> QED
  BY <1>4, <1>8, <1>9

\* A visit with nobody to trade with.
LEMMA NoLevelKeeps ==
  ASSUME IInv, NEW o \in Orders, NoLevel(o)
  PROVE  IInv'
<1>1. TypeOK /\ RoundInv /\ JobInv
  BY DEF IInv
<1>2. /\ lock = "round" /\ job = None /\ todo' \subseteq todo /\ Live(o) /\ ~Done(o)
      /\ UNCHANGED <<mode, running, inbox, board, avail, fees, held, accepted, traded, lock, job, resp, cp>>
  BY <1>1 DEF NoLevel, Visits, RoundInv
<1>3. SetStatus(o, "Pending") \/ UNCHANGED active
  BY DEF NoLevel
<1>4. CASE SetStatus(o, "Pending")
  BY <1>2, <1>4, StatusKeeps
<1>5. CASE UNCHANGED active
  <2>1. RoundInv' /\ JobInv'
    BY <1>1, <1>2, <1>5 DEF RoundInv, JobInv, Live
  <2> QED
    BY <1>1, <1>2, <1>5, <2>1, QuietKeeps DEF TypeOK, broker
<1> QED
  BY <1>3, <1>4, <1>5

\* The walk of the levels begins.
LEMMA StartMatchKeeps ==
  ASSUME IInv, NEW o \in Orders, StartMatch(o)
  PROVE  IInv'
<1>1. TypeOK /\ RoundInv
  BY DEF IInv
<1>2. /\ lock = "round" /\ todo' = todo \ {o} /\ Live(o) /\ ~Done(o) /\ board # None
      /\ job' = [order |-> o, levels |-> LevelsFor(o, board), at |-> 1,
                 rem |-> active[o].left, total |-> 0, value |-> 0]
      /\ UNCHANGED <<mode, running, inbox, board, broker, lock, resp, cp>>
  BY <1>1 DEF StartMatch, Visits, RoundInv
<1>3. sent[o] \in Input /\ active[o].left \in Nat \ {0}
  BY <1>2, LiveIsPlaced
<1>4. LevelsFor(o, board) \in Seq(Level)
  <2>1. board \in Depth
    BY <1>1, <1>2, BoardsAreDepths DEF TypeOK
  <2> QED
    BY <2>1 DEF Depth, LevelsFor
<1>5. job' \in Job
  BY <1>2, <1>3, <1>4 DEF Job
<1>6. RoundInv'
  BY <1>1, <1>2 DEF RoundInv, Live, broker
<1>7. JobInv'
  <2>1. sent[o].limit * Scale \in Int
    BY <1>3, MoneyIsWhole DEF Input
  <2>2. WithinLimit(o, 0, 0)'
    BY <2>1, <1>2 DEF WithinLimit, cp
  <2> QED
    BY <2>2, <1>2, <1>3 DEF JobInv, WithinLimit, Live, Done, broker, cp
<1> QED
  BY <1>1, <1>2, <1>5, <1>6, <1>7, QuietKeeps DEF TypeOK

\* One turn of the loop over the levels.
LEMMA TakeLevelKeeps ==
  ASSUME IInv, TakeLevel
  PROVE  IInv'
<1> DEFINE o == job.order
           l == job.levels[job.at]
           f == ApplySlippage(l.price, sent[o].side)
           v == Smaller(job.rem, l.volume)
<1>1. TypeOK /\ RoundInv /\ JobInv
  BY DEF IInv
<1>2. /\ job # None /\ GoesOn
      /\ UNCHANGED <<mode, running, inbox, board, broker, lock, todo, resp, cp>>
  BY DEF TakeLevel
<1>3. \/ /\ Usable(l)
         /\ job' = [job EXCEPT !.at = @ + 1, !.rem = @ - v, !.total = @ + v, !.value = @ + f * v]
      \/ job' = [job EXCEPT !.at = @ + 1]
  BY DEF TakeLevel
<1>4. /\ job \in Job /\ o \in Orders /\ job.levels \in Seq(Level) /\ job.at \in Nat
      /\ job.rem \in Nat /\ job.total \in Nat /\ job.value \in Int
  BY <1>1, <1>2 DEF TypeOK, Job
<1>5. /\ Live(o) /\ ~Done(o) /\ o \notin todo /\ job.at >= 1
      /\ job.rem + job.total = active[o].left /\ WithinLimit(o, job.total, job.value)
  BY <1>1, <1>2 DEF JobInv
<1>6. sent[o] \in Input
  BY <1>4, <1>5, LiveIsPlaced
<1>7. l \in Level
  BY <1>2, <1>4, <1>5 DEF GoesOn
<1>8. v \in Nat /\ v <= job.rem
  BY <1>4, <1>7 DEF Smaller, Level
<1>9. f \in Nat
  BY <1>6, <1>7, SlippageTypes DEF Input, Level
<1>10. f * v \in Int
  BY <1>8, <1>9
<1>11. Usable(l) => CanExecute(o, f)
  BY <1>2 DEF GoesOn
<1> HIDE DEF f, v, l
<1>12. Usable(l) => WithinLimit(o, job.total + v, job.value + f * v)
  <2> SUFFICES ASSUME Usable(l), sent[o].type = "Limit"
               PROVE  IF sent[o].side = "Buy"
                      THEN job.value + f * v <= sent[o].limit * Scale * (job.total + v)
                      ELSE job.value + f * v >= sent[o].limit * Scale * (job.total + v)
    BY DEF WithinLimit
  <2>1. PICK b \in Int : b = sent[o].limit * Scale
    BY <1>6, MoneyIsWhole DEF Input
  <2>2. b * (job.total + v) = b * job.total + b * v /\ b * job.total \in Int /\ b * v \in Int
    <3>1. \A x, y \in Int : b * (x + y) = b * x + b * y /\ b * x \in Int /\ b * y \in Int
      BY <2>1
    <3>2. job.total \in Int /\ v \in Int
      BY <1>4, <1>8
    <3> QED
      BY <3>1, <3>2, Zenon
  <2>3. CASE sent[o].side = "Buy"
    <3>1. f <= b /\ job.value <= b * job.total
      BY <1>5, <1>11, <2>1, <2>3 DEF CanExecute, WithinLimit
    <3>2. f * v <= b * v
      BY <3>1, <1>8, <1>9, ProductGrows
    <3> QED
      BY <2>1, <2>2, <2>3, <3>1, <3>2, <1>4, <1>10
  <2>4. CASE sent[o].side # "Buy"
    <3>1. b <= f /\ job.value >= b * job.total
      BY <1>5, <1>11, <1>9, <2>1, <2>4 DEF CanExecute, WithinLimit
    <3>2. b * v <= f * v
      BY <3>1, <1>8, <1>9, ProductGrows
    <3> QED
      BY <2>1, <2>2, <2>4, <3>1, <3>2, <1>4, <1>10
  <2> QED
    BY <2>3, <2>4
<1>13. /\ job' \in Job /\ job'.order = o /\ job'.at >= 1
       /\ job'.rem + job'.total = active[o].left /\ WithinLimit(o, job'.total, job'.value)
  <2>1. CASE Usable(l) /\ job' = [job EXCEPT !.at = @ + 1, !.rem = @ - v, !.total = @ + v, !.value = @ + f * v]
    <3> DEFINE next  == job.at + 1
               left  == job.rem - v
               sum   == job.total + v
               money == job.value + f * v
    <3>1. f * v \in Int
      BY <1>10
    <3>2. next \in Nat /\ left \in Nat /\ sum \in Nat /\ money \in Int
      BY <3>1, <1>4, <1>8
    <3>3. job' = [job EXCEPT !.at = next, !.rem = left, !.total = sum, !.value = money]
      BY <2>1, <3>1
    <3> HIDE DEF next, left, sum, money
    <3>4. /\ job' \in Job /\ job'.order = o /\ job'.at = next /\ job'.rem = left
          /\ job'.total = sum /\ job'.value = money
      BY <3>2, <3>3, <1>4 DEF Job
    <3>5. /\ job' \in Job /\ job'.order = o /\ job'.at = job.at + 1 /\ job'.rem = job.rem - v
          /\ job'.total = job.total + v /\ job'.value = job.value + f * v
      BY <3>4 DEF next, left, sum, money
    <3> QED
      BY <2>1, <3>5, <1>4, <1>5, <1>8, <1>12
  <2>2. CASE job' = [job EXCEPT !.at = @ + 1]
    <3>1. /\ job' \in Job /\ job'.order = o /\ job'.at = job.at + 1 /\ job'.rem = job.rem
          /\ job'.total = job.total /\ job'.value = job.value
      BY <2>2, <1>4 DEF Job
    <3> QED
      BY <3>1, <1>4, <1>5
  <2> QED
    BY <1>3, <2>1, <2>2
<1>14. RoundInv'
  BY <1>1, <1>2 DEF RoundInv, GoesOn, Live, broker
<1>15. JobInv'
  BY <1>2, <1>5, <1>13 DEF JobInv, WithinLimit, Live, Done, broker, cp
<1> QED
  BY <1>1, <1>2, <1>13, <1>14, <1>15, QuietKeeps DEF TypeOK

\* The walk ends: a trade of what was taken, if anything was.
LEMMA FinishMatchKeeps ==
  ASSUME IInv, FinishMatch
  PROVE  IInv'
<1> DEFINE o == job.order
<1>1. TypeOK /\ RoundInv /\ JobInv
  BY DEF IInv
<1>2. /\ job # None /\ job' = None
      /\ UNCHANGED <<mode, running, inbox, board, lock, todo, cp>>
  BY DEF FinishMatch
<1>3. /\ job \in Job /\ o \in Orders /\ job.rem \in Nat /\ job.total \in Nat /\ job.value \in Int
  BY <1>1, <1>2 DEF TypeOK, Job
<1>4. /\ Live(o) /\ ~Done(o) /\ o \notin todo
      /\ job.rem + job.total = active[o].left /\ WithinLimit(o, job.total, job.value)
  BY <1>1, <1>2 DEF JobInv
<1>5. lock = "round"
  BY <1>1, <1>2 DEF RoundInv, TypeOK
<1>6. CASE job.total > 0 /\ Execute(o, job.total, job.value)
  <2>1. PICK p \in Orders, v \in Nat, value \in Int : p = o /\ v = job.total /\ value = job.value
    BY <1>3
  <2>2. Execute(p, v, value)
    BY <1>6, <2>1 DEF Execute, LeftAfter, AvailAfter
  <2>3. Live(p) /\ ~Done(p) /\ p \notin todo' /\ WithinLimit(p, v, value)
    BY <1>2, <1>4, <2>1
  <2>4. v > 0 /\ v <= active[p].left
    BY <1>3, <1>4, <1>6, <2>1
  <2> QED
    BY <1>2, <1>5, <2>2, <2>3, <2>4, ExecuteKeeps
<1>7. CASE UNCHANGED <<broker, resp>>
  <2>1. RoundInv' /\ JobInv'
    BY <1>1, <1>2, <1>5, <1>7 DEF RoundInv, JobInv, Live, broker
  <2> QED
    BY <1>1, <1>2, <1>7, <2>1, QuietKeeps DEF TypeOK
<1> QED
  BY <1>6, <1>7 DEF FinishMatch

\* The mutex is released; in backtest the signal goes back.
LEMMA EndRoundKeeps ==
  ASSUME IInv, EndRound
  PROVE  IInv'
<1> DEFINE r == [kind |-> "sync"]
<1>1. TypeOK /\ InboxInv /\ RoundInv /\ RespInv
  BY DEF IInv
<1>2. /\ lock = "round" /\ todo = {} /\ job = None /\ lock' = "free"
      /\ UNCHANGED <<mode, running, board, broker, todo, job, cp>>
  BY DEF EndRound
<1>3. RoundInv' /\ JobInv'
  BY <1>2 DEF RoundInv, JobInv
<1>4. CASE mode = "backtest"
  <2>1. inbox # <<>> /\ inbox' = Tail(inbox) /\ resp' = Append(resp, r)
    BY <1>1, <1>2, <1>4 DEF EndRound, RoundInv, Notify
  <2>2. r \in SyncResp /\ \A p : r # [kind |-> "cancel", order |-> p, answer |-> "ok"]
    BY DEF SyncResp
  <2> HIDE DEF r
  <2>3. inbox' \in Seq(Event) /\ InboxInv'
    BY <1>2, <2>1, InboxShrinks DEF broker, cp
  <2>4. \A p \in Orders : Cancelled(p) => Cancelled(p)'
    BY <1>2 DEF Cancelled, Live, broker
  <2>5. /\ resp' \in Seq(TradeResp \cup CancelResp \cup SyncResp)
        /\ RespInv' /\ \A p \in Orders : CancelInv(p)'
    BY <1>2, <2>1, <2>2, <2>4, AnswerKeeps DEF cp
  <2>6. TypeOK'
    BY <1>1, <1>2, <2>3, <2>5 DEF TypeOK, broker, cp
  <2>7. ASSUME NEW p \in Orders
        PROVE  OrderInv(p)'
    <3>1. OrderInv(p)
      BY DEF IInv
    <3> QED
      BY <3>1, <1>2 DEF OrderInv, Live, broker, cp
  <2> QED
    BY <1>3, <2>3, <2>5, <2>6, <2>7 DEF IInv
<1>5. CASE mode # "backtest"
  <2>1. UNCHANGED <<inbox, resp>>
    BY <1>5 DEF EndRound
  <2> QED
    BY <1>1, <1>2, <1>3, <2>1, QuietKeeps DEF TypeOK
<1> QED
  BY <1>4, <1>5

\* Any step at all.
LEMMA StepKeeps == IInv /\ [Next]_vars => IInv'
<1> SUFFICES ASSUME IInv, [Next]_vars PROVE IInv'
  OBVIOUS
<1>1. ASSUME NEW o \in Orders, AskCancel(o) PROVE IInv'
  <2> DEFINE m == [kind |-> "cancel", order |-> o]
  <2>1. m \in Event /\ m.kind = "cancel" /\ m.order = o
    BY DEF Event
  <2>2. cancels' \in Nat
    BY <1>1 DEF AskCancel, IInv, TypeOK
  <2>3. inbox' = Append(inbox, m) /\ sent[o] # None
    BY <1>1 DEF AskCancel, Send
  <2>4. UNCHANGED <<mode, running, board, broker, round, resp, sent, cash, heard>>
    BY <1>1 DEF AskCancel
  <2> HIDE DEF m
  <2> QED
    BY <2>1, <2>2, <2>3, <2>4, SendKeeps DEF IsInsert
<1>2. ASSUME SendSync PROVE IInv'
  <2> DEFINE m == [kind |-> "sync", order |-> None]
  <2>1. m \in Event /\ m.kind = "sync"
    BY DEF Event
  <2>2. cancels' \in Nat
    BY <1>2 DEF SendSync, IInv, TypeOK, cp
  <2>3. inbox' = Append(inbox, m)
    BY <1>2 DEF SendSync, Send
  <2>4. UNCHANGED <<mode, running, board, broker, round, resp, sent, cash, heard>>
    BY <1>2 DEF SendSync, cp
  <2> HIDE DEF m
  <2> QED
    BY <2>1, <2>2, <2>3, <2>4, SendKeeps DEF IsInsert
<1>3. ASSUME Round PROVE IInv'
  BY <1>3, OthersKeep, NoDepthKeeps, NoLevelKeeps, StartMatchKeeps, TakeLevelKeeps,
     FinishMatchKeeps, EndRoundKeeps DEF Round
<1>4. ASSUME Handle PROVE IInv'
  BY <1>4, IgnoreKeeps, InsertKeeps, CancelKeeps DEF Handle
<1>5. ASSUME UNCHANGED vars PROVE IInv'
  <2>1. TypeOK /\ RoundInv /\ JobInv
    BY DEF IInv
  <2>2. UNCHANGED <<mode, running, inbox, board, broker, round, resp, cp>>
    BY <1>5 DEF vars
  <2>3. RoundInv' /\ JobInv'
    BY <2>1, <2>2 DEF RoundInv, JobInv, WithinLimit, Live, Done, broker, round, cp
  <2> QED
    BY <2>1, <2>2, <2>3, QuietKeeps DEF TypeOK, round
<1> QED
  BY <1>1, <1>2, <1>3, <1>4, <1>5, PlaceKeeps, ReadKeeps, OthersKeep DEF Next

----------------------------------------------------------------------------
\* IInv holds in every state of every instance.
THEOREM Invariance == Spec => []IInv
<1> QED
  BY InitHolds, StepKeeps, PTL DEF Spec

\* The type invariant: whatever the interleaving, the variables keep their types.
THEOREM TypeCorrect == Spec => []TypeOK
<1>1. IInv => TypeOK
  BY DEF IInv
<1> QED
  BY <1>1, Invariance, PTL

\* If volumes are whole, what an order still has to trade and what it traded
\* make up its volume, and it leaves the broker only when all of it is traded.
THEOREM Conservation ==
  ASSUME Lot = 1
  PROVE  Spec => []Conserved
<1>1. IInv => Conserved
  BY DEF IInv, OrderInv, Conserved
<1> QED
  BY <1>1, Invariance, PTL

\* Every trade in the journal is within the limit of its order, slippage included.
THEOREM LimitsHold == Spec => []LimitRespected
<1>1. IInv => LimitRespected
  BY DEF IInv, RespInv, WithinLimit, LimitRespected
<1> QED
  BY <1>1, Invariance, PTL

\* Once the CP has read that an order is cancelled it reads no trade of it.
THEOREM CancelsAreFinal == Spec => CancelIsFinal
<1>1. ASSUME IInv, [Next]_vars
      PROVE  [\A o \in Orders : "ok" \in heard[o].answers => heard'[o].traded = heard[o].traded]_vars
  <2> SUFFICES ASSUME NEW o \in Orders, "ok" \in heard[o].answers
               PROVE  heard'[o].traded = heard[o].traded
    OBVIOUS
  <2>1. CASE Read
    <3>1. resp # <<>> /\ TypeOK /\ CancelInv(o)
      BY <1>1, <2>1 DEF Read, IInv
    <3>2. resp \in Seq(TradeResp \cup CancelResp \cup SyncResp)
      BY <3>1 DEF TypeOK
    <3>3. 1 \in 1 .. Len(resp) /\ Head(resp) = resp[1]
      BY <3>1, <3>2, Tailed
    <3>4. ~TradeOf(resp[1], o)
      BY <3>1, <3>3 DEF CancelInv
    <3>5. heard \in [Orders -> [traded : Nat, answers : SUBSET Answers]]
      BY <3>1 DEF TypeOK
    <3>6. CASE ReadTrade(resp[1]) /\ resp[1].kind = "trade"
      BY <3>4, <3>5, <3>6 DEF ReadTrade, TradeOf
    <3>7. CASE ReadAnswer(resp[1])
      BY <3>5, <3>7 DEF ReadAnswer
    <3>8. CASE UNCHANGED <<cash, heard>>
      BY <3>8
    <3> QED
      BY <2>1, <3>3, <3>6, <3>7, <3>8 DEF Read
  <2>2. CASE ~Read
    <3>1. UNCHANGED heard
      BY <1>1, <2>2 DEF Next, Place, AskCancel, SendSync, SetDepth, TradingStart, Handle, Ignore, Insert,
         Cancel, BeginRound, Round, Skip, NoDepth, NoLevel, StartMatch, TakeLevel, FinishMatch,
         EndRound, cp, vars
    <3> QED
      BY <3>1
  <2> QED
    BY <2>1, <2>2
<1> QED
  BY <1>1, Invariance, PTL DEF Spec, CancelIsFinal

----------------------------------------------------------------------------
(* The two ledgers.                                                         *)

\* One more step at the end of a ledger.
LEMMA LeadsOn ==
  ASSUME NEW n \in Nat, NEW a, NEW b \in Int, NEW d, NEW e, NEW f,
         Leads(f, n, d, a, b), \A i \in 1 .. n : e[i] = d[i], e[n + 1] \in Int
  PROVE  \E g : /\ Leads(g, n + 1, e, a, b + e[n + 1])
                /\ g[n + 1] = b + e[n + 1] /\ \A i \in 0 .. n : g[i] = f[i]
<1> DEFINE x == b + e[n + 1]
           g == [i \in 0 .. n + 1 |-> IF i <= n THEN f[i] ELSE x]
<1>1. /\ f \in [0 .. n -> Int] /\ f[0] = a /\ f[n] = b
      /\ \A i \in 1 .. n : f[i] = f[i - 1] + d[i]
  BY DEF Leads
<1>2. x \in Int
  OBVIOUS
<1>3. /\ g[n + 1] = x /\ \A i \in 0 .. n : g[i] = f[i]
  OBVIOUS
<1>4. g \in [0 .. n + 1 -> Int]
  BY <1>1, <1>2
<1>5. 0 \in 0 .. n /\ n \in 0 .. n
  OBVIOUS
<1>6. ASSUME NEW i \in 1 .. n + 1 PROVE g[i] = g[i - 1] + e[i]
  <2>1. CASE i \in 1 .. n
    <3>1. i - 1 \in 0 .. n /\ i \in 0 .. n
      BY <2>1
    <3> HIDE DEF g
    <3> QED BY <1>1, <1>3, <2>1, <3>1
  <2>2. CASE i = n + 1
    <3>1. i - 1 = n
      BY <2>2
    <3> HIDE DEF g
    <3> QED BY <1>1, <1>3, <1>5, <2>2, <3>1
  <2> QED BY <2>1, <2>2
<1> HIDE DEF g
<1>7. Leads(g, n + 1, e, a, x)
  BY <1>1, <1>3, <1>4, <1>5, <1>6 DEF Leads
<1> QED BY <1>3, <1>7

\* The first step of a ledger is taken.
LEMMA LeadsOff ==
  ASSUME NEW n \in Nat \ {0}, NEW a, NEW b, NEW d, NEW e, NEW f, NEW g,
         Leads(f, n, d, a, b), \A i \in 1 .. n - 1 : e[i] = d[i + 1],
         g = [i \in 0 .. n - 1 |-> f[i + 1]]
  PROVE  Leads(g, n - 1, e, f[1], b)
<1>1. /\ f \in [0 .. n -> Int] /\ f[0] = a /\ f[n] = b
      /\ \A i \in 1 .. n : f[i] = f[i - 1] + d[i]
  BY DEF Leads
<1>2. \A i \in 0 .. n - 1 : i + 1 \in 0 .. n /\ i + 1 \in 1 .. n /\ g[i] = f[i + 1]
  OBVIOUS
<1>3. g \in [0 .. n - 1 -> Int]
  BY <1>1, <1>2
<1>4. g[0] = f[1]
  <2>1. 0 \in 0 .. n - 1 /\ 1 \in 1 .. n
    OBVIOUS
  <2> QED BY <1>1, <1>2, <2>1
<1>5. g[n - 1] = b
  <2>1. n - 1 \in 0 .. n - 1 /\ (n - 1) + 1 = n
    OBVIOUS
  <2> QED BY <1>1, <1>2, <2>1
<1>6. ASSUME NEW i \in 1 .. n - 1 PROVE g[i] = g[i - 1] + e[i]
  <2>1. /\ i \in 0 .. n - 1 /\ i - 1 \in 0 .. n - 1 /\ i + 1 \in 1 .. n
        /\ (i - 1) + 1 = i /\ (i + 1) - 1 = i
    OBVIOUS
  <2>2. g[i] = f[i + 1] /\ g[i - 1] = f[i]
    BY <1>2, <2>1
  <2>3. f[i + 1] = f[i] + d[i + 1]
    BY <1>1, <2>1
  <2> QED BY <2>2, <2>3
<1>7. Leads(g, n - 1, e, f[1], b)
  BY <1>3, <1>4, <1>5, <1>6 DEF Leads
<1> QED BY <1>7

\* A response is journalled whose money and volume the broker has booked.
LEMMA LedgersGrow ==
  ASSUME TypeOK, LedgerInv, NEW r \in TradeResp \cup CancelResp \cup SyncResp,
         resp' = Append(resp, r), UNCHANGED <<sent, cash, heard>>,
         MoneyOf(r) \in Int, avail' = avail + MoneyOf(r),
         \A o \in Orders : /\ VolumeOf(r, o) \in Nat
                           /\ traded'[o] = traded[o] + VolumeOf(r, o)
  PROVE  LedgerInv'
<1> DEFINE n == Len(resp)
<1>1. /\ n \in Nat /\ Len(resp') = n + 1 /\ resp'[n + 1] = r
      /\ \A i \in 1 .. n : resp'[i] = resp[i]
  BY Appended DEF TypeOK
<1>2. avail \in Int /\ traded \in [Orders -> Nat]
  BY DEF TypeOK
<1>3. MoneyLedger'
  <2>1. PICK f : Leads(f, n, Monies, Cash + cash, avail)
    BY DEF LedgerInv, MoneyLedger
  <2>2. \A i \in 1 .. n + 1 : Monies'[i] = MoneyOf(resp'[i])
    BY <1>1 DEF Monies, MoneyOf
  <2>3. \A i \in 1 .. n : Monies'[i] = Monies[i]
    BY <1>1, <2>2 DEF Monies
  <2>4. Monies'[n + 1] = MoneyOf(r)
    BY <1>1, <2>2
  <2> SUFFICES ASSUME NEW d, NEW e, d = Monies, e = Monies' PROVE MoneyLedger'
    OBVIOUS
  <2>5. \E g : Leads(g, n + 1, e, Cash + cash, avail + e[n + 1])
    BY <1>1, <1>2, <2>1, <2>3, <2>4, LeadsOn
  <2> QED BY <1>1, <2>4, <2>5 DEF MoneyLedger
<1>4. ASSUME NEW o \in Orders PROVE VolumeLedger(o)'
  <2>1. PICK f : /\ Leads(f, n, Volumes(o), heard[o].traded, traded[o])
                 /\ \A i \in 0 .. n : f[i] <= traded[o]
    BY DEF LedgerInv, VolumeLedger
  <2>2. \A i \in 1 .. n + 1 : Volumes(o)'[i] = VolumeOf(resp'[i], o)
    BY <1>1 DEF Volumes, VolumeOf, TradeOf
  <2>3. \A i \in 1 .. n : Volumes(o)'[i] = Volumes(o)[i]
    BY <1>1, <2>2 DEF Volumes
  <2>4. Volumes(o)'[n + 1] = VolumeOf(r, o)
    BY <1>1, <2>2
  <2> SUFFICES ASSUME NEW d, NEW e, d = Volumes(o), e = Volumes(o)' PROVE VolumeLedger(o)'
    OBVIOUS
  <2>5. /\ traded[o] \in Int /\ traded'[o] = traded[o] + e[n + 1]
        /\ e[n + 1] \in Nat /\ traded[o] <= traded'[o] /\ traded'[o] \in Int
    BY <1>2, <2>4
  <2>6. PICK g : /\ Leads(g, n + 1, e, heard[o].traded, traded[o] + e[n + 1])
                 /\ g[n + 1] = traded[o] + e[n + 1] /\ \A i \in 0 .. n : g[i] = f[i]
    <3>1. Leads(f, n, d, heard[o].traded, traded[o]) /\ \A i \in 1 .. n : e[i] = d[i]
      BY <2>1, <2>3
    <3>2. n \in Nat /\ traded[o] \in Int /\ e[n + 1] \in Int
      BY <1>1, <2>5
    <3> HIDE DEF n
    <3> QED BY <3>1, <3>2, LeadsOn
  <2>7. \A i \in 0 .. n + 1 : g[i] <= traded'[o]
    <3>1. SUFFICES ASSUME NEW i \in 0 .. n + 1 PROVE g[i] <= traded'[o]
      OBVIOUS
    <3>2. CASE i = n + 1
      BY <3>2, <2>5, <2>6
    <3>3. CASE i \in 0 .. n
      <4>1. g[i] = f[i] /\ f[i] <= traded[o] /\ f[i] \in Int
        BY <3>3, <2>1, <2>6 DEF Leads
      <4> QED BY <4>1, <2>5
    <3> QED BY <3>2, <3>3, <1>1
  <2> QED BY <1>1, <2>5, <2>6, <2>7 DEF VolumeLedger
<1> QED BY <1>3, <1>4 DEF LedgerInv

\* The CP reads the first response.
LEMMA LedgersShrink ==
  ASSUME TypeOK, LedgerInv, resp # <<>>, resp' = Tail(resp), UNCHANGED <<sent, avail, traded>>,
         cash' = cash + MoneyOf(Head(resp)), MoneyOf(Head(resp)) \in Int,
         \A o \in Orders : heard'[o].traded = heard[o].traded + VolumeOf(Head(resp), o)
  PROVE  LedgerInv'
<1> DEFINE n == Len(resp)
<1>1. /\ n \in Nat \ {0} /\ Len(resp') = n - 1 /\ Head(resp) = resp[1] /\ 1 \in 1 .. n
      /\ \A i \in 1 .. n - 1 : i + 1 \in 1 .. n /\ resp'[i] = resp[i + 1]
  BY Tailed DEF TypeOK
<1>2. cash \in Int /\ Cash \in Int
  BY MoneyIsWhole DEF TypeOK
<1>3. MoneyLedger'
  <2>1. PICK f : Leads(f, n, Monies, Cash + cash, avail)
    BY DEF LedgerInv, MoneyLedger
  <2>2. \A i \in 1 .. n : Monies[i] = MoneyOf(resp[i])
    BY DEF Monies
  <2>3. \A i \in 1 .. n - 1 : Monies'[i] = Monies[i + 1]
    <3>1. \A i \in 1 .. n - 1 : Monies'[i] = MoneyOf(resp'[i])
      BY <1>1 DEF Monies, MoneyOf
    <3> QED BY <3>1, <2>2, <1>1
  <2> SUFFICES ASSUME NEW d, NEW e, d = Monies, e = Monies' PROVE MoneyLedger'
    OBVIOUS
  <2>4. ASSUME NEW g, g = [i \in 0 .. n - 1 |-> f[i + 1]]
        PROVE  Leads(g, n - 1, e, f[1], avail)
    BY <1>1, <2>1, <2>3, <2>4, LeadsOff
  <2>5. f[1] = (Cash + cash) + d[1]
    BY <1>1, <2>1 DEF Leads
  <2>6. d[1] = MoneyOf(Head(resp)) /\ (Cash + cash) + d[1] = Cash + cash'
    BY <1>1, <1>2, <2>2
  <2> QED BY <1>1, <2>4, <2>5, <2>6 DEF MoneyLedger
<1>4. ASSUME NEW o \in Orders PROVE VolumeLedger(o)'
  <2>1. PICK f : /\ Leads(f, n, Volumes(o), heard[o].traded, traded[o])
                 /\ \A i \in 0 .. n : f[i] <= traded[o]
    BY DEF LedgerInv, VolumeLedger
  <2>2. \A i \in 1 .. n : Volumes(o)[i] = VolumeOf(resp[i], o)
    BY DEF Volumes
  <2>3. \A i \in 1 .. n - 1 : Volumes(o)'[i] = Volumes(o)[i + 1]
    <3>1. \A i \in 1 .. n - 1 : Volumes(o)'[i] = VolumeOf(resp'[i], o)
      BY <1>1 DEF Volumes, VolumeOf, TradeOf
    <3> QED BY <3>1, <2>2, <1>1
  <2> SUFFICES ASSUME NEW d, NEW e, d = Volumes(o), e = Volumes(o)' PROVE VolumeLedger(o)'
    OBVIOUS
  <2>4. PICK g : g = [i \in 0 .. n - 1 |-> f[i + 1]]
    OBVIOUS
  <2>5. Leads(f, n, d, heard[o].traded, traded[o]) /\ \A i \in 1 .. n - 1 : e[i] = d[i + 1]
    BY <2>1, <2>3
  <2>6. Leads(g, n - 1, e, f[1], traded[o])
    <3>1. SUFFICES ASSUME NEW k, k = traded[o], NEW l, l = heard[o].traded, NEW m \in Nat \ {0}, m = n
          PROVE  Leads(g, m - 1, e, f[1], k)
      BY <1>1
    <3>2. Leads(f, m, d, l, k) /\ (\A i \in 1 .. m - 1 : e[i] = d[i + 1]) /\ g = [i \in 0 .. m - 1 |-> f[i + 1]]
      BY <2>5, <2>4, <3>1
    <3> QED BY ONLY m \in Nat \ {0}, <3>2, LeadsOff
  <2>7. \A i \in 0 .. n - 1 : i + 1 \in 0 .. n /\ g[i] = f[i + 1]
    BY <1>1, <2>4
  <2>8. f[1] = heard[o].traded + d[1]
    BY <1>1, <2>1 DEF Leads
  <2>9. heard[o].traded + d[1] = heard'[o].traded
    BY <1>1, <2>2
  <2> QED BY <1>1, <2>1, <2>6, <2>7, <2>8, <2>9 DEF VolumeLedger
<1> QED BY <1>3, <1>4 DEF LedgerInv

\* Neither a response nor a booking.
LEMMA LedgersStay ==
  ASSUME LedgerInv, UNCHANGED <<resp, cash, heard, avail, traded>>,
         \A i \in 1 .. Len(resp) : resp[i].kind = "trade" => sent'[resp[i].order] = sent[resp[i].order]
  PROVE  LedgerInv'
<1>1. Monies' = Monies
  BY DEF Monies, MoneyOf
<1>2. \A o \in Orders : Volumes(o)' = Volumes(o)
  BY DEF Volumes, VolumeOf, TradeOf
<1> QED BY <1>1, <1>2 DEF LedgerInv, MoneyLedger, VolumeLedger

\* The trade a round makes goes into both books and into the journal.
LEMMA ExecuteLedgers ==
  ASSUME IInv, LedgerInv, NEW o \in Orders, NEW v \in Nat, NEW value \in Int,
         Live(o), Execute(o, v, value), UNCHANGED cp
  PROVE  LedgerInv'
<1> DEFINE r == [kind |-> "trade", order |-> o, volume |-> v, value |-> value, fee |-> Fee(value)]
<1>1. sent[o] \in Input /\ TypeOK
  BY LiveIsPlaced DEF IInv
<1>2. Cost(value) \in Int /\ Fee(value) \in Int
  BY MoneyIsWhole DEF Cost, Fee
<1>3. r \in TradeResp
  BY <1>2 DEF TradeResp
<1>4. /\ resp' = Append(resp, r) /\ UNCHANGED <<sent, cash, heard>>
      /\ avail' = AvailAfter(o, value) /\ traded' = [traded EXCEPT ![o] = @ + v]
  BY DEF Execute, Notify, cp
<1>5. MoneyOf(r) = (IF sent[o].side = "Buy" THEN - Cost(value) ELSE Cost(value)) - Fee(value)
  BY DEF MoneyOf
<1>6. MoneyOf(r) \in Int /\ avail' = avail + MoneyOf(r)
  <2>1. avail \in Int
    BY <1>1 DEF TypeOK
  <2> QED BY <1>2, <1>4, <1>5, <2>1 DEF AvailAfter
<1>7. \A p \in Orders : VolumeOf(r, p) = IF p = o THEN v ELSE 0
  BY DEF VolumeOf, TradeOf
<1>8. \A p \in Orders : VolumeOf(r, p) \in Nat /\ traded'[p] = traded[p] + VolumeOf(r, p)
  <2>1. traded \in [Orders -> Nat]
    BY <1>1 DEF TypeOK
  <2> QED BY <1>4, <1>7, <2>1
<1> HIDE DEF r
<1> QED BY <1>1, <1>3, <1>4, <1>6, <1>8, LedgersGrow

\* An answer, or the sync signal, moves neither money nor volume.
LEMMA WordLedgers ==
  ASSUME IInv, LedgerInv, NEW r \in CancelResp \cup SyncResp, resp' = Append(resp, r),
         UNCHANGED <<avail, traded, cp>>
  PROVE  LedgerInv'
<1>1. r.kind # "trade"
  BY DEF CancelResp, SyncResp
<1>2. MoneyOf(r) = 0 /\ \A o \in Orders : VolumeOf(r, o) = 0
  BY <1>1 DEF MoneyOf, VolumeOf, TradeOf
<1>3. TypeOK /\ avail \in Int /\ traded \in [Orders -> Nat]
  BY DEF IInv, TypeOK
<1>4. MoneyOf(r) \in Int /\ avail' = avail + MoneyOf(r)
  BY <1>2, <1>3
<1>5. \A o \in Orders : VolumeOf(r, o) \in Nat /\ traded'[o] = traded[o] + VolumeOf(r, o)
  BY <1>2, <1>3
<1> QED BY <1>3, <1>4, <1>5, LedgersGrow DEF cp

\* The CP reads a response: a trade is booked as the broker booked it.
LEMMA ReadLedgers ==
  ASSUME IInv, LedgerInv, Read
  PROVE  LedgerInv'
<1> DEFINE r == Head(resp)
<1>1. /\ TypeOK /\ resp # <<>> /\ resp' = Tail(resp) /\ UNCHANGED <<sent, avail, traded>>
  BY DEF IInv, Read, broker
<1>2. r \in TradeResp \cup CancelResp \cup SyncResp
  BY <1>1, Tailed DEF TypeOK
<1>3. cash \in Int /\ heard \in [Orders -> [traded : Nat, answers : SUBSET Answers]]
  BY <1>1 DEF TypeOK
<1>4. CASE r.kind = "trade" /\ ReadTrade(r)
  <2>1. r \in TradeResp
    BY <1>2, <1>4 DEF CancelResp, SyncResp
  <2>2. /\ r.order \in Orders /\ r.volume \in Nat /\ Cost(r.value) \in Int /\ r.fee \in Int
    BY <2>1, MoneyIsWhole DEF TradeResp, Cost
  <2>3. MoneyOf(r) = (IF sent[r.order].side = "Buy" THEN - Cost(r.value) ELSE Cost(r.value)) - r.fee
    BY <1>4 DEF MoneyOf
  <2>4. MoneyOf(r) \in Int /\ cash' = cash + MoneyOf(r)
    BY <1>3, <1>4, <2>2, <2>3 DEF ReadTrade, CashAfter
  <2>5. \A o \in Orders : VolumeOf(r, o) = IF r.order = o THEN r.volume ELSE 0
    BY <1>4 DEF VolumeOf, TradeOf
  <2>6. ASSUME NEW o \in Orders PROVE heard'[o].traded = heard[o].traded + VolumeOf(r, o)
    <3>1. heard' = [heard EXCEPT ![r.order].traded = @ + r.volume]
      BY <1>4 DEF ReadTrade
    <3>2. CASE r.order = o
      <4>1. heard'[o] = [heard[o] EXCEPT !.traded = @ + r.volume]
        BY <1>3, <3>1, <3>2
      <4>2. heard[o] \in [traded : Nat, answers : SUBSET Answers]
        BY <1>3
      <4> QED BY <2>5, <3>2, <4>1, <4>2
    <3>3. CASE r.order # o
      <4>1. heard'[o] = heard[o] /\ heard[o].traded \in Nat
        BY <1>3, <3>1, <3>3
      <4> QED BY <2>5, <3>3, <4>1
    <3> QED BY <3>2, <3>3
  <2> QED BY <1>1, <2>4, <2>6, LedgersShrink
<1>5. CASE r.kind # "trade" /\ ((ReadAnswer(r) /\ r.kind = "cancel") \/ UNCHANGED <<cash, heard>>)
  <2>1. MoneyOf(r) = 0 /\ \A o \in Orders : VolumeOf(r, o) = 0
    BY <1>5 DEF MoneyOf, VolumeOf, TradeOf
  <2>2. cash' = cash /\ \A o \in Orders : heard'[o].traded = heard[o].traded
    <3>1. CASE UNCHANGED <<cash, heard>>
      BY <3>1
    <3>2. CASE ReadAnswer(r) /\ r.kind = "cancel"
      <4>1. r.order \in Orders
        BY <1>2, <3>2 DEF TradeResp, CancelResp, SyncResp
      <4>2. /\ cash' = cash
            /\ heard' = [heard EXCEPT ![r.order].answers = @ \cup {r.answer}]
        BY <3>2 DEF ReadAnswer
      <4> QED BY <1>3, <4>1, <4>2
    <3> QED BY <1>5, <3>1, <3>2
  <2>3. \A o \in Orders : heard[o].traded \in Nat
    BY <1>3
  <2>4. MoneyOf(r) \in Int /\ cash' = cash + MoneyOf(r)
    BY <1>3, <2>1, <2>2
  <2>5. \A o \in Orders : heard'[o].traded = heard[o].traded + VolumeOf(r, o)
    BY <2>1, <2>2, <2>3
  <2> QED BY <1>1, <2>4, <2>5, LedgersShrink
<1> QED BY <1>4, <1>5 DEF Read

\* Every step keeps both ledgers.
LEMMA LedgerStep ==
  ASSUME IInv, LedgerInv, [Next]_vars
  PROVE  LedgerInv'
<1>1. ASSUME UNCHANGED <<resp, cash, heard, avail, traded, sent>> PROVE LedgerInv'
  BY <1>1, LedgersStay
<1>2. ASSUME NEW o \in Orders, Place(o) PROVE LedgerInv'
  <2>1. /\ sent[o] = None /\ \A p \in Orders \ {o} : sent'[p] = sent[p]
        /\ UNCHANGED <<resp, cash, heard, avail, traded>>
    BY <1>2 DEF Place, broker, IInv, TypeOK
  <2>2. ASSUME NEW i \in 1 .. Len(resp), resp[i].kind = "trade"
        PROVE  sent'[resp[i].order] = sent[resp[i].order]
    <3>1. sent[resp[i].order] # None
      BY <2>2 DEF IInv, RespInv
    <3>2. resp[i] \in TradeResp \cup CancelResp \cup SyncResp
      BY DEF IInv, TypeOK
    <3>3. resp[i].order \in Orders
      BY <2>2, <3>2 DEF TradeResp, CancelResp, SyncResp
    <3> QED BY <2>1, <3>1, <3>3
  <2> QED BY <2>1, <2>2, LedgersStay
<1>3. ASSUME NEW o \in Orders, AskCancel(o) PROVE LedgerInv'
  BY <1>1, <1>3 DEF AskCancel, broker
<1>4. CASE SendSync \/ SetDepth \/ TradingStart \/ BeginRound \/ UNCHANGED vars
  BY <1>1, <1>4 DEF SendSync, SetDepth, TradingStart, BeginRound, vars, broker, cp
<1>5. CASE Read
  BY <1>5, ReadLedgers
<1>6. ASSUME NEW o \in Orders, Ignore(o) \/ Insert(o) PROVE LedgerInv'
  BY <1>1, <1>6 DEF Ignore, Insert, broker, cp
<1>7. ASSUME NEW o \in Orders, Cancel(o) PROVE LedgerInv'
  <2>1. [kind |-> "cancel", order |-> o, answer |-> CancelAnswer(o)] \in CancelResp
    BY DEF CancelResp, Answers, CancelAnswer
  <2>2. /\ resp' = Append(resp, [kind |-> "cancel", order |-> o, answer |-> CancelAnswer(o)])
        /\ UNCHANGED <<avail, traded, cp>>
    BY <1>7 DEF Cancel, Notify
  <2> QED BY <2>1, <2>2, WordLedgers
<1>8. ASSUME NEW o \in Orders, Skip(o) \/ NoLevel(o) \/ StartMatch(o) PROVE LedgerInv'
  BY <1>1, <1>8 DEF Skip, NoLevel, StartMatch, broker, cp
<1>9. ASSUME NEW o \in Orders, NoDepth(o) PROVE LedgerInv'
  <2>1. Live(o) /\ UNCHANGED cp
    BY <1>9 DEF NoDepth, Visits, IInv, RoundInv
  <2>2. PICK p \in SimulatedPrices(o) :
          \/ Execute(o, active[o].left, p * active[o].left)
          \/ UNCHANGED <<avail, traded, resp>>
    BY <1>9 DEF NoDepth
  <2>3. CASE UNCHANGED <<avail, traded, resp>>
    BY <1>1, <2>1, <2>3 DEF cp
  <2>4. CASE Execute(o, active[o].left, p * active[o].left)
    <3>1. sent[o] \in Input
      BY <2>1, LiveIsPlaced
    <3>2. PICK w \in Nat : w = active[o].left
      BY <2>1, LiveIsPlaced
    <3>3. p \in Int
      BY <3>1, SimulatedPriceIs
    <3>4. PICK value \in Int : value = p * w
      BY <3>2, <3>3
    <3>5. Execute(o, w, value)
      BY <2>4, <3>2, <3>4 DEF Execute, LeftAfter, AvailAfter
    <3> QED BY <2>1, <3>5, ExecuteLedgers
  <2> QED BY <2>2, <2>3, <2>4
<1>10. CASE TakeLevel
  BY <1>1, <1>10 DEF TakeLevel, broker, cp
<1>11. CASE FinishMatch
  <2>1. job # None /\ UNCHANGED cp
    BY <1>11 DEF FinishMatch
  <2>2. job \in Job /\ Live(job.order)
    BY <2>1 DEF IInv, TypeOK, JobInv
  <2>3. CASE Execute(job.order, job.total, job.value)
    <3>1. PICK o \in Orders, v \in Nat, value \in Int :
            o = job.order /\ v = job.total /\ value = job.value
      BY <2>2 DEF Job
    <3>2. Execute(o, v, value) /\ Live(o)
      BY <2>2, <2>3, <3>1 DEF Execute, LeftAfter, AvailAfter
    <3> QED BY <2>1, <3>2, ExecuteLedgers
  <2>4. CASE UNCHANGED <<broker, resp>>
    BY <1>1, <2>1, <2>4 DEF broker, cp
  <2> QED BY <1>11, <2>3, <2>4 DEF FinishMatch
<1>12. CASE EndRound
  <2>1. UNCHANGED <<avail, traded, cp>>
    BY <1>12 DEF EndRound, broker
  <2>2. CASE resp' = resp
    BY <1>1, <2>1, <2>2 DEF cp
  <2>3. CASE resp' = Append(resp, [kind |-> "sync"])
    <3>1. [kind |-> "sync"] \in SyncResp
      BY DEF SyncResp
    <3> QED BY <2>1, <2>3, <3>1, WordLedgers
  <2> QED BY <1>12, <2>2, <2>3 DEF EndRound, Notify
<1> QED BY <1>2, <1>3, <1>4, <1>5, <1>6, <1>7, <1>8, <1>9, <1>10, <1>11, <1>12
        DEF Next, Handle, Round

\* Nothing is booked at the start.
LEMMA LedgerInit == Init => LedgerInv
<1> SUFFICES ASSUME Init PROVE LedgerInv
  OBVIOUS
<1>1. Len(resp) = 0 /\ avail = Cash /\ cash = 0 /\ Cash \in Nat
  BY MoneyIsWhole DEF Init
<1>2. \A o \in Orders : heard[o].traded = 0 /\ traded[o] = 0
  BY DEF Init
<1>3. ASSUME NEW x \in Int, NEW d PROVE Leads([i \in 0 .. 0 |-> x], 0, d, x, x)
  <2>1. 0 \in 0 .. 0
    OBVIOUS
  <2> QED BY <2>1 DEF Leads
<1>4. MoneyLedger
  BY <1>1, <1>3 DEF MoneyLedger
<1>5. ASSUME NEW o \in Orders PROVE VolumeLedger(o)
  <2>1. Leads([i \in 0 .. 0 |-> 0], 0, Volumes(o), 0, 0)
    BY <1>3
  <2>2. \A i \in 0 .. 0 : [j \in 0 .. 0 |-> 0][i] <= 0
    OBVIOUS
  <2> QED BY <1>1, <1>2, <2>1, <2>2 DEF VolumeLedger
<1> QED BY <1>4, <1>5 DEF LedgerInv

LEMMA Ledgers == Spec => []LedgerInv
<1> QED BY LedgerInit, LedgerStep, Invariance, PTL DEF Spec

\* The money of the CP and that of the broker differ by the trades the CP has
\* not read, and by nothing else: fractions of a lot, cancelled orders, errors
\* and partial fills included.
THEOREM MoneyAgrees == Spec => []BooksAgree
<1>1. IInv /\ LedgerInv => BooksAgree
  <2>1. SUFFICES ASSUME IInv, LedgerInv, resp = <<>> PROVE Cash + cash = avail
    BY DEF BooksAgree
  <2>2. Len(resp) = 0
    BY <2>1
  <2>3. PICK f : Leads(f, 0, Monies, Cash + cash, avail)
    BY <2>1, <2>2 DEF LedgerInv, MoneyLedger
  <2> QED BY <2>3 DEF Leads
<1> QED BY <1>1, Invariance, Ledgers, PTL

\* With whole volumes the CP is never told of more than was ordered; with
\* fractions it is (static_cast<int64_t> in execute_summary_trade).
THEOREM FillsWithinVolume ==
  ASSUME Lot = 1
  PROVE  Spec => []FillsAtMostVolume
<1>1. IInv /\ LedgerInv => FillsAtMostVolume
  <2>1. SUFFICES ASSUME IInv, LedgerInv, NEW o \in Orders, sent[o] # None
                 PROVE  heard[o].traded <= sent[o].volume
    BY DEF FillsAtMostVolume
  <2>2. /\ Len(resp) \in Nat /\ heard[o].traded \in Nat /\ traded[o] \in Nat
        /\ sent[o].volume \in Nat \ {0} /\ active[o] \in Order \cup {None}
    BY <2>1, InputsAreOrders DEF IInv, TypeOK, Input
  <2>3. PICK f : f[0] = heard[o].traded /\ \A i \in 0 .. Len(resp) : f[i] <= traded[o]
    BY <2>1 DEF LedgerInv, VolumeLedger, Leads
  <2>4. heard[o].traded <= traded[o]
    BY <2>2, <2>3
  <2>5. traded[o] <= sent[o].volume
    <3>1. OrderInv(o)
      BY <2>1 DEF IInv
    <3>2. CASE o \notin accepted
      BY <2>2, <3>1, <3>2 DEF OrderInv
    <3>3. CASE o \in accepted /\ ~ Live(o)
      BY <2>2, <3>1, <3>3 DEF OrderInv
    <3>4. CASE o \in accepted /\ Live(o)
      BY <2>2, <3>1, <3>4 DEF OrderInv, Live, Order
    <3> QED BY <3>2, <3>3, <3>4
  <2> QED BY <2>2, <2>4, <2>5
<1> QED BY <1>1, Invariance, Ledgers, PTL
=============================================================================
