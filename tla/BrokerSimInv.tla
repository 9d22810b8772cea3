---------------------------- MODULE BrokerSimInv ----------------------------
(***************************************************************************)
(* The inductive invariant of BrokerSim: what holds while a round walks the *)
(* orders and the levels, messages wait and responses are unread.           *)
(***************************************************************************)
EXTENDS BrokerSim

\* Messages are about orders that were placed; an order is offered once.
IsInsert(m) == m.kind = "insert"
InboxInv ==
  /\ \A i \in 1 .. Len(inbox) :
       inbox[i].kind # "sync" => inbox[i].order \in Orders /\ sent[inbox[i].order] # None
  /\ \A i \in 1 .. Len(inbox) : IsInsert(inbox[i]) => inbox[i].order \notin accepted
  /\ \A i, j \in 1 .. Len(inbox) :
       IsInsert(inbox[i]) /\ IsInsert(inbox[j]) /\ i # j => inbox[i].order # inbox[j].order

\* What is left of an order, and what it traded.
OrderInv(o) ==
  /\ o \in accepted => sent[o] # None
  /\ o \notin accepted => traded[o] = 0 /\ ~Live(o)
  /\ Live(o) => active[o].left > 0
  /\ Lot = 1 /\ Live(o) => traded[o] + active[o].left = sent[o].volume
  /\ Lot = 1 /\ o \in accepted /\ ~Live(o) => traded[o] = sent[o].volume

\* A round visits orders that are there; the sync signal waits for its end.
RoundInv ==
  /\ lock = "free" => todo = {} /\ job = None
  /\ lock = "round" /\ mode = "backtest" => inbox # <<>>
  /\ \A o \in todo : Live(o)

\* The money of volume v of order o at price value/v is within the limit of o.
WithinLimit(o, v, value) ==
  sent[o].type = "Limit" =>
    IF sent[o].side = "Buy" THEN value <= sent[o].limit * Scale * v
                            ELSE value >= sent[o].limit * Scale * v

\* What the walk took and what it still wants make up what is left.
JobInv ==
  job # None =>
    /\ Live(job.order) /\ ~Done(job.order) /\ job.order \notin todo
    /\ job.at >= 1 /\ job.rem + job.total = active[job.order].left
    /\ WithinLimit(job.order, job.total, job.value)

TradeOf(r, o) == r.kind = "trade" /\ r.order = o
Cancelled(o) == Live(o) /\ active[o].status = "Cancelled"

\* Trades in the journal are of orders that were placed, and within the limit.
RespInv ==
  \A i \in 1 .. Len(resp) : resp[i].kind = "trade" =>
    sent[resp[i].order] # None /\ WithinLimit(resp[i].order, resp[i].volume, resp[i].value)

\* After the word that an order is cancelled nothing trades it any more.
CancelInv(o) ==
  /\ "ok" \in heard[o].answers =>
       Cancelled(o) /\ \A i \in 1 .. Len(resp) : ~TradeOf(resp[i], o)
  /\ \A i \in 1 .. Len(resp) :
       resp[i] = [kind |-> "cancel", order |-> o, answer |-> "ok"] =>
         Cancelled(o) /\ \A j \in 1 .. Len(resp) : i < j => ~TradeOf(resp[j], o)

IInv ==
  /\ TypeOK /\ InboxInv /\ RoundInv /\ JobInv /\ RespInv
  /\ \A o \in Orders : OrderInv(o) /\ CancelInv(o)

----------------------------------------------------------------------------
(* Two ledgers on top of IInv: the responses the CP has not read lead, one  *)
(* after the other, from what it knows to what the broker knows.            *)

\* What response r does to the money, and to the volume heard of order o.
MoneyOf(r) ==
  IF r.kind = "trade"
  THEN (IF sent[r.order].side = "Buy" THEN - Cost(r.value) ELSE Cost(r.value)) - r.fee
  ELSE 0
VolumeOf(r, o) == IF TradeOf(r, o) THEN r.volume ELSE 0

\* f leads from a to b in n steps of d.
Leads(f, n, d, a, b) ==
  /\ f \in [0 .. n -> Int]
  /\ f[0] = a /\ f[n] = b
  /\ \A i \in 1 .. n : f[i] = f[i - 1] + d[i]

Monies     == [i \in 1 .. Len(resp) |-> MoneyOf(resp[i])]
Volumes(o) == [i \in 1 .. Len(resp) |-> VolumeOf(resp[i], o)]

MoneyLedger == \E f : Leads(f, Len(resp), Monies, Cash + cash, avail)

VolumeLedger(o) ==
  \E f : /\ Leads(f, Len(resp), Volumes(o), heard[o].traded, traded[o])
         /\ \A i \in 0 .. Len(resp) : f[i] <= traded[o]

LedgerInv == MoneyLedger /\ \A o \in Orders : VolumeLedger(o)

----------------------------------------------------------------------------
(* What the refinement of Exchange needs of the inbox: a round in backtest  *)
(* has its sync signal in front, and a cancel stands behind its order.      *)

SyncInv == lock = "round" /\ mode = "backtest" => inbox[1].kind = "sync"

BehindInv ==
  \A i, j \in 1 .. Len(inbox) :
    inbox[i].kind = "cancel" /\ IsInsert(inbox[j]) /\ inbox[i].order = inbox[j].order => j < i

QueueInv == SyncInv /\ BehindInv
============================================================================
