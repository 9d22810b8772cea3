---------------------------- MODULE SessionProofs ----------------------------
(***************************************************************************)
(* For every number of services, files, orders and deals: the turn-taking   *)
(* of a backtest.  First what a queue looks like after a frame was written  *)
(* or handled, then one lemma per conjunct of IInv, by the kinds of step    *)
(* that can disturb it, then the refinement of Turns.                       *)
(***************************************************************************)
EXTENDS SessionInv, TLAPS

-----------------------------------------------------------------------------
\* Queues

Alike(f, g) == f.on = g.on /\ f.type = g.type /\ f.order = g.order

\* r is q with a frame like m behind it.
Added(q, m, r) ==
  /\ r \in Seq(Frames) /\ Len(q) \in Nat /\ Len(r) = Len(q) + 1
  /\ \A k \in 1 .. Len(q) : r[k] = q[k]
  /\ Alike(r[Len(q) + 1], m)
  /\ m.on \notin Requests => r[Len(q) + 1].fate # "skipped"

Old(i, k) == IF k < i THEN k ELSE k + 1

New(i, k) == IF k < i THEN k ELSE k - 1

\* r is q without its frame i.
Dropped(q, i, r) ==
  /\ r \in Seq(Frames) /\ Len(q) \in Nat \ {0} /\ i \in 1 .. Len(q)
  /\ Len(r) = Len(q) - 1
  /\ \A k \in 1 .. Len(r) : Alike(r[k], q[Old(i, k)])
  /\ \A k \in 1 .. Len(q) : k # i => Alike(r[New(i, k)], q[k])
  /\ \A k \in 1 .. Len(r) : r[k].fate = q[Old(i, k)].fate
  /\ \A k \in 1 .. Len(q) : k # i => r[New(i, k)].fate = q[k].fate

\* A message is a frame.
LEMMA MsgIsFrame ==
  ASSUME NEW on \in Journals, NEW type \in Types, NEW o \in Orders \cup {None}
  PROVE  /\ Msg(on, type, o) \in Frames
         /\ Msg(on, type, o).on = on /\ Msg(on, type, o).type = type
         /\ Msg(on, type, o).order = o
BY DEF Msg, Frames, Fates

\* What writing behind a queue gives: only a journal that its reader has not
\* joined has its frames skipped.
LEMMA WrittenAdds ==
  ASSUME late \subseteq Requests, NEW q \in Seq(Frames), NEW m \in Frames,
         NEW r \in Written(q, m)
  PROVE  Added(q, m, r)
<1>1. PICK t \in BOOLEAN, w \in FatesOn(m.on) :
        r = Append(q, [m EXCEPT !.tied = t, !.fate = w])
  BY DEF Written
<1>2. w \in Fates /\ (m.on \notin Requests => w # "skipped")
  BY <1>1 DEF FatesOn, Fates
<1> DEFINE f == [m EXCEPT !.tied = t, !.fate = w]
<1>3. f \in Frames /\ Alike(f, m) /\ f.fate = w
  BY <1>2 DEF Frames, Alike
<1> HIDE DEF f
<1>4. r = Append(q, f)
  BY <1>1 DEF f
<1>5. /\ r \in Seq(Frames) /\ Len(q) \in Nat /\ Len(r) = Len(q) + 1
      /\ \A k \in 1 .. Len(q) : r[k] = q[k]
      /\ r[Len(q) + 1] = f
  BY <1>3, <1>4
<1> QED
  BY <1>2, <1>3, <1>5 DEF Added

\* What taking a frame out of a queue gives.
LEMMA WithoutDrops ==
  ASSUME NEW q \in Seq(Frames), NEW i \in DOMAIN q
  PROVE  Dropped(q, i, Without(q, i))
<1> DEFINE r == Without(q, i)
           g(k) == q[Old(i, k)]
           t(k) == g(k).tied /\ \E l \in (1 .. k) \ {i} : q[l].fate = "offered"
           h(k) == [g(k) EXCEPT !.tied = t(k)]
<1>1. Len(q) \in Nat \ {0} /\ i \in 1 .. Len(q) /\ Len(q) - 1 \in Nat
  OBVIOUS
<1>2. \A k \in 1 .. (Len(q) - 1) : Old(i, k) \in 1 .. Len(q)
  BY <1>1 DEF Old
<1>3. \A k \in 1 .. (Len(q) - 1) : g(k) \in Frames
  BY <1>2
<1>4. \A k \in 1 .. (Len(q) - 1) :
        h(k) \in Frames /\ Alike(h(k), g(k)) /\ h(k).fate = g(k).fate
  <2> SUFFICES ASSUME NEW k \in 1 .. (Len(q) - 1)
               PROVE  h(k) \in Frames /\ Alike(h(k), g(k)) /\ h(k).fate = g(k).fate
    OBVIOUS
  <2>1. PICK f \in Frames : f = g(k)
    BY <1>3
  <2>2. PICK b \in BOOLEAN : b = t(k)
    OBVIOUS
  <2>3. h(k) = [f EXCEPT !.tied = b]
    BY <2>1, <2>2
  <2> HIDE DEF g, h, t
  <2> QED
    BY <2>1, <2>3 DEF Frames, Alike
<1>5. r = [k \in 1 .. (Len(q) - 1) |-> h(k)]
  BY DEF Without, Old
<1> HIDE DEF g, h, r, t
<1>6. r \in Seq(Frames) /\ Len(r) = Len(q) - 1
  BY <1>1, <1>4, <1>5
<1>7. \A k \in 1 .. Len(r) : Alike(r[k], q[Old(i, k)]) /\ r[k].fate = q[Old(i, k)].fate
  BY <1>4, <1>5, <1>6 DEF g
<1>8. ASSUME NEW k \in 1 .. Len(q), k # i
      PROVE  Alike(r[New(i, k)], q[k]) /\ r[New(i, k)].fate = q[k].fate
  <2>1. New(i, k) \in 1 .. (Len(q) - 1) /\ Old(i, New(i, k)) = k
    BY <1>1, <1>8 DEF New, Old
  <2> QED
    BY <1>6, <1>7, <2>1
<1> QED
  BY <1>1, <1>6, <1>7, <1>8 DEF Dropped, r

-----------------------------------------------------------------------------
\* The three ways of using the journals, and what they do to the queues.

Same == inbox' = inbox

Adds(e, m) ==
  /\ m \in Frames /\ inbox' \in [Engines -> Seq(Frames)]
  /\ Added(inbox[e], m, inbox'[e])
  /\ \A d \in Engines : d # e => inbox'[d] = inbox[d]

Drops(e, i, types) ==
  /\ inbox' \in [Engines -> Seq(Frames)]
  /\ i \in Due(inbox[e]) /\ i \in DOMAIN inbox[e]
  /\ inbox[e][i].type \in types /\ pc[e] = "idle"
  /\ Dropped(inbox[e], i, inbox'[e])
  /\ \A d \in Engines : d # e => inbox'[d] = inbox[d]

Moves(e, i, types, d, m) ==
  /\ m \in Frames /\ inbox' \in [Engines -> Seq(Frames)]
  /\ i \in Due(inbox[e]) /\ i \in DOMAIN inbox[e]
  /\ inbox[e][i].type \in types /\ pc[e] = "idle"
  /\ Dropped(inbox[e], i, inbox'[e])
  /\ Added(inbox[d], m, inbox'[d])
  /\ \A c \in Engines \ {d, e} : inbox'[c] = inbox[c]

LEMMA PublishAdds ==
  ASSUME TypeOK, NEW e \in Engines, NEW m \in Frames, Publish(e, m)
  PROVE  Adds(e, m)
<1>1. inbox \in [Engines -> Seq(Frames)]
  BY DEF TypeOK
<1>2. PICK r \in Written(inbox[e], m) : inbox' = [inbox EXCEPT ![e] = r]
  BY DEF Publish
<1>3. PICK q \in Seq(Frames) : q = inbox[e]
  BY <1>1
<1>4. Added(q, m, r)
  BY <1>2, <1>3, WrittenAdds DEF TypeOK
<1>5. r \in Seq(Frames)
  BY <1>4 DEF Added
<1> QED
  BY <1>1, <1>2, <1>3, <1>4, <1>5 DEF Adds

LEMMA HandleDrops ==
  ASSUME TypeOK, NEW e \in Engines, NEW i, NEW types, Handle(e, i, types)
  PROVE  Drops(e, i, types)
<1>1. inbox \in [Engines -> Seq(Frames)]
  BY DEF TypeOK
<1>2. /\ i \in Due(inbox[e]) /\ inbox[e][i].type \in types /\ pc[e] = "idle"
      /\ inbox' = [inbox EXCEPT ![e] = Without(inbox[e], i)]
  BY DEF Handle, Take
<1>3. PICK q \in Seq(Frames) : q = inbox[e]
  BY <1>1
<1>4. i \in DOMAIN q
  BY <1>2, <1>3 DEF Due
<1>5. PICK r : r = Without(q, i)
  OBVIOUS
<1>6. Dropped(q, i, r)
  BY <1>4, <1>5, WithoutDrops
<1>7. r \in Seq(Frames)
  BY <1>6 DEF Dropped
<1>8. inbox' = [inbox EXCEPT ![e] = r]
  BY <1>2, <1>3, <1>5
<1> QED
  BY <1>1, <1>2, <1>3, <1>4, <1>6, <1>7, <1>8 DEF Drops

LEMMA HandleAndPublishMoves ==
  ASSUME TypeOK, NEW e \in Engines, NEW i, NEW types, NEW d \in Engines,
         NEW m \in Frames, d # e, HandleAndPublish(e, i, types, d, m)
  PROVE  Moves(e, i, types, d, m)
<1>1. inbox \in [Engines -> Seq(Frames)]
  BY DEF TypeOK
<1>2. i \in Due(inbox[e]) /\ inbox[e][i].type \in types /\ pc[e] = "idle"
  BY DEF HandleAndPublish, Take
<1>3. PICK p \in Written(inbox[d], m) :
        inbox' = [inbox EXCEPT ![e] = Without(inbox[e], i), ![d] = p]
  BY DEF HandleAndPublish
<1>4. PICK q \in Seq(Frames) : q = inbox[e]
  BY <1>1
<1>5. i \in DOMAIN q
  BY <1>2, <1>4 DEF Due
<1>6. PICK r : r = Without(q, i)
  OBVIOUS
<1>7. Dropped(q, i, r)
  BY <1>5, <1>6, WithoutDrops
<1>8. PICK o \in Seq(Frames) : o = inbox[d]
  BY <1>1
<1>9. Added(o, m, p)
  BY <1>3, <1>8, WrittenAdds DEF TypeOK
<1>10. r \in Seq(Frames) /\ p \in Seq(Frames)
  BY <1>7, <1>9 DEF Dropped, Added
<1>11. inbox' = [inbox EXCEPT ![e] = r, ![d] = p]
  BY <1>3, <1>4, <1>6
<1>12. inbox'[e] = r /\ inbox'[d] = p
  BY <1>1, <1>11
<1>13. /\ inbox' \in [Engines -> Seq(Frames)]
       /\ \A c \in Engines \ {d, e} : inbox'[c] = inbox[c]
  BY <1>1, <1>10, <1>11
<1> QED
  BY <1>2, <1>4, <1>5, <1>7, <1>8, <1>9, <1>12, <1>13 DEF Moves

-----------------------------------------------------------------------------
\* The effect of each action on the queues.

LEMMA CpEffects ==
  ASSUME TypeOK
  PROVE  /\ Begin => Adds("md", Msg("MdReq", "TradingStart", None))
         /\ StartTd => \E j \in toWrite : /\ toWrite' = toWrite \ {j}
                                         /\ Adds("td", Msg(j, "TradingStart", None))
         /\ EndTd => \E j \in toWrite : /\ toWrite' = toWrite \ {j}
                                       /\ Adds("td", Msg(j, "Termination", None))
         /\ Prepare \/ Return \/ Stop => Same
         /\ FirstSignal => Adds("md", Msg("MdReq", "MarketData", None))
         /\ \A o \in Orders, w \in Wanted :
              SendOrder(o, w) => Adds("td", Msg("Account", "Order", o))
         /\ \A i : OnBar(i) => Drops("cp", i, {"Bar"})
         /\ \A i : OnTrade(i) => Drops("cp", i, {"Trade"})
         /\ \A i : OnData(i) => Moves("cp", i, {"MarketData"}, "td",
                                     Msg("TdReq", "MatchOrder", None))
         /\ \A i : OnMatch(i) => Moves("cp", i, {"MatchOrder"}, "md",
                                      Msg("MdReq", "MarketData", None))
         /\ \A i : OnTermination(i) => Moves("cp", i, {"Termination"}, "md",
                                            Msg("MdReq", "Termination", None))
<1>1. ASSUME NEW on \in Journals, NEW type \in Types, NEW o \in Orders \cup {None},
             NEW e \in Engines, Publish(e, Msg(on, type, o))
      PROVE  Adds(e, Msg(on, type, o))
  <2>1. PICK m \in Frames : m = Msg(on, type, o)
    BY MsgIsFrame
  <2>2. Adds(e, m)
    BY <1>1, <2>1, PublishAdds
  <2> QED
    BY <2>1, <2>2
<1>2. ASSUME NEW d \in {"md", "td"}, NEW i, NEW types,
             NEW on \in Journals, NEW type \in Types,
             HandleAndPublish("cp", i, types, d, Msg(on, type, None))
      PROVE  Moves("cp", i, types, d, Msg(on, type, None))
  <2>1. PICK m \in Frames : m = Msg(on, type, None)
    BY MsgIsFrame
  <2>2. d \in Engines /\ "cp" \in Engines /\ d # "cp"
    BY DEF Engines
  <2>3. HandleAndPublish("cp", i, types, d, m)
    BY <1>2, <2>1
  <2>4. Moves("cp", i, types, d, m)
    BY <2>2, <2>3, HandleAndPublishMoves
  <2> QED
    BY <2>1, <2>4
<1>3. "md" \in Engines /\ "cp" \in Engines /\ "td" \in Engines
  BY DEF Engines
<1>4. /\ {"MdReq", "TdReq", "Account"} \subseteq Journals
      /\ toWrite \subseteq Journals
  BY DEF Journals, TypeOK, ToTd
<1>5. {"TradingStart", "MarketData", "MatchOrder", "Termination", "Order"} \subseteq Types
  BY DEF Types
<1>6. Begin => Adds("md", Msg("MdReq", "TradingStart", None))
  BY <1>1, <1>3, <1>4, <1>5 DEF Begin
<1>7. StartTd => \E j \in toWrite : /\ toWrite' = toWrite \ {j}
                                    /\ Adds("td", Msg(j, "TradingStart", None))
  <2> SUFFICES ASSUME StartTd
               PROVE  \E j \in toWrite : /\ toWrite' = toWrite \ {j}
                                        /\ Adds("td", Msg(j, "TradingStart", None))
    OBVIOUS
  <2>1. PICK j \in toWrite : /\ toWrite' = toWrite \ {j}
                            /\ Publish("td", Msg(j, "TradingStart", None))
    BY DEF StartTd, WriteTd
  <2> QED
    BY <1>1, <1>3, <1>4, <1>5, <2>1
<1>8. EndTd => \E j \in toWrite : /\ toWrite' = toWrite \ {j}
                                  /\ Adds("td", Msg(j, "Termination", None))
  <2> SUFFICES ASSUME EndTd
               PROVE  \E j \in toWrite : /\ toWrite' = toWrite \ {j}
                                        /\ Adds("td", Msg(j, "Termination", None))
    OBVIOUS
  <2>1. PICK j \in toWrite : /\ toWrite' = toWrite \ {j}
                            /\ Publish("td", Msg(j, "Termination", None))
    BY DEF EndTd, WriteTd
  <2> QED
    BY <1>1, <1>3, <1>4, <1>5, <2>1
<1>9. Prepare \/ Return \/ Stop => Same
  BY DEF Prepare, Return, Stop, Same
<1>10. FirstSignal => Adds("md", Msg("MdReq", "MarketData", None))
  BY <1>1, <1>3, <1>4, <1>5 DEF FirstSignal
<1>11. \A o \in Orders, w \in Wanted :
         SendOrder(o, w) => Adds("td", Msg("Account", "Order", o))
  BY <1>1, <1>3, <1>4, <1>5 DEF SendOrder
<1>12. \A i : OnBar(i) => Drops("cp", i, {"Bar"})
  BY <1>3, HandleDrops DEF OnBar
<1>16. \A i : OnTrade(i) => Drops("cp", i, {"Trade"})
  BY <1>3, HandleDrops DEF OnTrade
<1>13. \A i : OnData(i) => Moves("cp", i, {"MarketData"}, "td",
                                Msg("TdReq", "MatchOrder", None))
  BY <1>2, <1>4, <1>5 DEF OnData
<1>14. \A i : OnMatch(i) => Moves("cp", i, {"MatchOrder"}, "md",
                                 Msg("MdReq", "MarketData", None))
  BY <1>2, <1>4, <1>5 DEF OnMatch
<1>15. \A i : OnTermination(i) => Moves("cp", i, {"Termination"}, "md",
                                       Msg("MdReq", "Termination", None))
  BY <1>2, <1>4, <1>5 DEF OnTermination
<1> QED
  BY <1>6, <1>7, <1>8, <1>9, <1>10, <1>11, <1>12, <1>13, <1>14, <1>15, <1>16

LEMMA MdEffects ==
  ASSUME TypeOK, PlaceInv, FrameInv
  PROVE  /\ \A i : MdStart(i) => Drops("md", i, {"TradingStart"})
         /\ \A i : MdSignal(i) => Drops("md", i, {"MarketData"})
         /\ \A i : MdStop(i) => Drops("md", i, {"Termination"})
         /\ \A s \in Services :
              /\ ServeBar(s) => Adds("cp", Msg(s, "Bar", None))
              /\ ServeUnusable(s) => Same
              /\ ServeEnd(s) => Adds("cp", Msg(s, "Termination", None))
         /\ MdAnswer => IF success THEN Adds("cp", Msg("MdResp", "MarketData", None))
                        ELSE Same
<1>1. ASSUME NEW on \in Journals, NEW type \in Types,
             Publish("cp", Msg(on, type, None))
      PROVE  Adds("cp", Msg(on, type, None))
  <2>1. PICK m \in Frames : m = Msg(on, type, None)
    BY MsgIsFrame
  <2>2. Adds("cp", m)
    BY <1>1, <2>1, PublishAdds DEF Engines
  <2> QED
    BY <2>1, <2>2
<1>2. "md" \in Engines /\ "cp" \in Engines
  BY DEF Engines
<1>3. "MdResp" \in Journals /\ Services \subseteq Journals
  BY DEF Journals
<1>4. {"Bar", "MarketData", "Termination"} \subseteq Types
  BY DEF Types
<1>5. \A i : MdStart(i) => Drops("md", i, {"TradingStart"})
  BY <1>2, HandleDrops DEF MdStart
<1>9. \A i : MdStop(i) => Drops("md", i, {"Termination"})
  BY <1>2, HandleDrops DEF MdStop
<1>6. ASSUME NEW i, MdSignal(i)
      PROVE  Drops("md", i, {"MarketData"})
  <2>1. Drops("md", i, Signals)
    BY <1>2, <1>6, HandleDrops DEF MdSignal
  <2>2. inbox["md"][i].type = "MarketData"
    BY <2>1 DEF Drops, FrameInv, Signals
  <2> QED
    BY <2>1, <2>2 DEF Drops
<1>7. ASSUME NEW s \in Services
      PROVE  /\ ServeBar(s) => Adds("cp", Msg(s, "Bar", None))
             /\ ServeUnusable(s) => Same
             /\ ServeEnd(s) => Adds("cp", Msg(s, "Termination", None))
  BY <1>1, <1>3, <1>4 DEF ServeBar, ServeUnusable, ServeEnd, Same
<1>8. ASSUME MdAnswer
      PROVE  IF success THEN Adds("cp", Msg("MdResp", "MarketData", None)) ELSE Same
  <2>1. signal["md"] = "MarketData"
    BY <1>8 DEF MdAnswer, PlaceInv
  <2>2. CASE success
    <3>1. Publish("cp", Msg("MdResp", "MarketData", None))
      BY <1>8, <2>1, <2>2 DEF MdAnswer
    <3> QED
      BY <1>1, <1>3, <1>4, <2>2, <3>1
  <2>3. CASE ~ success
    BY <1>8, <2>3 DEF MdAnswer, Same
  <2> QED
    BY <2>2, <2>3
<1> QED
  BY <1>5, <1>6, <1>7, <1>8, <1>9

LEMMA TdEffects ==
  ASSUME TypeOK, PlaceInv, FrameInv
  PROVE  /\ \A i : TdStart(i) => Drops("td", i, {"TradingStart"})
         /\ \A i : TdOrder(i) => Drops("td", i, {"Order"})
         /\ \A i : TdSignal(i) => Drops("td", i, {"MatchOrder"})
         /\ \A i : TdStop(i) => Drops("td", i, {"Termination"})
         /\ \A o \in Orders : /\ Fill(o) => Adds("cp", Msg("TdResp", "Trade", o))
                              /\ NoFunds(o) => Same
         /\ TdAnswer => Adds("cp", Msg("TdResp", "MatchOrder", None))
<1>1. ASSUME NEW type \in Types, NEW o \in Orders \cup {None},
             Publish("cp", Msg("TdResp", type, o))
      PROVE  Adds("cp", Msg("TdResp", type, o))
  <2>1. PICK m \in Frames : m = Msg("TdResp", type, o)
    BY MsgIsFrame DEF Journals
  <2>2. Adds("cp", m)
    BY <1>1, <2>1, PublishAdds DEF Engines
  <2> QED
    BY <2>1, <2>2
<1>2. "td" \in Engines
  BY DEF Engines
<1>3. {"Trade", "MatchOrder"} \subseteq Types
  BY DEF Types
<1>4. \A i : TdStart(i) => Drops("td", i, {"TradingStart"})
  BY <1>2, HandleDrops DEF TdStart
<1>8. \A i : TdOrder(i) => Drops("td", i, {"Order"})
  BY <1>2, HandleDrops DEF TdOrder
<1>9. \A i : TdStop(i) => Drops("td", i, {"Termination"})
  BY <1>2, HandleDrops DEF TdStop
<1>5. ASSUME NEW i, TdSignal(i)
      PROVE  Drops("td", i, {"MatchOrder"})
  <2>1. Drops("td", i, Signals)
    BY <1>2, <1>5, HandleDrops DEF TdSignal
  <2>2. inbox["td"][i].type = "MatchOrder"
    BY <2>1 DEF Drops, FrameInv, Signals
  <2> QED
    BY <2>1, <2>2 DEF Drops
<1>6. ASSUME NEW o \in Orders
      PROVE  /\ Fill(o) => Adds("cp", Msg("TdResp", "Trade", o))
             /\ NoFunds(o) => Same
  BY <1>1, <1>3 DEF Fill, NoFunds, Same
<1>7. ASSUME TdAnswer
      PROVE  Adds("cp", Msg("TdResp", "MatchOrder", None))
  <2>1. signal["td"] = "MatchOrder"
    BY <1>7 DEF TdAnswer, PlaceInv
  <2>2. Publish("cp", Msg("TdResp", "MatchOrder", None))
    BY <1>7, <2>1 DEF TdAnswer
  <2> QED
    BY <1>1, <1>3, <2>2
<1> QED
  BY <1>4, <1>5, <1>6, <1>7, <1>8, <1>9

-----------------------------------------------------------------------------
\* The kinds of step: none that the invariant but for TypeOK could notice, one of
\* an engine that goes on, or the last one of the process.

Quiet == UNCHANGED <<pc, inbox, loops, started, row, books, early>>

MdWork ==
  \/ MdAnswer
  \/ \E s \in Services : Serve(s)
  \/ \E i \in DOMAIN inbox["md"] : MdStart(i) \/ MdSignal(i) \/ MdStop(i)

TdWork ==
  \/ TdAnswer
  \/ \E o \in Orders : Match(o)
  \/ \E i \in DOMAIN inbox["td"] :
       TdStart(i) \/ TdOrder(i) \/ TdSignal(i) \/ TdStop(i)

Step == Quiet \/ CpNext \/ MdWork \/ TdWork

LEMMA NextIs ==
  ASSUME [Next]_vars
  PROVE  Step \/ \E s \in Services : ServeFault(s)
<1>1. UNCHANGED vars \/ MdJoin \/ TdJoin => Quiet
  BY DEF vars, Quiet, MdJoin, TdJoin
<1> QED
  BY <1>1 DEF Next, MdNext, TdNext, MdWork, TdWork, Step

\* No journal is late that was not.
LEMMA LateShrinks ==
  ASSUME [Next]_vars
  PROVE  late' \subseteq late
BY DEF Next, vars, CpNext, Begin, StartTd, WriteTd, Prepare, FirstSignal, Return, EndTd,
       Stop, SendOrder, OnBar, OnTrade, OnData, OnMatch, OnTermination,
       MdNext, MdJoin, MdAnswer, Serve, ServeFault, MdStart, MdSignal, MdStop,
       TdNext, TdJoin, TdAnswer, Match, TdStart, TdOrder, TdSignal, TdStop

-----------------------------------------------------------------------------
\* Types

LEMMA InitIInv ==
  ASSUME Init
  PROVE  IInv
<1>1. \A e \in Engines : inbox[e] = <<>>
  BY DEF Init
<1>8. <<>> \in Seq(Frames) /\ DOMAIN <<>> = {}
  <2>1. <<>> \in Seq(Frames) /\ Len(<<>>) = 0
    OBVIOUS
  <2>2. 1 .. 0 = {}
    OBVIOUS
  <2> QED
    BY <2>1, <2>2
<1>2. \A e \in Engines : DOMAIN inbox[e] = {} /\ inbox[e] \in Seq(Frames)
  BY <1>1, <1>8
<1>3. "md" \in Engines /\ "cp" \in Engines /\ "td" \in Engines
  BY DEF Engines
<1>4. TypeOK
  <2>1. inbox \in [Engines -> Seq(Frames)]
    BY <1>2 DEF Init
  <2>2. \A s \in Services : Rows[s] \in Seq(RowKinds) /\ Len(Rows[s]) \in Nat
    BY RowsAreRows
  <2>3. positions \in Positions
    BY DEF Init, NoPositions, Positions
  <2>4. pc \in [Engines -> {"new", "starting", "preparing", "idle", "strategies",
                           "serving", "matching", "ending", "stopped", "crashed"}]
    BY DEF Init, Engines
  <2>5. signal \in [{"md", "td"} -> Signals \cup {None}]
    BY DEF Init
  <2>8. started \in [{"md", "td"} -> BOOLEAN]
    BY DEF Init
  <2>9. /\ toWrite \subseteq ToTd /\ toServe \subseteq Services
        /\ toMatch \subseteq Orders /\ bought \in Int
    BY DEF Init
  <2>10. success \in BOOLEAN /\ early \in BOOLEAN /\ late \subseteq Requests
    BY DEF Init
  <2>6. row \in [Services -> Nat] /\ \A s \in Services : row[s] <= Len(Rows[s])
    BY <2>2 DEF Init
  <2>7. deal \in [Orders -> Wanted \cup {None}] /\ order \in [Orders -> Progress]
    BY DEF Init, Progress
  <2> QED
    BY <2>1, <2>3, <2>4, <2>5, <2>6, <2>7, <2>8, <2>9, <2>10 DEF TypeOK
<1>5. PlaceInv /\ FrameInv /\ OneTurn /\ EndInv /\ TradeInv /\ BarInv
  BY <1>2, <1>3, NoneIsNothing
     DEF Init, PlaceInv, FrameInv, OneTurn, EndInv, TradeInv, BarInv, SignalsAt,
         Waits, Ended, Starting
<1>9. DOMAIN inbox["td"] = {} /\ DOMAIN inbox["cp"] = {} /\ DOMAIN inbox["md"] = {}
  BY <1>2, <1>3
<1>10. pc["cp"] = "new"
  BY DEF Init
<1>11. StartInv
  <2>1. ToStart(pc["cp"], toWrite)
    BY <1>10 DEF ToStart
  <2>2. OrdersAfter(inbox["td"], started["td"])
    BY <1>9 DEF OrdersAfter
  <2> QED
    BY <2>1, <2>2 DEF StartInv
<1>6. OrderInv /\ CloseInv /\ NetIsBought /\ NoneIgnored
  BY <1>9
     DEF Init, OrderInv, CloseInv, NetIsBought, NoneIgnored, Closing,
         Net, NoPositions, Directions
<1>7. RowInv
  BY DEF Init, RowInv
<1> QED
  BY <1>4, <1>5, <1>6, <1>7, <1>11 DEF IInv

\* The deal of an order that was sent is a deal.
LEMMA SentIsDeal ==
  ASSUME TypeOK, OrderInv, NEW o \in Orders, order[o] # "new"
  PROVE  deal[o] \in Wanted /\ deal[o] \in Deals
BY WantedAreDeals DEF TypeOK, OrderInv

\* Booking a deal.
LEMMA UpdateBooks ==
  ASSUME NEW p \in Positions, NEW t \in Deals
  PROVE  /\ Update(p, t) \in Positions /\ Signed(t) \in Int
         /\ Update(p, t)[DirectionOf(t)] = VolumeAfter(p[DirectionOf(t)], t)
         /\ \A d \in Directions \ {DirectionOf(t)} : Update(p, t)[d] = p[d]
         /\ t.offset = "Open" => Update(p, t)[DirectionOf(t)] >= p[DirectionOf(t)]
         /\ Covered(p, t) => Net(Update(p, t)) = Net(p) + Signed(t)
<1>1. /\ t.side \in {"Buy", "Sell"} /\ t.offset \in {"Open", "Close"}
      /\ t.volume \in Nat \ {0}
  BY DEF Deals
<1>2. DirectionOf(t) \in Directions
  BY DEF DirectionOf, Directions
<1>3. p \in [Directions -> Nat]
  BY DEF Positions
<1>4. p["Long"] \in Nat /\ p["Short"] \in Nat
  BY <1>3 DEF Directions
<1>5. \A v \in Nat : VolumeAfter(v, t) \in Nat
  BY <1>1 DEF VolumeAfter
<1>6. /\ Update(p, t) \in [Directions -> Nat]
      /\ Update(p, t)[DirectionOf(t)] = VolumeAfter(p[DirectionOf(t)], t)
      /\ \A d \in Directions \ {DirectionOf(t)} : Update(p, t)[d] = p[d]
  BY <1>2, <1>3, <1>5 DEF Update
<1>7. t.offset = "Open" => Update(p, t)[DirectionOf(t)] >= p[DirectionOf(t)]
  <2>1. p[DirectionOf(t)] \in Nat
    BY <1>2, <1>3
  <2> QED
    BY <1>1, <1>6, <2>1 DEF VolumeAfter
<1>8. ASSUME Covered(p, t)
      PROVE  Net(Update(p, t)) = Net(p) + Signed(t)
  <2> DEFINE u == Update(p, t)
  <2>1. CASE DirectionOf(t) = "Long"
    <3>1. u["Long"] = VolumeAfter(p["Long"], t) /\ u["Short"] = p["Short"]
      BY <1>6, <2>1 DEF Directions
    <3>2. u["Long"] = p["Long"] + Signed(t)
      BY <1>1, <1>4, <1>8, <2>1, <3>1 DEF VolumeAfter, Signed, Covered, DirectionOf
    <3>3. Signed(t) \in Int
      BY <1>1 DEF Signed
    <3> QED
      BY <1>4, <3>1, <3>2, <3>3 DEF Net
  <2>2. CASE DirectionOf(t) = "Short"
    <3>1. u["Short"] = VolumeAfter(p["Short"], t) /\ u["Long"] = p["Long"]
      BY <1>6, <2>2 DEF Directions
    <3>2. u["Short"] = p["Short"] - Signed(t)
      BY <1>1, <1>4, <1>8, <2>2, <3>1 DEF VolumeAfter, Signed, Covered, DirectionOf
    <3>3. Signed(t) \in Int
      BY <1>1 DEF Signed
    <3> QED
      BY <1>4, <3>1, <3>2, <3>3 DEF Net
  <2> QED
    BY <1>2, <2>1, <2>2 DEF Directions
<1>9. Signed(t) \in Int
  BY <1>1 DEF Signed
<1> QED
  BY <1>6, <1>7, <1>8, <1>9 DEF Positions

\* The queues keep their type.
LEMMA QueueTypes ==
  ASSUME IInv, Step
  PROVE  inbox' \in [Engines -> Seq(Frames)]
<1>1. TypeOK /\ PlaceInv /\ FrameInv
  BY DEF IInv
<1>2. inbox \in [Engines -> Seq(Frames)]
  BY <1>1 DEF TypeOK
<1>3. CASE Quiet
  BY <1>2, <1>3 DEF Quiet
<1>4. CASE CpNext
  <2>1. CASE Begin \/ StartTd \/ EndTd \/ FirstSignal
    BY <1>1, <2>1, CpEffects DEF Adds
  <2>2. CASE Prepare \/ Return \/ Stop
    BY <1>1, <1>2, <2>2, CpEffects DEF Same
  <2>3. ASSUME NEW o \in Orders, NEW w \in Wanted, SendOrder(o, w)
        PROVE  inbox' \in [Engines -> Seq(Frames)]
    BY <1>1, <2>3, CpEffects DEF Adds
  <2>4. ASSUME NEW i, OnBar(i) \/ OnTrade(i)
        PROVE  inbox' \in [Engines -> Seq(Frames)]
    BY <1>1, <2>4, CpEffects DEF Drops
  <2>5. ASSUME NEW i, OnData(i) \/ OnMatch(i) \/ OnTermination(i)
        PROVE  inbox' \in [Engines -> Seq(Frames)]
    BY <1>1, <2>5, CpEffects DEF Moves
  <2> QED
    BY <1>4, <2>1, <2>2, <2>3, <2>4, <2>5 DEF CpNext
<1>5. CASE MdWork
  <2>1. ASSUME NEW i, MdStart(i) \/ MdSignal(i) \/ MdStop(i)
        PROVE  inbox' \in [Engines -> Seq(Frames)]
    BY <1>1, <2>1, MdEffects DEF Drops
  <2>2. ASSUME NEW s \in Services, Serve(s)
        PROVE  inbox' \in [Engines -> Seq(Frames)]
    BY <1>1, <1>2, <2>2, MdEffects DEF Serve, Adds, Same
  <2>3. CASE MdAnswer
    BY <1>1, <1>2, <2>3, MdEffects DEF Adds, Same
  <2> QED
    BY <1>5, <2>1, <2>2, <2>3 DEF MdWork
<1>6. CASE TdWork
  <2>1. ASSUME NEW i, TdStart(i) \/ TdOrder(i) \/ TdSignal(i) \/ TdStop(i)
        PROVE  inbox' \in [Engines -> Seq(Frames)]
    BY <1>1, <2>1, TdEffects DEF Drops
  <2>2. ASSUME NEW o \in Orders, Match(o)
        PROVE  inbox' \in [Engines -> Seq(Frames)]
    BY <1>1, <1>2, <2>2, TdEffects DEF Match, Adds, Same
  <2>3. CASE TdAnswer
    BY <1>1, <2>3, TdEffects DEF Adds
  <2> QED
    BY <1>6, <2>1, <2>2, <2>3 DEF TdWork
<1> QED
  BY <1>3, <1>4, <1>5, <1>6 DEF Step

\* The rest of a file is read row by row.
LEMMA RowTypes ==
  ASSUME TypeOK, NEW s \in Services, HasRow(s), row' = [row EXCEPT ![s] = @ + 1]
  PROVE  /\ row' \in [Services -> Nat]
         /\ \A t \in Services : row'[t] <= Len(Rows[t])
<1>1. row \in [Services -> Nat] /\ \A t \in Services : row[t] <= Len(Rows[t])
  BY DEF TypeOK
<1>2. row[s] < Len(Rows[s]) /\ Len(Rows[s]) \in Nat /\ row[s] \in Nat
  BY <1>1, RowsAreRows DEF HasRow
<1>3. row'[s] = row[s] + 1 /\ \A t \in Services \ {s} : row'[t] = row[t]
  BY <1>1
<1>4. row' \in [Services -> Nat]
  BY <1>1, <1>2
<1>5. row'[s] <= Len(Rows[s])
  BY <1>2, <1>3
<1> QED
  BY <1>1, <1>3, <1>4, <1>5

LEMMA Types_ ==
  ASSUME IInv, Step, late' \subseteq late
  PROVE  TypeOK'
<1> USE DEF loops, books
<1>7. late' \subseteq Requests
  BY DEF IInv, TypeOK
<1>1. inbox' \in [Engines -> Seq(Frames)]
  BY QueueTypes
<1>2. TypeOK /\ OrderInv /\ FrameInv
  BY DEF IInv
<1>3. CASE Quiet
  BY <1>1, <1>2, <1>3, <1>7 DEF Quiet, TypeOK
<1>4. CASE CpNext
  <2>1. UNCHANGED <<toServe, toMatch, success, signal, started, row>>
    BY <1>4 DEF CpNext, Begin, StartTd, WriteTd, Prepare, FirstSignal, Return, EndTd,
                Stop, SendOrder, OnBar, OnTrade, OnData, OnMatch, OnTermination
  <2>2. pc' \in [Engines -> {"new", "starting", "preparing", "idle", "strategies",
                            "serving", "matching", "ending", "stopped", "crashed"}]
    BY <1>2, <1>4
       DEF TypeOK, Goto, CpNext, Begin, StartTd, WriteTd, Prepare, FirstSignal, Return,
           EndTd, Stop, SendOrder, OnBar, OnTrade, OnData, OnMatch, OnTermination
  <2>3. toWrite' \subseteq ToTd
    BY <1>2, <1>4
       DEF TypeOK, CpNext, Begin, StartTd, WriteTd, Prepare, FirstSignal, Return,
           EndTd, Stop, SendOrder, OnBar, OnTrade, OnData, OnMatch, OnTermination
  <2>4. early' \in BOOLEAN
    BY <1>2, <1>4
       DEF TypeOK, CpNext, Begin, StartTd, WriteTd, Prepare, FirstSignal, Return,
           EndTd, Stop, SendOrder, OnBar, OnTrade, OnData, OnMatch, OnTermination
  <2>5. /\ deal' \in [Orders -> Wanted \cup {None}] /\ order' \in [Orders -> Progress]
        /\ positions' \in Positions /\ bought' \in Int
    <3>1. CASE UNCHANGED books
      BY <1>2, <3>1 DEF TypeOK
    <3>2. ASSUME NEW o \in Orders, NEW w \in Wanted, SendOrder(o, w)
          PROVE  /\ deal' \in [Orders -> Wanted \cup {None}]
                 /\ order' \in [Orders -> Progress]
                 /\ positions' \in Positions /\ bought' \in Int
      BY <1>2, <3>2 DEF TypeOK, SendOrder, Progress
    <3>3. ASSUME NEW i, OnTrade(i)
          PROVE  /\ deal' \in [Orders -> Wanted \cup {None}]
                 /\ order' \in [Orders -> Progress]
                 /\ positions' \in Positions /\ bought' \in Int
      <4>1. Drops("cp", i, {"Trade"})
        BY <1>2, <3>3, CpEffects
      <4>2. inbox["cp"][i].order \in Orders /\ order[inbox["cp"][i].order] = "filled"
        BY <1>2, <4>1 DEF Drops, FrameInv, OrderInv
      <4>3. PICK o \in Orders : o = inbox["cp"][i].order
        BY <4>2
      <4>4. deal[o] \in Deals
        BY <1>2, <4>2, <4>3, SentIsDeal
      <4>5. positions \in Positions /\ bought \in Int
        BY <1>2 DEF TypeOK
      <4>6. PICK t \in Deals, p \in Positions : t = deal[o] /\ p = positions
        BY <4>4, <4>5
      <4>7. Update(p, t) \in Positions /\ Signed(t) \in Int
        BY UpdateBooks
      <4>8. positions' = Update(p, t) /\ bought' = bought + Signed(t)
        BY <3>3, <4>3, <4>6 DEF OnTrade
      <4>9. deal' = deal /\ order' = [order EXCEPT ![o] = "booked"]
        BY <3>3, <4>3 DEF OnTrade
      <4> QED
        BY <1>2, <4>5, <4>7, <4>8, <4>9 DEF TypeOK, Progress
    <3> QED
      BY <1>4, <3>1, <3>2, <3>3
         DEF CpNext, Begin, StartTd, WriteTd, Prepare, FirstSignal, Return,
             EndTd, Stop, OnBar, OnData, OnMatch, OnTermination
  <2> QED
    BY <1>1, <1>2, <1>7, <2>1, <2>2, <2>3, <2>4, <2>5 DEF TypeOK
<1>5. CASE MdWork
  <2>1. UNCHANGED <<toWrite, toMatch, deal, order, positions, bought, early>>
    BY <1>5 DEF MdWork, MdAnswer, Serve, MdStart, MdSignal, MdStop
  <2>2. /\ pc' \in [Engines -> {"new", "starting", "preparing", "idle", "strategies",
                               "serving", "matching", "ending", "stopped", "crashed"}]
        /\ toServe' \subseteq Services
    BY <1>2, <1>5 DEF TypeOK, Goto, MdWork, MdAnswer, Serve, MdStart, MdSignal, MdStop
  <2>3. success' \in BOOLEAN
    BY <1>2, <1>5
       DEF TypeOK, MdWork, MdAnswer, Serve, ServeBar, ServeUnusable, ServeEnd,
           MdStart, MdSignal, MdStop
  <2>4. started' \in [{"md", "td"} -> BOOLEAN]
    BY <1>2, <1>5 DEF TypeOK, MdWork, MdAnswer, Serve, MdStart, MdSignal, MdStop
  <2>5. signal' \in [{"md", "td"} -> Signals \cup {None}]
    <3>1. ASSUME NEW i, MdSignal(i)
          PROVE  signal' \in [{"md", "td"} -> Signals \cup {None}]
      <4>1. inbox["md"][i].type \in Signals
        BY <3>1 DEF MdSignal, Handle, Take
      <4> QED
        BY <1>2, <3>1, <4>1 DEF TypeOK, MdSignal
    <3> QED
      BY <1>2, <1>5, <3>1 DEF TypeOK, MdWork, MdAnswer, Serve, MdStart, MdStop
  <2>6. row' \in [Services -> Nat] /\ \A s \in Services : row'[s] <= Len(Rows[s])
    <3>1. CASE UNCHANGED row
      BY <1>2, <3>1 DEF TypeOK
    <3>2. ASSUME NEW s \in Services, Serve(s)
          PROVE  row' \in [Services -> Nat] /\ \A t \in Services : row'[t] <= Len(Rows[t])
      <4>1. CASE ServeEnd(s)
        BY <3>1, <4>1 DEF ServeEnd
      <4>2. CASE ServeBar(s) \/ ServeUnusable(s)
        BY <1>2, <4>2, RowTypes DEF ServeBar, ServeUnusable
      <4> QED
        BY <3>2, <4>1, <4>2 DEF Serve
    <3> QED
      BY <1>5, <3>1, <3>2 DEF MdWork, MdAnswer, MdStart, MdSignal, MdStop
  <2> QED
    BY <1>1, <1>2, <1>7, <2>1, <2>2, <2>3, <2>4, <2>5, <2>6 DEF TypeOK
<1>6. CASE TdWork
  <2>1. UNCHANGED <<toWrite, toServe, success, row, deal, positions, bought, early>>
    BY <1>6 DEF TdWork, TdAnswer, Match, TdStart, TdOrder, TdSignal, TdStop
  <2>2. /\ pc' \in [Engines -> {"new", "starting", "preparing", "idle", "strategies",
                               "serving", "matching", "ending", "stopped", "crashed"}]
        /\ toMatch' \subseteq Orders
    BY <1>2, <1>6 DEF TypeOK, Goto, TdWork, TdAnswer, Match, TdStart, TdOrder, TdSignal,
                      TdStop
  <2>3. started' \in [{"md", "td"} -> BOOLEAN]
    BY <1>2, <1>6 DEF TypeOK, TdWork, TdAnswer, Match, TdStart, TdOrder, TdSignal, TdStop
  <2>4. signal' \in [{"md", "td"} -> Signals \cup {None}]
    <3>1. ASSUME NEW i, TdSignal(i)
          PROVE  signal' \in [{"md", "td"} -> Signals \cup {None}]
      <4>1. inbox["td"][i].type \in Signals
        BY <3>1 DEF TdSignal, Handle, Take
      <4> QED
        BY <1>2, <3>1, <4>1 DEF TypeOK, TdSignal
    <3> QED
      BY <1>2, <1>6, <3>1 DEF TypeOK, TdWork, TdAnswer, Match, TdStart, TdOrder, TdStop
  <2>5. order' \in [Orders -> Progress]
    BY <1>2, <1>6
       DEF TypeOK, Progress, TdWork, TdAnswer, Match, Fill, NoFunds, TdStart, TdOrder,
           TdSignal, TdStop
  <2> QED
    BY <1>1, <1>2, <1>7, <2>1, <2>2, <2>3, <2>4, <2>5 DEF TypeOK
<1> QED
  BY <1>3, <1>4, <1>5, <1>6 DEF Step

-----------------------------------------------------------------------------
\* Places and frames

LEMMA Places ==
  ASSUME IInv, Step
  PROVE  PlaceInv'
<1>1. TypeOK /\ PlaceInv /\ FrameInv
  BY DEF IInv
<1>2. CASE Quiet
  BY <1>1, <1>2 DEF Quiet, loops, PlaceInv
<1>3. CASE CpNext
  BY <1>1, <1>3
     DEF TypeOK, Engines, PlaceInv, Goto, CpNext, Begin, StartTd, WriteTd, Prepare,
         FirstSignal, Return, EndTd, Stop, SendOrder, OnBar, OnTrade, OnData, OnMatch,
         OnTermination, loops, HandleAndPublish, Handle, Take
<1>4. CASE MdWork
  <2>1. ASSUME NEW i, MdSignal(i)
        PROVE  PlaceInv'
    <3>1. inbox["md"][i].type = "MarketData"
      BY <1>1, <2>1, MdEffects DEF Drops
    <3> QED
      BY <1>1, <2>1, <3>1 DEF MdSignal, TypeOK, Engines, PlaceInv, Goto
  <2> QED
    BY <1>1, <1>4, <2>1
       DEF TypeOK, Engines, PlaceInv, Goto, MdWork, MdAnswer, Serve, MdStart, MdStop, loops
<1>5. CASE TdWork
  <2>1. ASSUME NEW i, TdSignal(i)
        PROVE  PlaceInv'
    <3>1. inbox["td"][i].type = "MatchOrder"
      BY <1>1, <2>1, TdEffects DEF Drops
    <3> QED
      BY <1>1, <2>1, <3>1 DEF TdSignal, TypeOK, Engines, PlaceInv, Goto
  <2> QED
    BY <1>1, <1>5, <2>1
       DEF TypeOK, Engines, PlaceInv, Goto, TdWork, TdAnswer, Match, TdStart, TdOrder,
           TdStop, loops
<1> QED
  BY <1>2, <1>3, <1>4, <1>5 DEF Step

\* What may be written to an engine.
Fits(e, m) ==
  \/ e = "md" /\ m.type \in {"TradingStart", "MarketData", "Termination"}
  \/ /\ e = "td" /\ m.type \in {"TradingStart", "Order", "MatchOrder", "Termination"}
     /\ m.type = "Order" => m.on = "Account" /\ m.order \in Orders
  \/ /\ e = "cp" /\ m.type \in {"Bar", "Trade", "MarketData", "MatchOrder", "Termination"}
     /\ m.type \in {"Trade", "MatchOrder"} => m.on = "TdResp"
     /\ m.type = "Trade" => m.order \in Orders
     /\ m.on \notin Requests /\ m.fate # "skipped"

AllFit(e, q) == \A i \in DOMAIN q : Fits(e, q[i])

LEMMA FramesFit ==
  /\ FrameInv <=> \A e \in Engines : AllFit(e, inbox[e])
  /\ FrameInv' <=> \A e \in Engines : AllFit(e, inbox'[e])
BY DEF FrameInv, AllFit, Fits, Engines

LEMMA AddedFits ==
  ASSUME NEW e, NEW q \in Seq(Frames), NEW m, NEW r, Added(q, m, r),
         AllFit(e, q), Fits(e, m)
  PROVE  AllFit(e, r)
<1>1. DOMAIN r = 1 .. (Len(q) + 1) /\ DOMAIN q = 1 .. Len(q) /\ Len(q) \in Nat
  BY DEF Added
<1>2. \A k \in 1 .. Len(q) : Fits(e, r[k])
  BY <1>1 DEF Added, AllFit
<1>3. /\ Alike(r[Len(q) + 1], m)
      /\ e = "cp" => r[Len(q) + 1].fate # "skipped"
  BY DEF Added, Fits
<1>4. Fits(e, r[Len(q) + 1])
  BY <1>3 DEF Alike, Fits
<1> QED
  BY <1>1, <1>2, <1>4 DEF AllFit

LEMMA DroppedFits ==
  ASSUME NEW e, NEW q \in Seq(Frames), NEW i, NEW r, Dropped(q, i, r), AllFit(e, q)
  PROVE  AllFit(e, r)
<1>1. /\ DOMAIN r = 1 .. (Len(q) - 1) /\ DOMAIN q = 1 .. Len(q)
      /\ Len(q) \in Nat \ {0} /\ Len(r) = Len(q) - 1 /\ i \in 1 .. Len(q)
  BY DEF Dropped
<1> SUFFICES ASSUME NEW k \in DOMAIN r
             PROVE  Fits(e, r[k])
  BY DEF AllFit
<1>2. Old(i, k) \in DOMAIN q
  BY <1>1 DEF Old
<1>3. Fits(e, q[Old(i, k)])
  BY <1>2 DEF AllFit
<1>4. Alike(r[k], q[Old(i, k)]) /\ r[k].fate = q[Old(i, k)].fate
  BY <1>1 DEF Dropped
<1> QED
  BY <1>3, <1>4 DEF Alike, Fits

LEMMA StepFits ==
  ASSUME TypeOK, FrameInv, NEW e \in Engines, NEW i, NEW types, NEW d \in Engines, NEW m
  PROVE  /\ Same => FrameInv'
         /\ Adds(e, m) /\ Fits(e, m) => FrameInv'
         /\ Drops(e, i, types) => FrameInv'
         /\ d # e /\ Moves(e, i, types, d, m) /\ Fits(d, m) => FrameInv'
<1>1. \A c \in Engines : AllFit(c, inbox[c]) /\ inbox[c] \in Seq(Frames)
  BY FramesFit DEF TypeOK
<1>2. Same => FrameInv'
  BY <1>1, FramesFit DEF Same
<1>3. ASSUME Adds(e, m), Fits(e, m)
      PROVE  FrameInv'
  <2>1. PICK q, r : q \in Seq(Frames) /\ q = inbox[e] /\ r = inbox'[e]
    BY <1>1
  <2>2. AllFit(e, r)
    BY <1>1, <1>3, <2>1, AddedFits DEF Adds
  <2> QED
    BY <1>1, <1>3, <2>1, <2>2, FramesFit DEF Adds
<1>4. ASSUME Drops(e, i, types)
      PROVE  FrameInv'
  <2>1. PICK q, r : q \in Seq(Frames) /\ q = inbox[e] /\ r = inbox'[e]
    BY <1>1
  <2>2. AllFit(e, r)
    BY <1>1, <1>4, <2>1, DroppedFits DEF Drops
  <2> QED
    BY <1>1, <1>4, <2>1, <2>2, FramesFit DEF Drops
<1>5. ASSUME d # e, Moves(e, i, types, d, m), Fits(d, m)
      PROVE  FrameInv'
  <2>1. PICK q, r : q \in Seq(Frames) /\ q = inbox[e] /\ r = inbox'[e]
    BY <1>1
  <2>2. PICK p, o : p \in Seq(Frames) /\ p = inbox[d] /\ o = inbox'[d]
    BY <1>1
  <2>3. AllFit(e, r)
    BY <1>1, <1>5, <2>1, DroppedFits DEF Moves
  <2>4. AllFit(d, o)
    BY <1>1, <1>5, <2>2, AddedFits DEF Moves
  <2>5. \A c \in Engines \ {d, e} : inbox'[c] = inbox[c]
    BY <1>5 DEF Moves
  <2> QED
    BY <1>1, <2>1, <2>2, <2>3, <2>4, <2>5, FramesFit
<1> QED
  BY <1>2, <1>3, <1>4, <1>5

LEMMA MsgsFit ==
  /\ Fits("md", Msg("MdReq", "TradingStart", None))
  /\ Fits("md", Msg("MdReq", "MarketData", None))
  /\ Fits("md", Msg("MdReq", "Termination", None))
  /\ Fits("td", Msg("TdReq", "MatchOrder", None))
  /\ \A j : Fits("td", Msg(j, "TradingStart", None)) /\ Fits("td", Msg(j, "Termination", None))
  /\ \A o \in Orders : Fits("td", Msg("Account", "Order", o))
  /\ \A o \in Orders : Fits("cp", Msg("TdResp", "Trade", o))
  /\ Fits("cp", Msg("TdResp", "MatchOrder", None))
  /\ Fits("cp", Msg("MdResp", "MarketData", None))
  /\ \A s \in Services : /\ Fits("cp", Msg(s, "Bar", None))
                         /\ Fits("cp", Msg(s, "Termination", None))
BY NamesDiffer DEF Fits, Msg, Requests, ToTd

LEMMA Frames_ ==
  ASSUME IInv, Step
  PROVE  FrameInv'
<1>1. TypeOK /\ PlaceInv /\ FrameInv
  BY DEF IInv
<1>2. "md" \in Engines /\ "cp" \in Engines /\ "td" \in Engines
  BY DEF Engines
<1>3. CASE Quiet
  BY <1>1, <1>2, <1>3, StepFits DEF Quiet, Same
<1>4. CASE CpNext
  <2>1. CASE Begin \/ FirstSignal
    <3>1. PICK m : Adds("md", m) /\ Fits("md", m)
      BY <1>1, <2>1, CpEffects, MsgsFit
    <3> QED
      BY <1>1, <1>2, <3>1, StepFits
  <2>2. CASE StartTd \/ EndTd
    <3>1. PICK m : Adds("td", m) /\ Fits("td", m)
      BY <1>1, <2>2, CpEffects, MsgsFit
    <3> QED
      BY <1>1, <1>2, <3>1, StepFits
  <2>3. CASE Prepare \/ Return \/ Stop
    BY <1>1, <1>2, <2>3, CpEffects, StepFits
  <2>4. ASSUME NEW o \in Orders, NEW w \in Wanted, SendOrder(o, w)
        PROVE  FrameInv'
    <3>1. PICK m : Adds("td", m) /\ Fits("td", m)
      BY <1>1, <2>4, CpEffects, MsgsFit
    <3> QED
      BY <1>1, <1>2, <3>1, StepFits
  <2>5. ASSUME NEW i, OnBar(i) \/ OnTrade(i)
        PROVE  FrameInv'
    BY <1>1, <1>2, <2>5, CpEffects, StepFits
  <2>6. ASSUME NEW i, OnData(i)
        PROVE  FrameInv'
    <3>1. PICK m : /\ Moves("cp", i, {"MarketData"}, "td", m)
                   /\ Fits("td", m)
      BY <1>1, <2>6, CpEffects, MsgsFit
    <3> QED
      BY <1>1, <1>2, <3>1, StepFits
  <2>7. ASSUME NEW i, OnMatch(i)
        PROVE  FrameInv'
    <3>1. PICK m : /\ Moves("cp", i, {"MatchOrder"}, "md", m)
                   /\ Fits("md", m)
      BY <1>1, <2>7, CpEffects, MsgsFit
    <3> QED
      BY <1>1, <1>2, <3>1, StepFits
  <2>8. ASSUME NEW i, OnTermination(i)
        PROVE  FrameInv'
    <3>1. PICK m : /\ Moves("cp", i, {"Termination"}, "md", m)
                   /\ Fits("md", m)
      BY <1>1, <2>8, CpEffects, MsgsFit
    <3> QED
      BY <1>1, <1>2, <3>1, StepFits
  <2> QED
    BY <1>4, <2>1, <2>2, <2>3, <2>4, <2>5, <2>6, <2>7, <2>8 DEF CpNext
<1>5. CASE MdWork
  <2>1. ASSUME NEW i, MdStart(i) \/ MdSignal(i) \/ MdStop(i)
        PROVE  FrameInv'
    BY <1>1, <1>2, <2>1, MdEffects, StepFits
  <2>2. ASSUME NEW s \in Services, ServeBar(s) \/ ServeEnd(s)
        PROVE  FrameInv'
    <3>1. PICK m : Adds("cp", m) /\ Fits("cp", m)
      BY <1>1, <2>2, MdEffects, MsgsFit
    <3> QED
      BY <1>1, <1>2, <3>1, StepFits
  <2>3. ASSUME NEW s \in Services, ServeUnusable(s)
        PROVE  FrameInv'
    BY <1>1, <1>2, <2>3, MdEffects, StepFits
  <2>4. CASE MdAnswer
    <3>1. CASE success
      <4>1. PICK m : Adds("cp", m) /\ Fits("cp", m)
        BY <1>1, <2>4, <3>1, MdEffects, MsgsFit
      <4> QED
        BY <1>1, <1>2, <4>1, StepFits
    <3>2. CASE ~ success
      BY <1>1, <1>2, <2>4, <3>2, MdEffects, StepFits
    <3> QED
      BY <3>1, <3>2
  <2> QED
    BY <1>5, <2>1, <2>2, <2>3, <2>4 DEF MdWork, Serve
<1>6. CASE TdWork
  <2>1. ASSUME NEW i, TdStart(i) \/ TdOrder(i) \/ TdSignal(i) \/ TdStop(i)
        PROVE  FrameInv'
    BY <1>1, <1>2, <2>1, TdEffects, StepFits
  <2>2. ASSUME NEW o \in Orders, Fill(o)
        PROVE  FrameInv'
    <3>1. PICK m : Adds("cp", m) /\ Fits("cp", m)
      BY <1>1, <2>2, TdEffects, MsgsFit
    <3> QED
      BY <1>1, <1>2, <3>1, StepFits
  <2>3. ASSUME NEW o \in Orders, NoFunds(o)
        PROVE  FrameInv'
    BY <1>1, <1>2, <2>3, TdEffects, StepFits
  <2>4. CASE TdAnswer
    <3>1. PICK m : Adds("cp", m) /\ Fits("cp", m)
      BY <1>1, <2>4, TdEffects, MsgsFit
    <3> QED
      BY <1>1, <1>2, <3>1, StepFits
  <2> QED
    BY <1>6, <2>1, <2>2, <2>3, <2>4 DEF TdWork, Match
<1> QED
  BY <1>3, <1>4, <1>5, <1>6 DEF Step

-----------------------------------------------------------------------------
\* Signals

Holds(q, types) == \E i \in DOMAIN q : q[i].type \in types

Single(q) ==
  \A i, j \in DOMAIN q : q[i].type \in Signals /\ q[j].type \in Signals => i = j

LEMMA AddedHolds ==
  ASSUME NEW q \in Seq(Frames), NEW m, NEW r, Added(q, m, r), NEW types
  PROVE  /\ Holds(r, types) <=> Holds(q, types) \/ m.type \in types
         /\ Single(q) /\ (m.type \notin Signals \/ ~ Holds(q, Signals)) => Single(r)
<1>1. /\ DOMAIN r = 1 .. (Len(q) + 1) /\ DOMAIN q = 1 .. Len(q) /\ Len(q) \in Nat
      /\ \A k \in 1 .. Len(q) : r[k] = q[k]
      /\ r[Len(q) + 1].type = m.type
  BY DEF Added, Alike
<1> QED
  BY <1>1 DEF Holds, Single

LEMMA DroppedHolds ==
  ASSUME NEW q \in Seq(Frames), NEW i, NEW r, Dropped(q, i, r), NEW types
  PROVE  /\ Holds(r, types) => Holds(q, types)
         /\ Holds(q, types) /\ q[i].type \notin types => Holds(r, types)
         /\ Single(q) => Single(r)
         /\ Single(q) /\ q[i].type \in Signals => ~ Holds(r, Signals)
<1>1. /\ DOMAIN r = 1 .. (Len(q) - 1) /\ DOMAIN q = 1 .. Len(q)
      /\ Len(q) \in Nat \ {0} /\ Len(r) = Len(q) - 1 /\ i \in 1 .. Len(q)
  BY DEF Dropped
<1>2. \A k \in DOMAIN r : /\ Old(i, k) \in DOMAIN q /\ Old(i, k) # i
                          /\ r[k].type = q[Old(i, k)].type
  BY <1>1 DEF Old, Dropped, Alike
<1>3. \A j, k \in DOMAIN r : Old(i, j) = Old(i, k) => j = k
  BY <1>1 DEF Old
<1>4. \A k \in DOMAIN q : k # i => /\ New(i, k) \in DOMAIN r
                                   /\ r[New(i, k)].type = q[k].type
  BY <1>1 DEF New, Dropped, Alike
<1>5. Holds(r, types) => Holds(q, types)
  BY <1>2 DEF Holds
<1>6. Holds(q, types) /\ q[i].type \notin types => Holds(r, types)
  BY <1>4 DEF Holds
<1>7. Single(q) => Single(r)
  BY <1>2, <1>3 DEF Single
<1>8. Single(q) /\ q[i].type \in Signals => ~ Holds(r, Signals)
  BY <1>1, <1>2 DEF Single, Holds
<1> QED
  BY <1>5, <1>6, <1>7, <1>8

\* No signal comes or goes.
Calm(q, r) ==
  /\ \A t \in Signals : Holds(r, {t}) <=> Holds(q, {t})
  /\ Single(q) => Single(r)

CalmQueues == \A e \in Engines : Calm(inbox[e], inbox'[e])

CalmStep ==
  /\ CalmQueues
  /\ (pc'["md"] = "serving") <=> (pc["md"] = "serving")
  /\ (pc'["td"] = "matching") <=> (pc["td"] = "matching")
  /\ Starting' <=> Starting

LEMMA StepCalm ==
  ASSUME TypeOK, NEW e \in Engines, NEW i, NEW types, NEW d \in Engines, NEW m
  PROVE  /\ Same => CalmQueues
         /\ Adds(e, m) /\ m.type \notin Signals => CalmQueues
         /\ Drops(e, i, types) /\ types \cap Signals = {} => CalmQueues
         /\ /\ d # e /\ Moves(e, i, types, d, m)
            /\ types \cap Signals = {} /\ m.type \notin Signals
            => CalmQueues
<1>1. \A c \in Engines : inbox[c] \in Seq(Frames)
  BY DEF TypeOK
<1>2. \A q : Calm(q, q)
  BY DEF Calm
<1>3. ASSUME NEW q \in Seq(Frames), NEW r, Added(q, m, r), m.type \notin Signals
      PROVE  Calm(q, r)
  <2>1. \A t \in Signals : Holds(r, {t}) <=> Holds(q, {t}) \/ m.type \in {t}
    BY <1>3, AddedHolds
  <2>2. Single(q) => Single(r)
    BY <1>3, AddedHolds
  <2> QED
    BY <1>3, <2>1, <2>2 DEF Calm
<1>4. ASSUME NEW q \in Seq(Frames), NEW r, Dropped(q, i, r), q[i].type \notin Signals
      PROVE  Calm(q, r)
  <2>1. ASSUME NEW t \in Signals
        PROVE  Holds(r, {t}) <=> Holds(q, {t})
    <3>1. q[i].type \notin {t}
      BY <1>4
    <3> QED
      BY <1>4, <3>1, DroppedHolds
  <2>2. Single(q) => Single(r)
    BY <1>4, DroppedHolds
  <2> QED
    BY <2>1, <2>2 DEF Calm
<1>5. Same => CalmQueues
  BY <1>2 DEF Same, CalmQueues
<1>6. ASSUME Adds(e, m), m.type \notin Signals
      PROVE  CalmQueues
  <2>1. PICK q, r : q \in Seq(Frames) /\ q = inbox[e] /\ r = inbox'[e]
    BY <1>1
  <2>2. Calm(q, r)
    BY <1>3, <1>6, <2>1 DEF Adds
  <2> QED
    BY <1>2, <1>6, <2>1, <2>2 DEF Adds, CalmQueues
<1>7. ASSUME Drops(e, i, types), types \cap Signals = {}
      PROVE  CalmQueues
  <2>1. PICK q, r : q \in Seq(Frames) /\ q = inbox[e] /\ r = inbox'[e]
    BY <1>1
  <2>2. Dropped(q, i, r) /\ q[i].type \notin Signals
    BY <1>7, <2>1 DEF Drops
  <2>3. Calm(q, r)
    BY <2>1, <1>4, <2>2
  <2> QED
    BY <1>2, <1>7, <2>1, <2>3 DEF Drops, CalmQueues
<1>8. ASSUME d # e, Moves(e, i, types, d, m), types \cap Signals = {},
             m.type \notin Signals
      PROVE  CalmQueues
  <2>1. PICK q, r : q \in Seq(Frames) /\ q = inbox[e] /\ r = inbox'[e]
    BY <1>1
  <2>2. PICK p, o : p \in Seq(Frames) /\ p = inbox[d] /\ o = inbox'[d]
    BY <1>1
  <2>3. Dropped(q, i, r) /\ q[i].type \notin Signals
    BY <1>8, <2>1 DEF Moves
  <2>4. Calm(q, r)
    BY <2>1, <2>2, <1>4, <2>3
  <2>5. Added(p, m, o)
    BY <1>8, <2>2 DEF Moves
  <2>6. Calm(p, o)
    BY <2>1, <2>2, <1>3, <1>8, <2>5
  <2>7. \A c \in Engines \ {d, e} : inbox'[c] = inbox[c]
    BY <1>8 DEF Moves
  <2> QED
    BY <1>2, <2>1, <2>2, <2>4, <2>6, <2>7 DEF CalmQueues
<1> QED
  BY <1>5, <1>6, <1>7, <1>8

\* These are the steps that have to do with a signal.
SignalStep ==
  \/ FirstSignal
  \/ \E i \in DOMAIN inbox["cp"] : OnData(i) \/ OnMatch(i)
  \/ \E i \in DOMAIN inbox["md"] : MdSignal(i)
  \/ MdAnswer
  \/ \E i \in DOMAIN inbox["td"] : TdSignal(i)
  \/ TdAnswer

LEMMA MsgTypes ==
  \A on, type, o : /\ Msg(on, type, o).type = type /\ Msg(on, type, o).on = on
                   /\ Msg(on, type, o).order = o
BY DEF Msg

LEMMA ServeIsCalm ==
  ASSUME IInv, NEW s \in Services, Serve(s)
  PROVE  CalmStep
<1>1. TypeOK /\ PlaceInv /\ FrameInv /\ "cp" \in Engines
  BY DEF IInv, Engines
<1>2. "Bar" \notin Signals /\ "Termination" \notin Signals
  BY DEF Signals
<1>3. CASE ServeBar(s) \/ ServeEnd(s)
  <2>1. PICK m : Adds("cp", m) /\ m.type \notin Signals
    BY <1>1, <1>2, <1>3, MdEffects, MsgTypes
  <2>2. CalmQueues
    BY <1>1, <2>1, StepCalm
  <2> QED
    BY <2>2 DEF Serve, CalmStep, Starting
<1>4. CASE ServeUnusable(s)
  <2>1. CalmQueues
    BY <1>1, <1>4, MdEffects, StepCalm
  <2> QED
    BY <2>1 DEF Serve, CalmStep, Starting
<1> QED
  BY <1>3, <1>4 DEF Serve

LEMMA OtherSteps ==
  ASSUME IInv, Step
  PROVE  SignalStep \/ CalmStep
<1>1. TypeOK /\ PlaceInv /\ FrameInv
  BY DEF IInv
<1>2. "md" \in Engines /\ "cp" \in Engines /\ "td" \in Engines
  BY DEF Engines
<1>3. /\ "TradingStart" \notin Signals /\ "Termination" \notin Signals
      /\ "Order" \notin Signals /\ "Bar" \notin Signals /\ "Trade" \notin Signals
  BY DEF Signals
<1>4. CASE Quiet
  BY <1>1, <1>2, <1>4, StepCalm DEF Quiet, Same, CalmStep, Starting
<1>5. CASE CpNext
  <2>1. SignalStep \/ CalmQueues
    <3>1. CASE Begin
      <4>1. PICK m : Adds("md", m) /\ m.type \notin Signals
        BY <1>1, <1>3, <3>1, CpEffects, MsgTypes
      <4> QED
        BY <1>1, <1>2, <4>1, StepCalm
    <3>2. CASE StartTd \/ EndTd
      <4>1. PICK m : Adds("td", m) /\ m.type \notin Signals
        BY <1>1, <1>3, <3>2, CpEffects, MsgTypes
      <4> QED
        BY <1>1, <1>2, <4>1, StepCalm
    <3>3. CASE Prepare \/ Return \/ Stop
      BY <1>1, <1>2, <3>3, CpEffects, StepCalm
    <3>4. ASSUME NEW o \in Orders, NEW w \in Wanted, SendOrder(o, w)
          PROVE  CalmQueues
      <4>1. PICK m : Adds("td", m) /\ m.type \notin Signals
        BY <1>1, <1>3, <3>4, CpEffects, MsgTypes
      <4> QED
        BY <1>1, <1>2, <4>1, StepCalm
    <3>5. ASSUME NEW i, OnBar(i) \/ OnTrade(i)
          PROVE  CalmQueues
      <4>1. PICK types : Drops("cp", i, types) /\ types \cap Signals = {}
        BY <1>1, <1>3, <3>5, CpEffects
      <4> QED
        BY <1>1, <1>2, <4>1, StepCalm
    <3>6. ASSUME NEW i, OnTermination(i)
          PROVE  CalmQueues
      <4>1. PICK types, m : /\ Moves("cp", i, types, "md", m)
                            /\ types \cap Signals = {} /\ m.type \notin Signals
        BY <1>1, <1>3, <3>6, CpEffects, MsgTypes
      <4> QED
        BY <1>1, <1>2, <4>1, StepCalm
    <3> QED
      BY <1>5, <3>1, <3>2, <3>3, <3>4, <3>5, <3>6 DEF CpNext, SignalStep
  <2>2. \/ FirstSignal
        \/ /\ Starting' <=> Starting
           /\ pc'["md"] = pc["md"] /\ pc'["td"] = pc["td"]
    BY <1>1, <1>5
       DEF TypeOK, Engines, Goto, Starting, CpNext, Begin, StartTd, WriteTd, Prepare,
           FirstSignal, Return, EndTd, Stop, SendOrder, OnBar, OnTrade, OnData, OnMatch,
           OnTermination, HandleAndPublish, Handle, Take
  <2> QED
    BY <2>1, <2>2 DEF SignalStep, CalmStep
<1>6. CASE MdWork
  <2>1. ASSUME NEW i, MdStart(i) \/ MdStop(i)
        PROVE  CalmStep
    <3>1. PICK types : Drops("md", i, types) /\ types \cap Signals = {}
      BY <1>1, <1>3, <2>1, MdEffects
    <3>2. CalmQueues
      BY <1>1, <1>2, <3>1, StepCalm
    <3>3. pc["md"] = "idle"
      BY <3>1 DEF Drops
    <3> QED
      BY <1>1, <2>1, <3>2, <3>3
         DEF CalmStep, TypeOK, Engines, Goto, Starting, MdStart, MdStop
  <2>2. ASSUME NEW s \in Services, Serve(s)
        PROVE  CalmStep
    BY <2>2, ServeIsCalm
  <2> QED
    BY <1>6, <2>1, <2>2 DEF MdWork, SignalStep
<1>7. CASE TdWork
  <2>1. ASSUME NEW i, TdStart(i) \/ TdOrder(i) \/ TdStop(i)
        PROVE  CalmStep
    <3>1. PICK types : Drops("td", i, types) /\ types \cap Signals = {}
      BY <1>1, <1>3, <2>1, TdEffects
    <3>2. CalmQueues
      BY <1>1, <1>2, <3>1, StepCalm
    <3>3. pc["td"] = "idle"
      BY <3>1 DEF Drops
    <3> QED
      BY <1>1, <2>1, <3>2, <3>3
         DEF CalmStep, TypeOK, Engines, Goto, Starting, TdStart, TdOrder, TdStop
  <2>2. ASSUME NEW o \in Orders, Match(o)
        PROVE  CalmStep
    <3>1. CASE Fill(o)
      <4>1. PICK m : Adds("cp", m) /\ m.type \notin Signals
        BY <1>1, <1>3, <3>1, TdEffects, MsgTypes
      <4>2. CalmQueues
        BY <1>1, <1>2, <4>1, StepCalm
      <4> QED
        BY <2>2, <4>2 DEF Match, CalmStep, Starting
    <3>2. CASE NoFunds(o)
      <4>1. CalmQueues
        BY <1>1, <1>2, <3>2, TdEffects, StepCalm
      <4> QED
        BY <2>2, <4>1 DEF Match, CalmStep, Starting
    <3> QED
      BY <2>2, <3>1, <3>2 DEF Match
  <2> QED
    BY <1>7, <2>1, <2>2 DEF TdWork, SignalStep
<1> QED
  BY <1>4, <1>5, <1>6, <1>7 DEF Step

\* OneTurn in terms of queues.
OneSignal(q, places, starting) ==
  /\ \A e \in Engines : Single(q[e])
  /\ \A d, e \in Engines : d # e => ~ Holds(q[d], Signals) \/ ~ Holds(q[e], Signals)
  /\ (\E e \in Engines : Holds(q[e], Signals)) =>
       ~ starting /\ places["md"] # "serving" /\ places["td"] # "matching"
  /\ places["md"] = "serving" => ~ starting /\ places["td"] # "matching"
  /\ places["td"] = "matching" => ~ starting

LEMMA OneTurnIs ==
  /\ OneTurn <=> OneSignal(inbox, pc, Starting)
  /\ OneTurn' <=> OneSignal(inbox', pc', Starting')
<1>1. OneTurn <=> OneSignal(inbox, pc, Starting)
  BY DEF OneTurn, OneSignal, SignalsAt, Single, Holds
<1>2. OneTurn' <=> OneSignal(inbox', pc', Starting')
  BY DEF OneTurn, OneSignal, SignalsAt, Single, Holds
<1> QED
  BY <1>1, <1>2

LEMMA SignalTypes ==
  ASSUME NEW q
  PROVE  Holds(q, Signals) <=> Holds(q, {"MarketData"}) \/ Holds(q, {"MatchOrder"})
BY DEF Holds, Signals

\* One queue, when a signal is put behind it, and when its signal is taken.
LEMMA SignalPut ==
  ASSUME NEW q \in Seq(Frames), NEW m, NEW r, Added(q, m, r), m.type \in Signals,
         ~ Holds(q, Signals), Single(q)
  PROVE  /\ Single(r)
         /\ \A t \in Signals : Holds(r, {t}) <=> t = m.type
<1>1. Single(r)
  BY AddedHolds
<1>2. \A t \in Signals : Holds(r, {t}) <=> Holds(q, {t}) \/ m.type \in {t}
  BY AddedHolds
<1>3. \A t \in Signals : ~ Holds(q, {t})
  BY DEF Holds
<1> QED
  BY <1>1, <1>2, <1>3

LEMMA SignalTaken ==
  ASSUME NEW q \in Seq(Frames), NEW i, NEW r, Dropped(q, i, r), Single(q),
         NEW type \in Signals, q[i].type = type
  PROVE  /\ Single(r) /\ ~ Holds(r, Signals)
         /\ Holds(q, {type}) /\ Holds(q, Signals)
<1>1. Single(r) /\ ~ Holds(r, Signals)
  BY DroppedHolds
<1>2. i \in DOMAIN q
  BY DEF Dropped
<1> QED
  BY <1>1, <1>2 DEF Holds

\* What is at each engine after a step that has to do with a signal.
LEMMA SignalMoves ==
  ASSUME TypeOK, OneTurn, NEW e \in Engines, NEW i, NEW type \in Signals, NEW m
  PROVE  /\ Adds(e, m) /\ m.type = type /\ ~ (\E c \in Engines : Holds(inbox[c], Signals))
            => /\ \A c \in Engines : Single(inbox'[c])
               /\ \A c \in Engines \ {e} : ~ Holds(inbox'[c], Signals)
               /\ \A t \in Signals : Holds(inbox'[e], {t}) <=> t = type
         /\ Drops(e, i, {type})
            => /\ Holds(inbox[e], {type})
               /\ \A c \in Engines : Single(inbox'[c]) /\ ~ Holds(inbox'[c], Signals)
<1>1. \A c \in Engines : inbox[c] \in Seq(Frames)
  BY DEF TypeOK
<1>2. /\ \A c \in Engines : Single(inbox[c])
      /\ \A c, b \in Engines :
           c # b => ~ Holds(inbox[c], Signals) \/ ~ Holds(inbox[b], Signals)
  BY OneTurnIs DEF OneSignal
<1>5. ASSUME Adds(e, m), m.type = type, ~ (\E c \in Engines : Holds(inbox[c], Signals))
      PROVE  /\ \A c \in Engines : Single(inbox'[c])
             /\ \A c \in Engines \ {e} : ~ Holds(inbox'[c], Signals)
             /\ \A t \in Signals : Holds(inbox'[e], {t}) <=> t = type
  <2>1. PICK q, r : q \in Seq(Frames) /\ q = inbox[e] /\ r = inbox'[e]
    BY <1>1
  <2>2. Single(r) /\ \A t \in Signals : Holds(r, {t}) <=> t = type
    BY <1>2, SignalPut, <1>5, <2>1 DEF Adds
  <2> QED
    BY <1>2, <1>5, <2>1, <2>2 DEF Adds
<1>6. ASSUME Drops(e, i, {type})
      PROVE  /\ Holds(inbox[e], {type})
             /\ \A c \in Engines : Single(inbox'[c]) /\ ~ Holds(inbox'[c], Signals)
  <2>1. PICK q, r : q \in Seq(Frames) /\ q = inbox[e] /\ r = inbox'[e]
    BY <1>1
  <2>2. /\ Single(r) /\ ~ Holds(r, Signals)
        /\ Holds(q, {type}) /\ Holds(q, Signals)
    BY <1>2, SignalTaken, <1>6, <2>1 DEF Drops
  <2> QED
    BY <1>2, <1>6, <2>1, <2>2 DEF Drops
<1> QED
  BY <1>5, <1>6

LEMMA SignalPassed ==
  ASSUME TypeOK, OneTurn, NEW i, NEW type \in Signals, NEW d \in {"md", "td"}, NEW m,
         Moves("cp", i, {type}, d, m), m.type \in Signals
  PROVE  /\ Holds(inbox["cp"], {type})
         /\ \A c \in Engines : Single(inbox'[c])
         /\ \A c \in Engines \ {d} : ~ Holds(inbox'[c], Signals)
         /\ \A t \in Signals : Holds(inbox'[d], {t}) <=> t = m.type
<1>3. "cp" \in Engines /\ d \in Engines /\ d # "cp"
  BY DEF Engines
<1>1. \A c \in Engines : inbox[c] \in Seq(Frames)
  BY DEF TypeOK
<1>2. /\ \A c \in Engines : Single(inbox[c])
      /\ \A c, b \in Engines :
           c # b => ~ Holds(inbox[c], Signals) \/ ~ Holds(inbox[b], Signals)
  BY OneTurnIs DEF OneSignal
<1>4. PICK q, r : q \in Seq(Frames) /\ q = inbox["cp"] /\ r = inbox'["cp"]
  BY <1>1, <1>3
<1>5. PICK p, o : p \in Seq(Frames) /\ p = inbox[d] /\ o = inbox'[d]
  BY <1>1, <1>3
<1>6. Dropped(q, i, r) /\ q[i].type = type /\ Added(p, m, o)
  BY <1>4, <1>5 DEF Moves
<1>7. /\ Single(r) /\ ~ Holds(r, Signals)
      /\ Holds(q, {type}) /\ Holds(q, Signals)
  BY <1>2, <1>3, <1>4, <1>6, SignalTaken
<1>8. ~ Holds(p, Signals) /\ Single(p)
  BY <1>2, <1>3, <1>4, <1>5, <1>7
<1>9. Single(o) /\ \A t \in Signals : Holds(o, {t}) <=> t = m.type
  BY <1>4, <1>5, <1>6, <1>8, SignalPut
<1>10. \A c \in Engines \ {d, "cp"} :
         inbox'[c] = inbox[c] /\ ~ Holds(inbox[c], Signals) /\ Single(inbox[c])
  BY <1>2, <1>3, <1>4, <1>7 DEF Moves
<1> QED
  BY <1>4, <1>5, <1>7, <1>9, <1>10

\* The seven steps with a signal: where it was, and where it is.
SignalAt(e, t) ==
  /\ \A c \in Engines : Single(inbox'[c])
  /\ \A c \in Engines \ {e} : ~ Holds(inbox'[c], Signals)
  /\ \A u \in Signals : Holds(inbox'[e], {u}) <=> u = t

NoSignal == \A c \in Engines : Single(inbox'[c]) /\ ~ Holds(inbox'[c], Signals)

LEMMA SignalSteps ==
  ASSUME IInv
  PROVE  /\ FirstSignal => /\ Starting /\ ~ Starting' /\ SignalAt("md", "MarketData")
                           /\ UNCHANGED <<pc["md"], pc["td"], success>>
         /\ \A i : OnData(i) => /\ Holds(inbox["cp"], {"MarketData"})
                                /\ SignalAt("td", "MatchOrder")
                                /\ UNCHANGED <<pc, success>>
         /\ \A i : OnMatch(i) => /\ Holds(inbox["cp"], {"MatchOrder"})
                                 /\ SignalAt("md", "MarketData")
                                 /\ UNCHANGED <<pc, success>>
         /\ \A i : MdSignal(i) => /\ Holds(inbox["md"], {"MarketData"}) /\ NoSignal
                                  /\ pc'["md"] = "serving"
                                  /\ UNCHANGED <<pc["cp"], pc["td"]>>
         /\ MdAnswer => /\ pc["md"] = "serving" /\ pc'["md"] = "idle"
                        /\ IF success THEN SignalAt("cp", "MarketData")
                           ELSE NoSignal /\ Same
                        /\ UNCHANGED <<pc["cp"], pc["td"], success>>
         /\ \A i : TdSignal(i) => /\ Holds(inbox["td"], {"MatchOrder"}) /\ NoSignal
                                  /\ pc'["td"] = "matching"
                                  /\ UNCHANGED <<pc["cp"], pc["md"], success>>
         /\ TdAnswer => /\ pc["td"] = "matching" /\ pc'["td"] = "idle"
                        /\ SignalAt("cp", "MatchOrder")
                        /\ UNCHANGED <<pc["cp"], pc["md"], success>>
<1>1. TypeOK /\ PlaceInv /\ FrameInv /\ OneTurn
  BY DEF IInv
<1>2. "md" \in Engines /\ "cp" \in Engines /\ "td" \in Engines
  BY DEF Engines
<1>3. "MarketData" \in Signals /\ "MatchOrder" \in Signals
  BY DEF Signals
<1>4. OneSignal(inbox, pc, Starting)
  BY <1>1, OneTurnIs
<1>5. pc \in [Engines -> {"new", "starting", "preparing", "idle", "strategies",
                         "serving", "matching", "ending", "stopped", "crashed"}]
  BY <1>1 DEF TypeOK
<1>6. ASSUME FirstSignal
      PROVE  /\ Starting /\ ~ Starting' /\ SignalAt("md", "MarketData")
             /\ UNCHANGED <<pc["md"], pc["td"], success>>
  <2>1. Starting /\ ~ Starting' /\ UNCHANGED <<pc["md"], pc["td"], success>>
    BY <1>2, <1>5, <1>6 DEF FirstSignal, Starting, Goto, loops
  <2>2. PICK m : Adds("md", m) /\ m.type = "MarketData"
    BY <1>1, <1>6, CpEffects, MsgTypes
  <2>3. SignalAt("md", "MarketData")
    BY <1>1, <1>2, <1>3, <1>4, <2>1, <2>2, SignalMoves DEF OneSignal, SignalAt
  <2> QED
    BY <2>1, <2>3
<1>7. ASSUME NEW i, OnData(i)
      PROVE  /\ Holds(inbox["cp"], {"MarketData"}) /\ SignalAt("td", "MatchOrder")
             /\ UNCHANGED <<pc, success>>
  <2>1. PICK m : Moves("cp", i, {"MarketData"}, "td", m) /\ m.type = "MatchOrder"
    BY <1>1, <1>7, CpEffects, MsgTypes
  <2>3. m.type \in Signals /\ "td" # "cp"
    BY <1>3, <2>1
  <2>4. /\ Holds(inbox["cp"], {"MarketData"})
        /\ \A c \in Engines : Single(inbox'[c])
        /\ \A c \in Engines \ {"td"} : ~ Holds(inbox'[c], Signals)
        /\ \A t \in Signals : Holds(inbox'["td"], {t}) <=> t = m.type
    BY <1>1, <1>3, <2>1, <2>3, SignalPassed
  <2>2. Holds(inbox["cp"], {"MarketData"}) /\ SignalAt("td", "MatchOrder")
    BY <2>1, <2>4 DEF SignalAt
  <2> QED
    BY <1>7, <2>2 DEF OnData, loops
<1>8. ASSUME NEW i, OnMatch(i)
      PROVE  /\ Holds(inbox["cp"], {"MatchOrder"}) /\ SignalAt("md", "MarketData")
             /\ UNCHANGED <<pc, success>>
  <2>1. PICK m : Moves("cp", i, {"MatchOrder"}, "md", m) /\ m.type = "MarketData"
    BY <1>1, <1>8, CpEffects, MsgTypes
  <2>3. m.type \in Signals /\ "md" # "cp"
    BY <1>3, <2>1
  <2>4. /\ Holds(inbox["cp"], {"MatchOrder"})
        /\ \A c \in Engines : Single(inbox'[c])
        /\ \A c \in Engines \ {"md"} : ~ Holds(inbox'[c], Signals)
        /\ \A t \in Signals : Holds(inbox'["md"], {t}) <=> t = m.type
    BY <1>1, <1>3, <2>1, <2>3, SignalPassed
  <2>2. Holds(inbox["cp"], {"MatchOrder"}) /\ SignalAt("md", "MarketData")
    BY <2>1, <2>4 DEF SignalAt
  <2> QED
    BY <1>8, <2>2 DEF OnMatch, loops
<1>9. ASSUME NEW i, MdSignal(i)
      PROVE  /\ Holds(inbox["md"], {"MarketData"}) /\ NoSignal
             /\ pc'["md"] = "serving" /\ UNCHANGED <<pc["cp"], pc["td"]>>
  <2>1. Drops("md", i, {"MarketData"})
    BY <1>1, <1>9, MdEffects
  <2>2. Holds(inbox["md"], {"MarketData"}) /\ NoSignal
    BY <1>1, <1>2, <1>3, <2>1, SignalMoves DEF NoSignal
  <2> QED
    BY <1>2, <1>5, <1>9, <2>2 DEF MdSignal, Goto
<1>10. ASSUME MdAnswer
       PROVE  /\ pc["md"] = "serving" /\ pc'["md"] = "idle"
              /\ IF success THEN SignalAt("cp", "MarketData") ELSE NoSignal /\ Same
              /\ UNCHANGED <<pc["cp"], pc["td"], success>>
  <2>1. /\ pc["md"] = "serving" /\ pc'["md"] = "idle"
        /\ UNCHANGED <<pc["cp"], pc["td"], success>>
    BY <1>2, <1>5, <1>10 DEF MdAnswer, Goto
  <2>2. CASE success
    <3>1. PICK m : Adds("cp", m) /\ m.type = "MarketData"
      BY <1>1, <1>10, <2>2, MdEffects, MsgTypes
    <3>2. SignalAt("cp", "MarketData")
      BY <1>1, <1>2, <1>3, <1>4, <2>1, <3>1, SignalMoves DEF OneSignal, SignalAt
    <3> QED
      BY <2>1, <2>2, <3>2
  <2>3. CASE ~ success
    <3>1. Same
      BY <1>1, <1>10, <2>3, MdEffects
    <3>2. NoSignal
      BY <1>4, <2>1, <3>1 DEF NoSignal, OneSignal, Same
    <3> QED
      BY <2>1, <2>3, <3>1, <3>2
  <2> QED
    BY <2>2, <2>3
<1>11. ASSUME NEW i, TdSignal(i)
       PROVE  /\ Holds(inbox["td"], {"MatchOrder"}) /\ NoSignal
              /\ pc'["td"] = "matching" /\ UNCHANGED <<pc["cp"], pc["md"], success>>
  <2>1. Drops("td", i, {"MatchOrder"})
    BY <1>1, <1>11, TdEffects
  <2>2. Holds(inbox["td"], {"MatchOrder"}) /\ NoSignal
    BY <1>1, <1>2, <1>3, <2>1, SignalMoves DEF NoSignal
  <2> QED
    BY <1>2, <1>5, <1>11, <2>2 DEF TdSignal, Goto
<1>12. ASSUME TdAnswer
       PROVE  /\ pc["td"] = "matching" /\ pc'["td"] = "idle"
              /\ SignalAt("cp", "MatchOrder")
              /\ UNCHANGED <<pc["cp"], pc["md"], success>>
  <2>1. /\ pc["td"] = "matching" /\ pc'["td"] = "idle"
        /\ UNCHANGED <<pc["cp"], pc["md"], success>>
    BY <1>2, <1>5, <1>12 DEF TdAnswer, Goto
  <2>2. PICK m : Adds("cp", m) /\ m.type = "MatchOrder"
    BY <1>1, <1>12, TdEffects, MsgTypes
  <2>3. SignalAt("cp", "MatchOrder")
    BY <1>1, <1>2, <1>3, <1>4, <2>1, <2>2, SignalMoves DEF OneSignal, SignalAt
  <2> QED
    BY <2>1, <2>3
<1> QED
  BY <1>6, <1>7, <1>8, <1>9, <1>10, <1>11, <1>12

LEMMA Turns_ ==
  ASSUME IInv, Step
  PROVE  OneTurn'
<1>1. TypeOK /\ PlaceInv /\ OneTurn /\ OneSignal(inbox, pc, Starting)
  BY OneTurnIs DEF IInv
<1>2. "md" \in Engines /\ "cp" \in Engines /\ "td" \in Engines
  BY DEF Engines
<1>3. "MarketData" \in Signals /\ "MatchOrder" \in Signals
  BY DEF Signals
<1>4. CASE CalmStep
  <2>1. \A e \in Engines : /\ Holds(inbox'[e], Signals) <=> Holds(inbox[e], Signals)
                           /\ Single(inbox[e]) => Single(inbox'[e])
    BY <1>3, <1>4, SignalTypes DEF CalmStep, CalmQueues, Calm
  <2>2. OneSignal(inbox', pc', Starting')
    BY <1>1, <1>4, <2>1 DEF OneSignal, CalmStep
  <2> QED
    BY <2>2, OneTurnIs
<1>5. CASE SignalStep
  <2>1. \A e \in Engines, t \in Signals : Holds(inbox[e], {t}) => Holds(inbox[e], Signals)
    BY <1>3, SignalTypes DEF Signals
  <2>2. CASE FirstSignal
    <3>1. /\ Starting /\ ~ Starting' /\ SignalAt("md", "MarketData")
          /\ UNCHANGED <<pc["md"], pc["td"]>>
      BY <2>2, SignalSteps
    <3>2. OneSignal(inbox', pc', Starting')
      BY <1>1, <3>1 DEF OneSignal, SignalAt
    <3> QED
      BY <3>2, OneTurnIs
  <2>3. ASSUME NEW i, OnData(i) \/ OnMatch(i)
        PROVE  OneTurn'
    <3>1. PICK t \in Signals, u \in Signals, d \in Engines :
            /\ Holds(inbox["cp"], {t}) /\ SignalAt(d, u) /\ UNCHANGED pc
      BY <1>2, <1>3, <2>3, SignalSteps
    <3>2. Starting' <=> Starting
      BY <3>1 DEF Starting
    <3>3. Holds(inbox["cp"], Signals)
      BY <1>2, <2>1, <3>1
    <3>4. OneSignal(inbox', pc', Starting')
      BY <1>1, <1>2, <3>1, <3>2, <3>3 DEF OneSignal, SignalAt
    <3> QED
      BY <3>4, OneTurnIs
  <2>4. ASSUME NEW i, MdSignal(i)
        PROVE  OneTurn'
    <3>1. /\ Holds(inbox["md"], {"MarketData"}) /\ NoSignal
          /\ UNCHANGED <<pc["cp"], pc["td"]>>
      BY <2>4, SignalSteps
    <3>2. Starting' <=> Starting
      BY <3>1 DEF Starting
    <3>3. Holds(inbox["md"], Signals)
      BY <1>2, <1>3, <2>1, <3>1
    <3>4. OneSignal(inbox', pc', Starting')
      BY <1>1, <1>2, <3>1, <3>2, <3>3 DEF OneSignal, NoSignal
    <3> QED
      BY <3>4, OneTurnIs
  <2>5. CASE MdAnswer
    <3>1. /\ pc["md"] = "serving" /\ pc'["md"] = "idle"
          /\ SignalAt("cp", "MarketData") \/ NoSignal
          /\ UNCHANGED <<pc["cp"], pc["td"]>>
      BY <2>5, SignalSteps
    <3>2. Starting' <=> Starting
      BY <3>1 DEF Starting
    <3>3. OneSignal(inbox', pc', Starting')
      BY <1>1, <1>2, <3>1, <3>2 DEF OneSignal, SignalAt, NoSignal
    <3> QED
      BY <3>3, OneTurnIs
  <2>6. ASSUME NEW i, TdSignal(i)
        PROVE  OneTurn'
    <3>1. /\ Holds(inbox["td"], {"MatchOrder"}) /\ NoSignal
          /\ UNCHANGED <<pc["cp"], pc["md"]>>
      BY <2>6, SignalSteps
    <3>2. Starting' <=> Starting
      BY <3>1 DEF Starting
    <3>3. Holds(inbox["td"], Signals)
      BY <1>2, <1>3, <2>1, <3>1
    <3>4. OneSignal(inbox', pc', Starting')
      BY <1>1, <1>2, <3>1, <3>2, <3>3 DEF OneSignal, NoSignal
    <3> QED
      BY <3>4, OneTurnIs
  <2>7. CASE TdAnswer
    <3>1. /\ pc["td"] = "matching" /\ pc'["td"] = "idle"
          /\ SignalAt("cp", "MatchOrder")
          /\ UNCHANGED <<pc["cp"], pc["md"]>>
      BY <2>7, SignalSteps
    <3>2. Starting' <=> Starting
      BY <3>1 DEF Starting
    <3>3. OneSignal(inbox', pc', Starting')
      BY <1>1, <1>2, <3>1, <3>2 DEF OneSignal, SignalAt
    <3> QED
      BY <3>3, OneTurnIs
  <2> QED
    BY <1>5, <2>2, <2>3, <2>4, <2>5, <2>6, <2>7 DEF SignalStep
<1> QED
  BY <1>4, <1>5, OtherSteps

-----------------------------------------------------------------------------
\* The end of the data

WaitsEnd(q, place) ==
  Holds(q, {"Termination"}) \/ place \in {"ending", "stopped", "crashed"}

LEMMA EndedIs ==
  /\ Ended <=> WaitsEnd(inbox["cp"], pc["cp"])
  /\ Ended' <=> WaitsEnd(inbox'["cp"], pc'["cp"])
BY DEF Ended, WaitsEnd, Waits, Holds

\* The end comes with the Termination of a service, and stays.
LEMMA EndedStays ==
  ASSUME IInv, Step
  PROVE  /\ Ended => Ended'
         /\ Ended' => Ended \/ (\E s \in Services : Serve(s) /\ ServeEnd(s))
<1>1. TypeOK /\ PlaceInv /\ FrameInv
  BY DEF IInv
<1>2. /\ "md" \in Engines /\ "cp" \in Engines /\ "td" \in Engines
      /\ inbox["cp"] \in Seq(Frames)
  BY <1>1 DEF Engines, TypeOK
<1>3. PICK q, r : q \in Seq(Frames) /\ q = inbox["cp"] /\ r = inbox'["cp"]
  BY <1>2
<1> DEFINE was == Holds(q, {"Termination"})
           is == Holds(r, {"Termination"})
<1>4. /\ Ended <=> was \/ pc["cp"] \in {"ending", "stopped", "crashed"}
      /\ Ended' <=> is \/ pc'["cp"] \in {"ending", "stopped", "crashed"}
  BY <1>3, EndedIs DEF WaitsEnd
<1>5. ASSUME NEW m, NEW type, Added(q, m, r), m.type = type, type # "Termination"
      PROVE  was <=> is
  BY <1>3, <1>5, AddedHolds
<1>6. ASSUME NEW i, Dropped(q, i, r), q[i].type # "Termination"
      PROVE  was <=> is
  BY <1>3, <1>6, DroppedHolds
<1>7. CASE Quiet
  BY <1>3, <1>4, <1>7 DEF Quiet
<1>8. CASE CpNext
  <2>1. CASE \/ Begin \/ StartTd \/ FirstSignal \/ EndTd \/ Prepare \/ Return \/ Stop
             \/ \E o \in Orders, w \in Wanted : SendOrder(o, w)
    <3>1. r = q
      BY <1>1, <1>2, <1>3, <2>1, CpEffects DEF Adds, Same
    <3>2. pc'["cp"] \in {"ending", "stopped", "crashed"} <=> pc["cp"] \in {"ending", "stopped", "crashed"}
      BY <1>1, <1>2, <2>1
         DEF TypeOK, Goto, Begin, StartTd, WriteTd, Prepare, FirstSignal, Return,
             EndTd, Stop, SendOrder
    <3> QED
      BY <1>4, <3>1, <3>2
  <2>2. ASSUME NEW i, OnBar(i) \/ OnTrade(i) \/ OnData(i) \/ OnMatch(i)
        PROVE  (Ended => Ended') /\ (Ended' => Ended)
    <3>1. /\ Dropped(q, i, r) /\ q[i].type # "Termination"
          /\ pc["cp"] = "idle"
      BY <1>1, <1>2, <1>3, <2>2, CpEffects DEF Drops, Moves
    <3>2. was <=> is
      BY <1>6, <3>1
    <3>3. pc'["cp"] \notin {"ending", "stopped", "crashed"}
      BY <1>1, <1>2, <2>2, <3>1 DEF TypeOK, Goto, OnBar, OnTrade, OnData, OnMatch
    <3> QED
      BY <1>4, <3>1, <3>2, <3>3
  <2>3. ASSUME NEW i, OnTermination(i)
        PROVE  Ended /\ Ended'
    <3>1. /\ Dropped(q, i, r) /\ i \in DOMAIN q /\ q[i].type = "Termination"
      BY <1>1, <1>2, <1>3, <2>3, CpEffects DEF Moves
    <3>2. was
      BY <3>1 DEF Holds
    <3>3. pc'["cp"] = "ending"
      BY <1>1, <1>2, <2>3 DEF TypeOK, Goto, OnTermination
    <3> QED
      BY <1>4, <3>2, <3>3
  <2> QED
    BY <1>8, <2>1, <2>2, <2>3 DEF CpNext
<1>9. CASE MdWork
  <2>1. pc'["cp"] = pc["cp"]
    BY <1>1, <1>2, <1>9 DEF TypeOK, Goto, MdWork, MdAnswer, Serve, MdStart, MdSignal, MdStop
  <2>2. ASSUME NEW i, MdStart(i) \/ MdSignal(i) \/ MdStop(i)
        PROVE  r = q
    BY <1>1, <1>2, <1>3, <2>2, MdEffects DEF Drops
  <2>3. ASSUME NEW s \in Services, ServeBar(s) \/ ServeUnusable(s)
        PROVE  was <=> is
    <3>1. CASE ServeUnusable(s)
      BY <1>1, <1>3, <3>1, MdEffects DEF Same
    <3>2. CASE ServeBar(s)
      <4>1. PICK m : Adds("cp", m) /\ m.type = "Bar"
        BY <1>1, <3>2, MdEffects, MsgTypes
      <4> QED
        BY <1>3, <1>5, <4>1 DEF Adds
    <3> QED
      BY <2>3, <3>1, <3>2
  <2>4. ASSUME NEW s \in Services, ServeEnd(s)
        PROVE  is
    <3>1. PICK m : Adds("cp", m) /\ m.type = "Termination"
      BY <1>1, <2>4, MdEffects, MsgTypes
    <3>2. Added(q, m, r) /\ m.type \in {"Termination"}
      BY <1>3, <3>1 DEF Adds
    <3> QED
      BY <1>3, <3>2, AddedHolds
  <2>5. CASE MdAnswer
    <3>1. CASE success
      <4>1. PICK m : Adds("cp", m) /\ m.type = "MarketData"
        BY <1>1, <2>5, <3>1, MdEffects, MsgTypes
      <4>2. was <=> is
        BY <1>3, <1>5, <4>1 DEF Adds
      <4> QED
        BY <1>4, <2>1, <4>2
    <3>2. CASE ~ success
      BY <1>1, <1>3, <1>4, <2>1, <2>5, <3>2, MdEffects DEF Same
    <3> QED
      BY <3>1, <3>2
  <2> QED
    BY <1>4, <1>9, <2>1, <2>2, <2>3, <2>4, <2>5 DEF MdWork, Serve
<1>10. CASE TdWork
  <2>1. pc'["cp"] = pc["cp"]
    BY <1>1, <1>2, <1>10
       DEF TypeOK, Goto, TdWork, TdAnswer, Match, TdStart, TdOrder, TdSignal, TdStop
  <2>2. ASSUME NEW i, TdStart(i) \/ TdOrder(i) \/ TdSignal(i) \/ TdStop(i)
        PROVE  r = q
    BY <1>1, <1>2, <1>3, <2>2, TdEffects DEF Drops
  <2>3. ASSUME NEW o \in Orders, Match(o)
        PROVE  was <=> is
    <3>1. CASE NoFunds(o)
      BY <1>1, <1>3, <3>1, TdEffects DEF Same
    <3>2. CASE Fill(o)
      <4>1. PICK m : Adds("cp", m) /\ m.type = "Trade"
        BY <1>1, <3>2, TdEffects, MsgTypes
      <4> QED
        BY <1>3, <1>5, <4>1 DEF Adds
    <3> QED
      BY <2>3, <3>1, <3>2 DEF Match
  <2>4. CASE TdAnswer
    <3>1. PICK m : Adds("cp", m) /\ m.type = "MatchOrder"
      BY <1>1, <2>4, TdEffects, MsgTypes
    <3>2. was <=> is
      BY <1>3, <1>5, <3>1 DEF Adds
    <3> QED
      BY <1>4, <2>1, <3>2
  <2> QED
    BY <1>4, <1>10, <2>1, <2>2, <2>3, <2>4 DEF TdWork
<1> QED
  BY <1>7, <1>8, <1>9, <1>10 DEF Step

EndOf(q, places, starting, more) ==
  /\ ~ starting /\ places["td"] # "matching"
  /\ \A e \in Engines : ~ Holds(q[e], Signals)
  /\ places["md"] = "serving" => ~ more

LEMMA EndInvIs ==
  /\ EndInv <=> (Ended => EndOf(inbox, pc, Starting, success))
  /\ EndInv' <=> (Ended' => EndOf(inbox', pc', Starting', success'))
<1>1. EndInv <=> (Ended => EndOf(inbox, pc, Starting, success))
  BY DEF EndInv, EndOf, SignalsAt, Holds
<1>2. EndInv' <=> (Ended' => EndOf(inbox', pc', Starting', success'))
  BY DEF EndInv, EndOf, SignalsAt, Holds
<1> QED
  BY <1>1, <1>2

LEMMA SuccessChanges ==
  ASSUME Step, success' # success
  PROVE  success' = FALSE \/ \E i \in DOMAIN inbox["md"] : MdSignal(i)
BY DEF Step, Quiet, loops, CpNext, Begin, StartTd, WriteTd, Prepare, FirstSignal, Return, EndTd,
       Stop, SendOrder, OnBar, OnTrade, OnData, OnMatch, OnTermination,
       MdWork, MdAnswer, Serve, ServeBar, ServeUnusable, ServeEnd, MdStart, MdStop,
       TdWork, TdAnswer, Match, TdStart, TdOrder, TdSignal, TdStop

LEMMA Ends_ ==
  ASSUME IInv, Step
  PROVE  EndInv'
<1>1. TypeOK /\ PlaceInv /\ EndInv /\ OneSignal(inbox, pc, Starting)
  BY OneTurnIs DEF IInv
<1>2. /\ "md" \in Engines /\ "cp" \in Engines /\ "td" \in Engines
      /\ "MarketData" \in Signals /\ "MatchOrder" \in Signals
  BY DEF Engines, Signals
<1> SUFFICES ASSUME Ended'
             PROVE  EndOf(inbox', pc', Starting', success')
  BY EndInvIs
<1>3. ASSUME CalmStep
      PROVE  \A e \in Engines : Holds(inbox'[e], Signals) <=> Holds(inbox[e], Signals)
  BY <1>2, <1>3, SignalTypes DEF CalmStep, CalmQueues, Calm
<1>4. ASSUME NEW s \in Services, Serve(s), ServeEnd(s)
      PROVE  EndOf(inbox', pc', Starting', success')
  <2>1. CalmStep /\ pc["md"] = "serving" /\ ~ success'
    BY <1>4, ServeIsCalm DEF Serve, ServeEnd
  <2> QED
    BY <1>1, <1>3, <2>1 DEF EndOf, CalmStep, OneSignal
<1>5. CASE Ended
  <2>1. EndOf(inbox, pc, Starting, success)
    BY <1>1, <1>5, EndInvIs
  <2>2. \A e \in Engines, t \in Signals : ~ Holds(inbox[e], {t})
    BY <1>2, <2>1, SignalTypes DEF EndOf, Signals
  <2>3. \A i : ~ OnData(i) /\ ~ OnMatch(i) /\ ~ MdSignal(i) /\ ~ TdSignal(i)
    BY <1>2, <2>2, SignalSteps
  <2>4. ~ FirstSignal /\ ~ TdAnswer
    BY <2>1, SignalSteps DEF EndOf
  <2>5. CASE CalmStep
    <3>1. success' = success \/ ~ success'
      BY <2>3, SuccessChanges
    <3> QED
      BY <1>3, <2>1, <2>5, <3>1 DEF EndOf, CalmStep
  <2>6. CASE MdAnswer
    <3>1. ~ success
      BY <2>1, <2>6 DEF MdAnswer, EndOf
    <3>2. NoSignal /\ pc'["md"] = "idle" /\ UNCHANGED <<pc["cp"], pc["td"]>>
      BY <2>6, <3>1, SignalSteps
    <3>3. Starting' <=> Starting
      BY <3>2 DEF Starting
    <3> QED
      BY <2>1, <3>2, <3>3 DEF EndOf, NoSignal
  <2> QED
    BY <2>3, <2>4, <2>5, <2>6, OtherSteps DEF SignalStep
<1> QED
  BY <1>4, <1>5, EndedStays

-----------------------------------------------------------------------------
\* Trades

\* The queue of cp: every Trade stands before the MatchOrder of its round.
TradesBefore(q, matching) ==
  \A i \in DOMAIN q : q[i].type = "Trade" =>
    matching \/ \E j \in DOMAIN q : j > i /\ q[j].type = "MatchOrder"

LEMMA TradeInvIs ==
  /\ TradeInv <=> TradesBefore(inbox["cp"], pc["td"] = "matching")
  /\ TradeInv' <=> TradesBefore(inbox'["cp"], pc'["td"] = "matching")
BY DEF TradeInv, TradesBefore

LEMMA AddedTrades ==
  ASSUME NEW q \in Seq(Frames), NEW m, NEW r, NEW matching \in BOOLEAN, Added(q, m, r),
         TradesBefore(q, matching), m.type = "Trade" => matching
  PROVE  /\ TradesBefore(r, matching)
         /\ m.type = "MatchOrder" => TradesBefore(r, FALSE)
<1>1. /\ DOMAIN r = 1 .. (Len(q) + 1) /\ DOMAIN q = 1 .. Len(q) /\ Len(q) \in Nat
      /\ \A k \in 1 .. Len(q) : r[k] = q[k]
      /\ r[Len(q) + 1].type = m.type
  BY DEF Added, Alike
<1>2. TradesBefore(r, matching)
  BY <1>1 DEF TradesBefore
<1>3. m.type = "MatchOrder" => TradesBefore(r, FALSE)
  BY <1>1 DEF TradesBefore
<1> QED
  BY <1>2, <1>3

LEMMA DroppedTrades ==
  ASSUME NEW q \in Seq(Frames), NEW i, NEW r, NEW matching \in BOOLEAN, Dropped(q, i, r),
         TradesBefore(q, matching), q[i].type # "MatchOrder"
  PROVE  TradesBefore(r, matching)
<1>1. /\ DOMAIN r = 1 .. (Len(q) - 1) /\ DOMAIN q = 1 .. Len(q)
      /\ Len(q) \in Nat \ {0} /\ Len(r) = Len(q) - 1 /\ i \in 1 .. Len(q)
  BY DEF Dropped
<1>2. \A k \in DOMAIN r : Old(i, k) \in DOMAIN q /\ r[k].type = q[Old(i, k)].type
  BY <1>1 DEF Old, Dropped, Alike
<1>3. \A k \in DOMAIN q : k # i => /\ New(i, k) \in DOMAIN r
                                   /\ r[New(i, k)].type = q[k].type
  BY <1>1 DEF New, Dropped, Alike
<1> SUFFICES ASSUME NEW k \in DOMAIN r, r[k].type = "Trade", ~ matching
             PROVE  \E j \in DOMAIN r : j > k /\ r[j].type = "MatchOrder"
  BY DEF TradesBefore
<1>4. PICK j \in DOMAIN q : j > Old(i, k) /\ q[j].type = "MatchOrder"
  BY <1>2 DEF TradesBefore
<1>5. j # i /\ New(i, j) > k
  BY <1>1, <1>4 DEF New, Old
<1> QED
  BY <1>3, <1>4, <1>5

\* A MatchOrder that may be handled has no Trade before it, and so none is left.
LEMMA MatchIsLast ==
  ASSUME FrameInv, NEW i \in Due(inbox["cp"]), inbox["cp"][i].type = "MatchOrder",
         Single(inbox["cp"]), inbox["cp"] \in Seq(Frames),
         TradesBefore(inbox["cp"], FALSE)
  PROVE  ~ Holds(inbox["cp"], {"Trade"})
<1>1. PICK q \in Seq(Frames) : q = inbox["cp"]
  OBVIOUS
<1>2. i \in DOMAIN q /\ \A j \in 1 .. (i - 1) : q[j].on # q[i].on
  <2>1. /\ i \in DOMAIN q
        /\ \A j \in 1 .. (i - 1) : q[j].on = q[i].on => q[j].fate = "skipped"
    BY <1>1 DEF Due
  <2>2. \A j \in DOMAIN q : q[j].fate # "skipped"
    BY <1>1 DEF FrameInv
  <2>3. \A j \in 1 .. (i - 1) : j \in DOMAIN q
    BY <2>1
  <2> QED
    BY <2>1, <2>2, <2>3
<1>3. \A j \in DOMAIN q : q[j].type \in {"Trade", "MatchOrder"} => q[j].on = "TdResp"
  BY <1>1 DEF FrameInv
<1>4. \A j \in DOMAIN q : q[j].type = "MatchOrder" => j = i
  BY <1>1, <1>2 DEF Single, Signals
<1>5. DOMAIN q = 1 .. Len(q) /\ Len(q) \in Nat
  OBVIOUS
<1> SUFFICES ASSUME NEW k \in DOMAIN q, q[k].type = "Trade"
             PROVE  FALSE
  BY <1>1 DEF Holds
<1>6. PICK j \in DOMAIN q : j > k /\ q[j].type = "MatchOrder"
  BY <1>1 DEF TradesBefore
<1>7. k \in 1 .. (i - 1)
  BY <1>2, <1>4, <1>5, <1>6
<1> QED
  BY <1>1, <1>2, <1>3, <1>7

\* What a step may do to the queue of cp, and to the place of td.
LEMMA CpQueue ==
  ASSUME IInv, Step
  PROVE  \/ /\ inbox'["cp"] = inbox["cp"]
            /\ pc["td"] = "matching" => pc'["td"] = "matching"
         \/ \E m :
              /\ Added(inbox["cp"], m, inbox'["cp"])
              /\ \/ /\ m.type \in {"Bar", "Termination"} /\ m.on \in Services
                    /\ pc["md"] = "serving" /\ pc'["td"] = pc["td"]
                 \/ /\ m.type = "MarketData" /\ pc["md"] = "serving"
                    /\ pc'["td"] = pc["td"]
                 \/ /\ m.type = "Trade" /\ m.order \in toMatch /\ pc["td"] = "matching"
                    /\ pc'["td"] = "matching"
                    /\ order' = [order EXCEPT ![m.order] = "filled"]
                 \/ m.type = "MatchOrder" /\ TdAnswer
         \/ \E i \in Due(inbox["cp"]) :
              /\ Dropped(inbox["cp"], i, inbox'["cp"])
              /\ UNCHANGED <<pc["td"], pc["md"]>>
              /\ \/ inbox["cp"][i].type \in {"Bar", "MatchOrder", "Termination"}
                 \/ inbox["cp"][i].type = "Trade" /\ OnTrade(i)
                 \/ inbox["cp"][i].type = "MarketData" /\ OnData(i)
<1>1. TypeOK /\ PlaceInv /\ FrameInv
  BY DEF IInv
<1>2. "md" \in Engines /\ "cp" \in Engines /\ "td" \in Engines
  BY DEF Engines
<1>3. pc \in [Engines -> {"new", "starting", "preparing", "idle", "strategies",
                         "serving", "matching", "ending", "stopped", "crashed"}]
  BY <1>1 DEF TypeOK
<1>4. CASE Quiet
  BY <1>4 DEF Quiet
<1>5. CASE CpNext
  <2>1. pc'["td"] = pc["td"] /\ pc'["md"] = pc["md"]
    BY <1>2, <1>3, <1>5
       DEF Goto, CpNext, Begin, StartTd, WriteTd, Prepare, FirstSignal, Return, EndTd,
           Stop, SendOrder, OnBar, OnTrade, OnData, OnMatch, OnTermination
  <2>2. CASE \/ Begin \/ StartTd \/ FirstSignal \/ EndTd \/ Prepare \/ Return \/ Stop
             \/ \E o \in Orders, w \in Wanted : SendOrder(o, w)
    <3>1. inbox'["cp"] = inbox["cp"]
      BY <1>1, <1>2, <2>2, CpEffects DEF Adds, Same
    <3> QED
      BY <2>1, <3>1
  <2>3. ASSUME NEW i, OnBar(i) \/ OnTrade(i) \/ OnData(i) \/ OnMatch(i) \/ OnTermination(i)
        PROVE  /\ i \in Due(inbox["cp"]) /\ Dropped(inbox["cp"], i, inbox'["cp"])
               /\ \/ inbox["cp"][i].type \in {"Bar", "MatchOrder", "Termination"}
                  \/ inbox["cp"][i].type = "Trade" /\ OnTrade(i)
                  \/ inbox["cp"][i].type = "MarketData" /\ OnData(i)
    <3>1. CASE OnBar(i) \/ OnTrade(i)
      BY <1>1, <3>1, CpEffects DEF Drops
    <3>2. CASE OnData(i) \/ OnMatch(i) \/ OnTermination(i)
      BY <1>1, <3>2, CpEffects DEF Moves
    <3> QED
      BY <2>3, <3>1, <3>2
  <2> QED
    BY <1>5, <2>1, <2>2, <2>3 DEF CpNext
<1>6. CASE MdWork
  <2>1. pc'["td"] = pc["td"]
    BY <1>2, <1>3, <1>6 DEF Goto, MdWork, MdAnswer, Serve, MdStart, MdSignal, MdStop
  <2>2. ASSUME NEW i, MdStart(i) \/ MdSignal(i) \/ MdStop(i)
        PROVE  inbox'["cp"] = inbox["cp"]
    BY <1>1, <1>2, <2>2, MdEffects DEF Drops
  <2>3. ASSUME NEW s \in Services, Serve(s)
        PROVE  \/ inbox'["cp"] = inbox["cp"]
               \/ \E m : /\ Added(inbox["cp"], m, inbox'["cp"])
                         /\ m.type \in {"Bar", "Termination"} /\ m.on \in Services
                         /\ pc["md"] = "serving"
    <3>1. CASE ServeUnusable(s)
      BY <1>1, <3>1, MdEffects DEF Same
    <3>2. CASE ServeBar(s) \/ ServeEnd(s)
      <4>1. PICK m : Adds("cp", m) /\ m.type \in {"Bar", "Termination"} /\ m.on = s
        BY <1>1, <3>2, MdEffects, MsgTypes
      <4> QED
        BY <2>3, <4>1 DEF Adds, Serve
    <3> QED
      BY <2>3, <3>1, <3>2 DEF Serve
  <2>4. CASE MdAnswer
    <3>1. CASE success
      <4>1. PICK m : Adds("cp", m) /\ m.type = "MarketData"
        BY <1>1, <2>4, <3>1, MdEffects, MsgTypes
      <4> QED
        BY <2>1, <2>4, <4>1 DEF Adds, MdAnswer
    <3>2. CASE ~ success
      BY <1>1, <2>1, <2>4, <3>2, MdEffects DEF Same
    <3> QED
      BY <3>1, <3>2
  <2> QED
    BY <1>6, <2>1, <2>2, <2>3, <2>4 DEF MdWork
<1>7. CASE TdWork
  <2>1. ASSUME NEW i, TdStart(i) \/ TdOrder(i) \/ TdSignal(i) \/ TdStop(i)
        PROVE  inbox'["cp"] = inbox["cp"] /\ pc["td"] # "matching"
    BY <1>1, <1>2, <2>1, TdEffects DEF Drops
  <2>2. ASSUME NEW o \in Orders, Match(o)
        PROVE  \/ inbox'["cp"] = inbox["cp"] /\ pc'["td"] = pc["td"]
               \/ \E m : /\ Added(inbox["cp"], m, inbox'["cp"])
                         /\ m.type = "Trade" /\ m.order \in toMatch
                         /\ pc["td"] = "matching" /\ pc'["td"] = "matching"
                         /\ order' = [order EXCEPT ![m.order] = "filled"]
    <3>1. CASE NoFunds(o)
      BY <1>1, <2>2, <3>1, TdEffects DEF Same, Match
    <3>2. CASE Fill(o)
      <4>1. PICK m : Adds("cp", m) /\ m.type = "Trade" /\ m.order = o
        BY <1>1, <3>2, TdEffects, MsgTypes
      <4> QED
        BY <2>2, <3>2, <4>1 DEF Adds, Match, Fill
    <3> QED
      BY <2>2, <3>1, <3>2 DEF Match
  <2>3. CASE TdAnswer
    <3>1. PICK m : Adds("cp", m) /\ m.type = "MatchOrder"
      BY <1>1, <2>3, TdEffects, MsgTypes
    <3> QED
      BY <2>3, <3>1 DEF Adds
  <2> QED
    BY <1>7, <2>1, <2>2, <2>3 DEF TdWork
<1> QED
  BY <1>4, <1>5, <1>6, <1>7 DEF Step

LEMMA Trades_ ==
  ASSUME IInv, Step
  PROVE  TradeInv'
<1>1. TypeOK /\ FrameInv /\ TradeInv /\ OneSignal(inbox, pc, Starting)
  BY OneTurnIs DEF IInv
<1>2. "cp" \in Engines /\ inbox["cp"] \in Seq(Frames)
  BY <1>1 DEF Engines, TypeOK
<1>3. PICK matching \in BOOLEAN, matchingNext \in BOOLEAN :
        /\ matching <=> pc["td"] = "matching"
        /\ matchingNext <=> pc'["td"] = "matching"
  OBVIOUS
<1>4. PICK q, r : q \in Seq(Frames) /\ q = inbox["cp"] /\ r = inbox'["cp"]
  BY <1>2
<1>5. TradesBefore(q, matching)
  BY <1>1, <1>3, <1>4, TradeInvIs DEF TradesBefore
<1> SUFFICES TradesBefore(r, matchingNext)
  BY <1>3, <1>4, TradeInvIs DEF TradesBefore
<1>6. ASSUME r = q, matching => matchingNext
      PROVE  TradesBefore(r, matchingNext)
  BY <1>5, <1>6 DEF TradesBefore
<1>7. ASSUME NEW m, Added(q, m, r),
             m.type = "MatchOrder" \/ matching = matchingNext,
             m.type = "Trade" => matching
      PROVE  TradesBefore(r, matchingNext)
  <2>2. q \in Seq(Frames) /\ Added(q, m, r) /\ (m.type = "Trade" => matching)
    BY <1>4, <1>7
  <2>1. TradesBefore(r, matching) /\ (m.type = "MatchOrder" => TradesBefore(r, FALSE))
    BY <1>5, <2>2, AddedTrades
  <2> QED
    BY <1>7, <2>1 DEF TradesBefore
<1>8. ASSUME NEW i, Dropped(q, i, r), q[i].type # "MatchOrder", matching = matchingNext
      PROVE  TradesBefore(r, matchingNext)
  BY <1>4, <1>5, <1>8, DroppedTrades
<1>9. ASSUME NEW i \in Due(inbox["cp"]), Dropped(q, i, r), q[i].type = "MatchOrder"
      PROVE  TradesBefore(r, matchingNext)
  <2>1. i \in DOMAIN q
    BY <1>4, <1>9 DEF Due
  <2>2. Holds(q, Signals)
    BY <1>9, <2>1 DEF Holds, Signals
  <2>3. Single(q) /\ ~ matching
    BY <1>1, <1>2, <1>3, <1>4, <2>2 DEF OneSignal
  <2>4. TradesBefore(q, FALSE)
    BY <1>5, <2>3 DEF TradesBefore
  <2>5. ~ Holds(q, {"Trade"})
    BY <1>1, <1>4, <1>9, <2>3, <2>4, MatchIsLast
  <2>6. ~ Holds(r, {"Trade"})
    BY <1>4, <1>9, <2>5, DroppedHolds
  <2> QED
    BY <2>6 DEF Holds, TradesBefore
<1>10. \/ r = q /\ (matching => matchingNext)
       \/ \E m : /\ Added(q, m, r)
                 /\ m.type = "MatchOrder" \/ matching = matchingNext
                 /\ m.type = "Trade" => matching
       \/ \E i \in Due(inbox["cp"]) : Dropped(q, i, r) /\ matching = matchingNext
  BY <1>3, <1>4, CpQueue
<1> QED
  BY <1>6, <1>7, <1>8, <1>9, <1>10

-----------------------------------------------------------------------------
\* Bars

BarsBefore(q) ==
  \A i, j \in DOMAIN q : q[i].type = "Bar" /\ q[j].type = "MarketData" => i < j

TdBusy(q, place) == place = "matching" \/ Holds(q, Signals)

LEMMA BarInvIs ==
  /\ BarInv <=> /\ BarsBefore(inbox["cp"])
                /\ TdBusy(inbox["td"], pc["td"]) /\ ~ early =>
                     ~ Holds(inbox["cp"], {"Bar"})
  /\ BarInv' <=> /\ BarsBefore(inbox'["cp"])
                 /\ TdBusy(inbox'["td"], pc'["td"]) /\ ~ early' =>
                      ~ Holds(inbox'["cp"], {"Bar"})
BY DEF BarInv, BarsBefore, TdBusy, Waits, Holds

LEMMA AddedBars ==
  ASSUME NEW q \in Seq(Frames), NEW m, NEW r, Added(q, m, r), BarsBefore(q),
         m.type = "Bar" => ~ Holds(q, {"MarketData"})
  PROVE  BarsBefore(r)
<1>1. /\ DOMAIN r = 1 .. (Len(q) + 1) /\ DOMAIN q = 1 .. Len(q) /\ Len(q) \in Nat
      /\ \A k \in 1 .. Len(q) : r[k] = q[k]
      /\ r[Len(q) + 1].type = m.type
  BY DEF Added, Alike
<1> QED
  BY <1>1 DEF BarsBefore, Holds

LEMMA DroppedBars ==
  ASSUME NEW q \in Seq(Frames), NEW i, NEW r, Dropped(q, i, r), BarsBefore(q)
  PROVE  BarsBefore(r)
<1>1. /\ DOMAIN r = 1 .. (Len(q) - 1) /\ DOMAIN q = 1 .. Len(q)
      /\ Len(q) \in Nat \ {0} /\ Len(r) = Len(q) - 1 /\ i \in 1 .. Len(q)
  BY DEF Dropped
<1>2. \A k \in DOMAIN r : Old(i, k) \in DOMAIN q /\ r[k].type = q[Old(i, k)].type
  BY <1>1 DEF Old, Dropped, Alike
<1>3. \A j, k \in DOMAIN r : Old(i, j) < Old(i, k) => j < k
  BY <1>1 DEF Old
<1> QED
  BY <1>2, <1>3 DEF BarsBefore

\* td becomes busy by OnData only, which alone writes early.
LEMMA BusyStays ==
  ASSUME IInv, Step
  PROVE  \/ \E i : OnData(i)
         \/ /\ early' = early
            /\ TdBusy(inbox'["td"], pc'["td"]) => TdBusy(inbox["td"], pc["td"])
<1>1. "td" \in Engines /\ "MarketData" \in Signals /\ "MatchOrder" \in Signals
  BY DEF Engines, Signals
<1>2. early' = early \/ \E i : OnData(i)
  BY DEF Step, Quiet, loops, CpNext, Begin, StartTd, WriteTd, Prepare, FirstSignal, Return,
         EndTd, Stop, SendOrder, OnBar, OnTrade, OnMatch, OnTermination,
         MdWork, MdAnswer, Serve, MdStart, MdSignal, MdStop,
         TdWork, TdAnswer, Match, TdStart, TdOrder, TdSignal, TdStop
<1>3. CASE CalmStep
  <2>1. Holds(inbox'["td"], Signals) <=> Holds(inbox["td"], Signals)
    BY <1>1, <1>3, SignalTypes DEF CalmStep, CalmQueues, Calm
  <2> QED
    BY <1>2, <1>3, <2>1 DEF CalmStep, TdBusy
<1>4. CASE SignalStep
  <2>1. CASE FirstSignal
    BY <1>1, <1>2, <2>1, SignalSteps DEF SignalAt, TdBusy
  <2>2. ASSUME NEW i, OnMatch(i)
        PROVE  TdBusy(inbox'["td"], pc'["td"]) => TdBusy(inbox["td"], pc["td"])
    BY <1>1, <2>2, SignalSteps DEF SignalAt, TdBusy
  <2>3. ASSUME NEW i, MdSignal(i)
        PROVE  TdBusy(inbox'["td"], pc'["td"]) => TdBusy(inbox["td"], pc["td"])
    BY <1>1, <2>3, SignalSteps DEF NoSignal, TdBusy
  <2>4. CASE MdAnswer
    BY <1>1, <1>2, <2>4, SignalSteps DEF SignalAt, NoSignal, TdBusy
  <2>5. ASSUME NEW i, TdSignal(i)
        PROVE  TdBusy(inbox["td"], pc["td"])
    <3>1. Holds(inbox["td"], {"MatchOrder"})
      BY <2>5, SignalSteps
    <3> QED
      BY <1>1, <3>1 DEF TdBusy, Holds
  <2>6. CASE TdAnswer
    BY <1>1, <1>2, <2>6, SignalSteps DEF SignalAt, TdBusy
  <2> QED
    BY <1>2, <1>4, <2>1, <2>2, <2>3, <2>4, <2>5, <2>6 DEF SignalStep
<1> QED
  BY <1>3, <1>4, OtherSteps

LEMMA Bars_ ==
  ASSUME IInv, Step
  PROVE  BarInv'
<1>1. TypeOK /\ BarInv /\ OneSignal(inbox, pc, Starting)
  BY OneTurnIs DEF IInv
<1>2. /\ "cp" \in Engines /\ "td" \in Engines /\ inbox["cp"] \in Seq(Frames)
      /\ "MarketData" \in Signals
  BY <1>1 DEF Engines, TypeOK, Signals
<1>3. PICK q, r : q \in Seq(Frames) /\ q = inbox["cp"] /\ r = inbox'["cp"]
  BY <1>2
<1>4. BarsBefore(q)
  BY <1>1, <1>3, BarInvIs
<1>5. pc["md"] = "serving" => /\ ~ Holds(q, {"MarketData"})
                              /\ ~ TdBusy(inbox["td"], pc["td"])
  <2>1. \A e \in Engines : pc["md"] = "serving" => ~ Holds(inbox[e], Signals)
    BY <1>1 DEF OneSignal
  <2> QED
    BY <1>1, <1>2, <1>3, <2>1, SignalTypes DEF OneSignal, TdBusy
<1>6. \/ r = q
      \/ \E m : /\ Added(q, m, r)
                /\ m.type = "Bar" => pc["md"] = "serving"
      \/ \E i : Dropped(q, i, r)
  BY <1>3, CpQueue
<1>7. BarsBefore(r)
  BY <1>3, <1>4, <1>5, <1>6, AddedBars, DroppedBars
<1>8. ASSUME TdBusy(inbox'["td"], pc'["td"]), ~ early'
      PROVE  ~ Holds(r, {"Bar"})
  <2>1. CASE \E i : OnData(i)
    <3>1. PICK i : OnData(i)
      BY <2>1
    <3>2. i = 1
      BY <1>8, <3>1 DEF OnData
    <3>3. PICK m : Moves("cp", i, {"MarketData"}, "td", m)
      BY <1>1, <3>1, CpEffects
    <3>4. i \in DOMAIN q /\ q[i].type = "MarketData" /\ Dropped(q, i, r)
      BY <1>3, <3>3 DEF Moves
    <3>5. ~ Holds(q, {"Bar"})
      BY <1>3, <1>4, <3>2, <3>4 DEF BarsBefore, Holds
    <3> QED
      BY <1>3, <3>4, <3>5, DroppedHolds
  <2>2. CASE ~ \E i : OnData(i)
    <3>1. TdBusy(inbox["td"], pc["td"]) /\ ~ early
      BY <1>8, <2>2, BusyStays
    <3>2. ~ Holds(q, {"Bar"})
      BY <1>1, <1>3, <3>1, BarInvIs
    <3>3. CASE r = q
      BY <3>2, <3>3
    <3>4. ASSUME NEW m, Added(q, m, r), m.type = "Bar" => pc["md"] = "serving"
          PROVE  ~ Holds(r, {"Bar"})
      <4>1. m.type \notin {"Bar"}
        BY <1>5, <3>1, <3>4
      <4> QED
        BY <1>3, <3>2, <3>4, <4>1, AddedHolds
    <3>5. ASSUME NEW i, Dropped(q, i, r)
          PROVE  ~ Holds(r, {"Bar"})
      BY <1>3, <3>2, <3>5, DroppedHolds
    <3> QED
      BY <1>6, <3>3, <3>4, <3>5
  <2> QED
    BY <2>1, <2>2
<1> QED
  BY <1>3, <1>7, <1>8, BarInvIs

-----------------------------------------------------------------------------
\* The start of td

LEMMA AddedStarts ==
  ASSUME NEW q \in Seq(Frames), NEW m, NEW r, Added(q, m, r), NEW begun \in BOOLEAN,
         OrdersAfter(q, begun),
         m.type = "Order" => begun \/ StartsBefore(q, Len(q) + 1)
  PROVE  /\ OrdersAfter(r, begun)
         /\ StartsBefore(q, Len(q) + 1) => StartsBefore(r, Len(r) + 1)
         /\ m.type = "TradingStart" /\ m.on = "Account" => StartsBefore(r, Len(r) + 1)
<1>1. /\ DOMAIN r = 1 .. (Len(q) + 1) /\ DOMAIN q = 1 .. Len(q) /\ Len(q) \in Nat
      /\ Len(r) = Len(q) + 1
      /\ \A k \in 1 .. Len(q) : r[k] = q[k]
      /\ r[Len(q) + 1].type = m.type /\ r[Len(q) + 1].on = m.on
  BY DEF Added, Alike
<1>2. \A n : StartsBefore(q, n) => StartsBefore(r, n)
  BY <1>1 DEF StartsBefore
<1>3. OrdersAfter(r, begun)
  <2> SUFFICES ASSUME NEW i \in DOMAIN r, r[i].type = "Order", ~ begun
               PROVE  StartsBefore(r, i)
    BY DEF OrdersAfter
  <2>1. CASE i \in DOMAIN q
    BY <1>1, <1>2, <2>1 DEF OrdersAfter
  <2>2. CASE i = Len(q) + 1
    BY <1>1, <1>2, <2>2
  <2> QED
    BY <1>1, <2>1, <2>2
<1>4. StartsBefore(q, Len(q) + 1) => StartsBefore(r, Len(r) + 1)
  BY <1>1 DEF StartsBefore
<1>5. m.type = "TradingStart" /\ m.on = "Account" => StartsBefore(r, Len(r) + 1)
  BY <1>1 DEF StartsBefore
<1> QED
  BY <1>3, <1>4, <1>5

LEMMA DroppedStarts ==
  ASSUME NEW q \in Seq(Frames), NEW i, NEW r, Dropped(q, i, r), NEW begun \in BOOLEAN,
         OrdersAfter(q, begun), q[i].type # "TradingStart"
  PROVE  /\ OrdersAfter(r, begun)
         /\ StartsBefore(q, Len(q) + 1) => StartsBefore(r, Len(r) + 1)
<1>1. /\ DOMAIN r = 1 .. (Len(q) - 1) /\ DOMAIN q = 1 .. Len(q)
      /\ Len(q) \in Nat \ {0} /\ Len(r) = Len(q) - 1 /\ i \in 1 .. Len(q)
  BY DEF Dropped
<1>2. \A k \in DOMAIN r : Old(i, k) \in DOMAIN q /\ r[k].type = q[Old(i, k)].type
  BY <1>1 DEF Old, Dropped, Alike
<1>3. \A k \in DOMAIN q : k # i => /\ New(i, k) \in DOMAIN r
                                   /\ r[New(i, k)].type = q[k].type
                                   /\ r[New(i, k)].on = q[k].on
  BY <1>1 DEF New, Dropped, Alike
<1>4. \A k \in DOMAIN r, j \in DOMAIN q : j # i /\ j < Old(i, k) => New(i, j) < k
  BY <1>1 DEF New, Old
<1>5. OrdersAfter(r, begun)
  <2> SUFFICES ASSUME NEW k \in DOMAIN r, r[k].type = "Order", ~ begun
               PROVE  StartsBefore(r, k)
    BY DEF OrdersAfter
  <2>1. StartsBefore(q, Old(i, k))
    BY <1>2 DEF OrdersAfter
  <2>2. PICK j \in DOMAIN q : /\ j < Old(i, k) /\ q[j].type = "TradingStart"
                              /\ q[j].on = "Account"
    BY <2>1 DEF StartsBefore
  <2>3. j # i
    BY <2>2
  <2> QED
    BY <1>3, <1>4, <2>2, <2>3 DEF StartsBefore
<1>6. ASSUME StartsBefore(q, Len(q) + 1)
      PROVE  StartsBefore(r, Len(r) + 1)
  <2>1. PICK j \in DOMAIN q : q[j].type = "TradingStart" /\ q[j].on = "Account"
    BY <1>6 DEF StartsBefore
  <2>2. j # i
    BY <2>1
  <2>3. New(i, j) < Len(r) + 1
    BY <1>1, <2>2 DEF New
  <2> QED
    BY <1>3, <2>1, <2>2, <2>3 DEF StartsBefore
<1> QED
  BY <1>5, <1>6

LEMMA Starts_ ==
  ASSUME IInv, Step
  PROVE  StartInv'
<1>1. TypeOK /\ PlaceInv /\ FrameInv /\ StartInv
  BY DEF IInv
<1>2. /\ "md" \in Engines /\ "cp" \in Engines /\ "td" \in Engines
      /\ inbox["td"] \in Seq(Frames) /\ started["td"] \in BOOLEAN
  BY <1>1 DEF Engines, TypeOK
<1>12. PICK begun \in BOOLEAN : begun = started["td"]
  BY <1>2
<1>13. PICK q, r : q \in Seq(Frames) /\ q = inbox["td"] /\ r = inbox'["td"]
  BY <1>2
<1>3. q = inbox["td"] /\ r = inbox'["td"] /\ (begun <=> started["td"])
  BY <1>12, <1>13
<1>4. /\ ToStart(pc["cp"], toWrite) \/ begun \/ StartsBefore(q, Len(q) + 1)
      /\ OrdersAfter(q, begun)
  BY <1>1, <1>3 DEF StartInv, OrdersAfter
<1>5. ASSUME r = q, started'["td"] = started["td"],
             ToStart(pc["cp"], toWrite) => ToStart(pc'["cp"], toWrite')
      PROVE  StartInv'
  BY <1>3, <1>4, <1>5 DEF StartInv, OrdersAfter
<1>6. ASSUME NEW m, Added(q, m, r), started'["td"] = started["td"],
             \/ ToStart(pc["cp"], toWrite) => ToStart(pc'["cp"], toWrite')
             \/ m.type = "TradingStart" /\ m.on = "Account",
             m.type = "Order" => ~ ToStart(pc["cp"], toWrite)
      PROVE  StartInv'
  <2>1. /\ OrdersAfter(r, begun)
        /\ StartsBefore(q, Len(q) + 1) => StartsBefore(r, Len(r) + 1)
        /\ m.type = "TradingStart" /\ m.on = "Account" => StartsBefore(r, Len(r) + 1)
    BY <1>13, <1>4, <1>6, AddedStarts
  <2> QED
    BY <1>3, <1>4, <1>6, <2>1 DEF StartInv, OrdersAfter
<1>7. ASSUME NEW i, Dropped(q, i, r), started'["td"] = started["td"],
             ToStart(pc["cp"], toWrite) => ToStart(pc'["cp"], toWrite'),
             q[i].type # "TradingStart"
      PROVE  StartInv'
  <2>1. /\ OrdersAfter(r, begun)
        /\ StartsBefore(q, Len(q) + 1) => StartsBefore(r, Len(r) + 1)
    BY <1>13, <1>4, <1>7, DroppedStarts
  <2> QED
    BY <1>3, <1>4, <1>7, <2>1 DEF StartInv, OrdersAfter
<1>8. CASE Quiet
  BY <1>3, <1>5, <1>8 DEF Quiet, loops
<1>9. CASE CpNext
  <2>1. started' = started
    BY <1>9 DEF CpNext, Begin, StartTd, WriteTd, Prepare, FirstSignal, Return, EndTd,
                Stop, SendOrder, OnBar, OnTrade, OnData, OnMatch, OnTermination
  <2>2. CASE Begin
    <3>1. r = q
      BY <1>1, <1>2, <1>3, <2>2, CpEffects DEF Adds
    <3>2. ToStart(pc'["cp"], toWrite')
      BY <1>1, <1>2, <2>2 DEF Begin, Goto, ToStart, ToTd, TypeOK
    <3> QED
      BY <1>5, <2>1, <3>1, <3>2
  <2>3. CASE StartTd
    <3>1. PICK j \in toWrite : /\ toWrite' = toWrite \ {j}
                               /\ Adds("td", Msg(j, "TradingStart", None))
      BY <1>1, <2>3, CpEffects
    <3>2. PICK m : /\ Added(q, m, r) /\ m.type = "TradingStart" /\ m.on = j
      BY <1>3, <3>1, MsgTypes DEF Adds
    <3>3. pc' = pc
      BY <2>3 DEF StartTd, WriteTd
    <3>4. \/ ToStart(pc["cp"], toWrite) => ToStart(pc'["cp"], toWrite')
          \/ j = "Account"
      BY <3>1, <3>3 DEF ToStart
    <3> QED
      BY <1>6, <2>1, <3>2, <3>4
  <2>4. CASE EndTd
    <3>1. PICK m : Added(q, m, r) /\ m.type = "Termination"
      BY <1>1, <1>3, <2>4, CpEffects, MsgTypes DEF Adds
    <3>2. ~ ToStart(pc["cp"], toWrite)
      BY <2>4 DEF EndTd, WriteTd, ToStart
    <3> QED
      BY <1>6, <2>1, <3>1, <3>2
  <2>5. CASE Prepare \/ FirstSignal \/ Return \/ Stop
    <3>1. r = q
      BY <1>1, <1>2, <1>3, <2>5, CpEffects DEF Adds, Same
    <3>2. ~ ToStart(pc["cp"], toWrite)
      BY <2>5 DEF Prepare, FirstSignal, Return, Stop, ToStart
    <3> QED
      BY <1>5, <2>1, <3>1, <3>2
  <2>6. ASSUME NEW o \in Orders, NEW w \in Wanted, SendOrder(o, w)
        PROVE  StartInv'
    <3>1. PICK m : Added(q, m, r) /\ m.type = "Order"
      BY <1>1, <1>3, <2>6, CpEffects, MsgTypes DEF Adds
    <3>2. ~ ToStart(pc["cp"], toWrite)
      BY <2>6 DEF SendOrder, ToStart
    <3> QED
      BY <1>6, <2>1, <3>1, <3>2
  <2>7. ASSUME NEW i, OnBar(i) \/ OnTrade(i) \/ OnMatch(i) \/ OnTermination(i)
        PROVE  StartInv'
    <3>1. r = q /\ pc["cp"] = "idle"
      BY <1>1, <1>2, <1>3, <2>7, CpEffects DEF Drops, Moves
    <3>2. ~ ToStart(pc["cp"], toWrite)
      BY <3>1 DEF ToStart
    <3> QED
      BY <1>5, <2>1, <3>1, <3>2
  <2>8. ASSUME NEW i, OnData(i)
        PROVE  StartInv'
    <3>1. PICK m : Moves("cp", i, {"MarketData"}, "td", m) /\ m.type = "MatchOrder"
      BY <1>1, <2>8, CpEffects, MsgTypes
    <3>2. Added(q, m, r) /\ pc["cp"] = "idle"
      BY <1>3, <3>1 DEF Moves
    <3>3. ~ ToStart(pc["cp"], toWrite)
      BY <3>2 DEF ToStart
    <3> QED
      BY <1>6, <2>1, <3>1, <3>2, <3>3
  <2> QED
    BY <1>9, <2>2, <2>3, <2>4, <2>5, <2>6, <2>7, <2>8 DEF CpNext
<1>10. CASE MdWork
  <2>1. pc'["cp"] = pc["cp"] /\ toWrite' = toWrite /\ started'["td"] = started["td"]
    BY <1>1, <1>2, <1>10
       DEF TypeOK, Goto, MdWork, MdAnswer, Serve, MdStart, MdSignal, MdStop, loops
  <2>2. r = q
    <3>1. ASSUME NEW i, MdStart(i) \/ MdSignal(i) \/ MdStop(i)
          PROVE  inbox'["td"] = inbox["td"]
      BY <1>1, <1>2, <3>1, MdEffects DEF Drops
    <3>2. ASSUME NEW s \in Services, Serve(s)
          PROVE  inbox'["td"] = inbox["td"]
      BY <1>1, <1>2, <3>2, MdEffects DEF Serve, Adds, Same
    <3>3. CASE MdAnswer
      BY <1>1, <1>2, <1>3, <3>3, MdEffects DEF Adds, Same
    <3> QED
      BY <1>3, <1>10, <3>1, <3>2, <3>3 DEF MdWork
  <2> QED
    BY <1>5, <2>1, <2>2
<1>11. CASE TdWork
  <2>1. pc'["cp"] = pc["cp"] /\ toWrite' = toWrite
    BY <1>1, <1>2, <1>11
       DEF TypeOK, Goto, TdWork, TdAnswer, Match, TdStart, TdOrder, TdSignal, TdStop, loops
  <2>2. ASSUME NEW i, TdStart(i)
        PROVE  StartInv'
    <3>1. started'["td"]
      BY <1>1, <2>2 DEF TdStart, TypeOK
    <3> QED
      BY <3>1 DEF StartInv, OrdersAfter
  <2>3. ASSUME NEW i, TdOrder(i) \/ TdSignal(i) \/ TdStop(i)
        PROVE  StartInv'
    <3>1. Dropped(q, i, r) /\ q[i].type # "TradingStart"
      BY <1>1, <1>3, <2>3, TdEffects DEF Drops
    <3>2. started' = started
      BY <2>3 DEF TdOrder, TdSignal, TdStop
    <3> QED
      BY <1>7, <2>1, <3>1, <3>2
  <2>4. CASE TdAnswer \/ \E o \in Orders : Match(o)
    <3>1. started' = started
      BY <2>4 DEF TdAnswer, Match
    <3>2. r = q
      BY <1>1, <1>2, <1>3, <2>4, TdEffects DEF Adds, Same, Match
    <3> QED
      BY <1>5, <2>1, <3>1, <3>2
  <2> QED
    BY <1>11, <2>2, <2>3, <2>4 DEF TdWork
<1> QED
  BY <1>8, <1>9, <1>10, <1>11 DEF Step

\* What a step may do to the queue of td.
LEMMA TdQueue ==
  ASSUME IInv, Step
  PROVE  \/ inbox'["td"] = inbox["td"]
         \/ \E m : Added(inbox["td"], m, inbox'["td"])
         \/ \E i \in Due(inbox["td"]) : Dropped(inbox["td"], i, inbox'["td"])
<1>1. TypeOK /\ PlaceInv /\ FrameInv
  BY DEF IInv
<1>2. "md" \in Engines /\ "cp" \in Engines /\ "td" \in Engines
  BY DEF Engines
<1>3. CASE Quiet
  BY <1>3 DEF Quiet
<1>4. CASE CpNext
  <2>1. CASE StartTd \/ EndTd \/ \E o \in Orders, w \in Wanted : SendOrder(o, w)
    BY <1>1, <2>1, CpEffects DEF Adds
  <2>2. CASE Begin \/ FirstSignal \/ Prepare \/ Return \/ Stop
    BY <1>1, <1>2, <2>2, CpEffects DEF Adds, Same
  <2>3. ASSUME NEW i, OnBar(i) \/ OnTrade(i) \/ OnMatch(i) \/ OnTermination(i)
        PROVE  inbox'["td"] = inbox["td"]
    BY <1>1, <1>2, <2>3, CpEffects DEF Drops, Moves
  <2>4. ASSUME NEW i, OnData(i)
        PROVE  \E m : Added(inbox["td"], m, inbox'["td"])
    BY <1>1, <2>4, CpEffects DEF Moves
  <2> QED
    BY <1>4, <2>1, <2>2, <2>3, <2>4 DEF CpNext
<1>5. CASE MdWork
  <2>1. ASSUME NEW i, MdStart(i) \/ MdSignal(i) \/ MdStop(i)
        PROVE  inbox'["td"] = inbox["td"]
    BY <1>1, <1>2, <2>1, MdEffects DEF Drops
  <2>2. ASSUME NEW s \in Services, Serve(s)
        PROVE  inbox'["td"] = inbox["td"]
    BY <1>1, <1>2, <2>2, MdEffects DEF Serve, Adds, Same
  <2>3. CASE MdAnswer
    BY <1>1, <1>2, <2>3, MdEffects DEF Adds, Same
  <2> QED
    BY <1>5, <2>1, <2>2, <2>3 DEF MdWork
<1>6. CASE TdWork
  <2>1. ASSUME NEW i, TdStart(i) \/ TdOrder(i) \/ TdSignal(i) \/ TdStop(i)
        PROVE  i \in Due(inbox["td"]) /\ Dropped(inbox["td"], i, inbox'["td"])
    BY <1>1, <2>1, TdEffects DEF Drops
  <2>2. CASE TdAnswer \/ \E o \in Orders : Match(o)
    BY <1>1, <1>2, <2>2, TdEffects DEF Adds, Same, Match
  <2> QED
    BY <1>6, <2>1, <2>2 DEF TdWork
<1> QED
  BY <1>3, <1>4, <1>5, <1>6 DEF Step

\* A TradingStart of the account's journal was skipped.
StartSkipped(q) ==
  \E i \in DOMAIN q :
    q[i].on = "Account" /\ q[i].type = "TradingStart" /\ q[i].fate = "skipped"

LEMMA NoneIgnoredIs ==
  /\ NoneIgnored <=> ((\E o \in Orders : order[o] = "ignored") =>
                        StartSkipped(inbox["td"]))
  /\ NoneIgnored' <=> ((\E o \in Orders : order'[o] = "ignored") =>
                         StartSkipped(inbox'["td"]))
BY DEF NoneIgnored, StartSkipped

LEMMA AddedSkipped ==
  ASSUME NEW q \in Seq(Frames), NEW m, NEW r, Added(q, m, r), StartSkipped(q)
  PROVE  StartSkipped(r)
<1>1. /\ DOMAIN r = 1 .. (Len(q) + 1) /\ DOMAIN q = 1 .. Len(q) /\ Len(q) \in Nat
      /\ \A k \in 1 .. Len(q) : r[k] = q[k]
  BY DEF Added
<1> QED
  BY <1>1 DEF StartSkipped

\* A skipped frame is never handled.
LEMMA DroppedSkipped ==
  ASSUME NEW q \in Seq(Frames), NEW i \in Due(q), NEW r, Dropped(q, i, r),
         StartSkipped(q)
  PROVE  StartSkipped(r)
<1>1. q[i].fate # "skipped"
  BY DEF Due
<1>2. /\ DOMAIN r = 1 .. (Len(q) - 1) /\ DOMAIN q = 1 .. Len(q)
      /\ Len(q) \in Nat \ {0} /\ Len(r) = Len(q) - 1 /\ i \in 1 .. Len(q)
  BY DEF Dropped
<1>3. PICK k \in DOMAIN q :
        q[k].on = "Account" /\ q[k].type = "TradingStart" /\ q[k].fate = "skipped"
  BY DEF StartSkipped
<1>4. k # i
  BY <1>1, <1>3
<1>5. New(i, k) \in DOMAIN r
  BY <1>2, <1>4 DEF New
<1>6. Alike(r[New(i, k)], q[k]) /\ r[New(i, k)].fate = q[k].fate
  BY <1>2, <1>4 DEF Dropped
<1> QED
  BY <1>3, <1>5, <1>6 DEF StartSkipped, Alike

\* An order that may be handled has no TradingStart of its journal before it,
\* but for one that was skipped.
LEMMA Ignored_ ==
  ASSUME IInv, Step
  PROVE  NoneIgnored'
<1>1. TypeOK /\ PlaceInv /\ FrameInv /\ StartInv /\ NoneIgnored
  BY DEF IInv
<1>2. ASSUME NEW i, TdOrder(i)
      PROVE  started["td"] \/ StartSkipped(inbox["td"])
  <2>1. i \in Due(inbox["td"]) /\ i \in DOMAIN inbox["td"] /\ inbox["td"][i].type = "Order"
    BY <1>1, <1>2, TdEffects DEF Drops
  <2>2. inbox["td"] \in Seq(Frames)
    BY <1>1 DEF TypeOK, Engines
  <2>3. PICK q \in Seq(Frames) : q = inbox["td"]
    BY <2>2
  <2>4. /\ q[i].on = "Account"
        /\ \A j \in 1 .. (i - 1) : q[j].on = q[i].on => q[j].fate = "skipped"
    BY <1>1, <2>1, <2>3 DEF FrameInv, Due
  <2>5. \A j \in DOMAIN q : j < i => j \in 1 .. (i - 1)
    BY <2>1, <2>3
  <2>6. StartsBefore(q, i) => StartSkipped(q)
    BY <2>4, <2>5 DEF StartsBefore, StartSkipped
  <2>7. OrdersAfter(q, started["td"])
    BY <1>1, <2>3 DEF StartInv
  <2>8. started["td"] \/ StartsBefore(q, i)
    BY <2>1, <2>3, <2>7 DEF OrdersAfter
  <2> QED
    BY <2>3, <2>6, <2>8
<1>3. \A o \in Orders : order'[o] # order[o] /\ order'[o] = "ignored" =>
        StartSkipped(inbox["td"])
  <2>1. ASSUME NEW i, TdOrder(i), ~ StartSkipped(inbox["td"])
        PROVE  \A o \in Orders : order'[o] # order[o] => order'[o] # "ignored"
    <3>1. started["td"]
      BY <1>2, <2>1
    <3> QED
      BY <1>1, <2>1, <3>1 DEF TdOrder, TypeOK
  <2>2. ASSUME NEW o \in Orders, order'[o] # order[o], order'[o] = "ignored"
        PROVE  \E i : TdOrder(i)
    BY <1>1, <2>2
       DEF TypeOK, Step, Quiet, loops, books, CpNext, Begin, StartTd, WriteTd, Prepare,
           FirstSignal, Return, EndTd, Stop, SendOrder, OnBar, OnTrade, OnData, OnMatch,
           OnTermination, MdWork, MdAnswer, Serve, MdStart, MdSignal, MdStop,
           TdWork, TdAnswer, Match, Fill, NoFunds, TdStart, TdSignal, TdStop
  <2> QED
    BY <2>1, <2>2
<1>4. (\E o \in Orders : order'[o] = "ignored") => StartSkipped(inbox["td"])
  BY <1>1, <1>3, NoneIgnoredIs
<1>5. PICK q, r : q \in Seq(Frames) /\ q = inbox["td"] /\ r = inbox'["td"]
  BY <1>1 DEF TypeOK, Engines
<1>6. StartSkipped(q) => StartSkipped(r)
  <2>1. \/ r = q
        \/ \E m : Added(q, m, r)
        \/ \E i \in Due(q) : Dropped(q, i, r)
    BY <1>5, TdQueue
  <2> QED
    BY <1>5, <2>1, AddedSkipped, DroppedSkipped
<1> QED
  BY <1>4, <1>5, <1>6, NoneIgnoredIs

-----------------------------------------------------------------------------
\* The rows of the files

LEMMA RowsKept ==
  ASSUME RowInv, Ended => Ended',
         UNCHANGED <<pc["md"], toServe, success, started["md"], row>>
  PROVE  RowInv'
<1>1. \A s \in Services : HasRow(s)' <=> HasRow(s)
  BY DEF HasRow
<1> QED
  BY <1>1 DEF RowInv

\* A service has read a row, or found none.
LEMMA RowsServed ==
  ASSUME TypeOK, RowInv, NEW s \in toServe, pc["md"] = "serving",
         Ended => Ended', toServe' = toServe \ {s},
         UNCHANGED <<pc["md"], started["md"]>>,
         \/ HasRow(s) /\ row' = [row EXCEPT ![s] = @ + 1] /\ success' = success
         \/ ~ HasRow(s) /\ row' = row /\ success' = FALSE /\ Ended'
  PROVE  RowInv'
<1>1. row \in [Services -> Nat] /\ s \in Services /\ toServe \subseteq Services
  BY DEF TypeOK
<1>2. \A t \in Services : Len(Rows[t]) \in Nat
  BY RowsAreRows
<1>3. ~ started["md"] => \A t \in Services : row[t] = 0
  BY DEF RowInv
<1>4. pc["md"] = "serving" /\ ~ success => Ended
  BY DEF RowInv
<1>5. ASSUME NEW t \in Services, NEW u \in Services
      PROVE  /\ t \in toServe /\ u \in toServe => row[t] = row[u]
             /\ t \notin toServe /\ u \in toServe =>
                  \/ row[t] = row[u] + 1
                  \/ row[t] = row[u] /\ ~ HasRow(t) /\ ~ success
             /\ t \notin toServe /\ u \notin toServe =>
                  /\ row[t] <= row[u] + (IF HasRow(u) THEN 0 ELSE 1)
                  /\ success => row[t] = row[u]
  BY DEF RowInv
<1>6. ~ started["md"] => ~ HasRow(s)
  BY DEF HasRow
<1>7. \A t \in Services : t # s => row'[t] = row[t] /\ (HasRow(t)' <=> HasRow(t))
  BY <1>1 DEF HasRow
<1>8. CASE HasRow(s) /\ row' = [row EXCEPT ![s] = @ + 1] /\ success' = success
  <2>1. row'[s] = row[s] + 1
    BY <1>1, <1>8
  <2>2. ~ started'["md"] => \A t \in Services : row'[t] = 0
    BY <1>6, <1>8
  <2>3. pc'["md"] = "serving" /\ ~ success' => Ended'
    BY <1>4, <1>8
  <2>4. ASSUME NEW t \in Services, NEW u \in Services
        PROVE  /\ t \in toServe' /\ u \in toServe' => row'[t] = row'[u]
               /\ t \notin toServe' /\ u \in toServe' =>
                    \/ row'[t] = row'[u] + 1
                    \/ row'[t] = row'[u] /\ ~ HasRow(t)' /\ ~ success'
    BY <1>1, <1>5, <1>7, <1>8, <2>1
  <2>5. ASSUME NEW t \in Services, NEW u \in Services,
               t \notin toServe', u \notin toServe'
        PROVE  /\ row'[t] <= row'[u] + (IF HasRow(u)' THEN 0 ELSE 1)
               /\ success' => row'[t] = row'[u]
    <3>1. CASE t # s /\ u # s
      BY <1>5, <1>7, <1>8, <2>5, <3>1
    <3>2. CASE t # s /\ u = s
      <4>1. row[t] = row[s] + 1 \/ (row[t] = row[s] /\ ~ success)
        BY <1>5, <2>5, <3>2
      <4> QED
        BY <1>1, <1>7, <1>8, <2>1, <3>2, <4>1
    <3>3. CASE t = s /\ u # s
      <4>1. row[u] = row[s] + 1 \/ (row[u] = row[s] /\ ~ HasRow(u) /\ ~ success)
        BY <1>5, <2>5, <3>3
      <4> QED
        BY <1>1, <1>7, <1>8, <2>1, <3>3, <4>1
    <3>4. CASE t = s /\ u = s
      BY <1>1, <2>1, <3>4
    <3> QED
      BY <3>1, <3>2, <3>3, <3>4
  <2> QED
    BY <2>2, <2>3, <2>4, <2>5 DEF RowInv
<1>9. CASE ~ HasRow(s) /\ row' = row /\ success' = FALSE /\ Ended'
  <2>1. ~ HasRow(s)'
    BY <1>9 DEF HasRow
  <2>2. ~ started'["md"] => \A t \in Services : row'[t] = 0
    BY <1>3, <1>9
  <2>3. ASSUME NEW t \in Services, NEW u \in Services
        PROVE  /\ t \in toServe' /\ u \in toServe' => row'[t] = row'[u]
               /\ t \notin toServe' /\ u \in toServe' =>
                    \/ row'[t] = row'[u] + 1
                    \/ row'[t] = row'[u] /\ ~ HasRow(t)' /\ ~ success'
    BY <1>1, <1>5, <1>7, <1>9, <2>1
  <2>4. ASSUME NEW t \in Services, NEW u \in Services,
               t \notin toServe', u \notin toServe'
        PROVE  row'[t] <= row'[u] + (IF HasRow(u)' THEN 0 ELSE 1)
    <3>1. CASE t # s /\ u # s
      BY <1>5, <1>7, <1>9, <2>4, <3>1
    <3>2. CASE t # s /\ u = s
      <4>1. row[t] = row[s] + 1 \/ row[t] = row[s]
        BY <1>5, <2>4, <3>2
      <4> QED
        BY <1>1, <1>9, <2>1, <3>2, <4>1
    <3>3. CASE t = s /\ u # s
      <4>1. row[u] = row[s] + 1 \/ row[u] = row[s]
        BY <1>5, <2>4, <3>3
      <4> QED
        BY <1>1, <1>9, <3>3, <4>1
    <3>4. CASE t = s /\ u = s
      BY <1>1, <1>9, <3>4
    <3> QED
      BY <3>1, <3>2, <3>3, <3>4
  <2> QED
    BY <1>9, <2>2, <2>3, <2>4 DEF RowInv
<1> QED
  BY <1>8, <1>9

LEMMA Rows_ ==
  ASSUME IInv, Step
  PROVE  RowInv'
<1>1. TypeOK /\ PlaceInv /\ FrameInv /\ RowInv /\ EndInv
  BY DEF IInv
<1>2. /\ "md" \in Engines /\ "MarketData" \in Signals
      /\ pc \in [Engines -> {"new", "starting", "preparing", "idle", "strategies",
                            "serving", "matching", "ending", "stopped", "crashed"}]
  BY <1>1 DEF Engines, Signals, TypeOK
<1>3. Ended => Ended'
  BY EndedStays
<1>4. CASE Quiet
  BY <1>1, <1>3, <1>4, RowsKept DEF Quiet, loops
<1>5. CASE CpNext
  <2>1. UNCHANGED <<pc["md"], toServe, success, started["md"], row>>
    BY <1>2, <1>5
       DEF Goto, CpNext, Begin, StartTd, WriteTd, Prepare, FirstSignal, Return, EndTd,
           Stop, SendOrder, OnBar, OnTrade, OnData, OnMatch, OnTermination, loops
  <2> QED
    BY <1>1, <1>3, <2>1, RowsKept
<1>6. CASE TdWork
  <2>1. UNCHANGED <<pc["md"], toServe, success, row>>
    BY <1>2, <1>6
       DEF Goto, TdWork, TdAnswer, Match, TdStart, TdOrder, TdSignal, TdStop, loops
  <2>2. started'["md"] = started["md"]
    BY <1>1, <1>6 DEF TypeOK, TdWork, TdAnswer, Match, TdStart, TdOrder, TdSignal, TdStop
  <2> QED
    BY <1>1, <1>3, <2>1, <2>2, RowsKept
<1>7. CASE MdWork
  <2>1. ASSUME NEW i, MdStart(i)
        PROVE  RowInv'
    <3>1. pc["md"] = "idle" /\ pc' = pc /\ UNCHANGED <<toServe, success, row>>
      BY <2>1 DEF MdStart, Handle, Take, loops
    <3>2. started'["md"]
      BY <1>1, <2>1 DEF MdStart, TypeOK
    <3>3. toServe = {} /\ \A s, t \in Services : ~ Ended => row[s] = row[t]
      BY <1>1, <3>1 DEF RowInv
    <3>4. CASE started["md"]
      <4>1. \A s \in Services : HasRow(s)' <=> HasRow(s)
        BY <3>1, <3>2, <3>4 DEF HasRow
      <4> QED
        BY <1>1, <1>3, <3>1, <3>2, <4>1 DEF RowInv
    <3>5. CASE ~ started["md"]
      <4>1. \A s \in Services : row'[s] = 0
        BY <1>1, <3>1, <3>5 DEF RowInv
      <4> QED
        BY <3>1, <3>2, <3>3, <4>1 DEF RowInv
    <3> QED
      BY <3>4, <3>5
  <2>2. ASSUME NEW i, MdSignal(i)
        PROVE  RowInv'
    <3>1. /\ pc["md"] = "idle" /\ pc'["md"] = "serving" /\ toServe' = Services
          /\ success' = TRUE /\ UNCHANGED <<started, row>>
      BY <1>2, <2>2 DEF MdSignal, Goto, Handle, Take
    <3>2. Holds(inbox["md"], Signals)
      BY <1>2, <2>2, SignalSteps, SignalTypes DEF Signals
    <3>3. ~ Ended
      BY <1>1, <1>2, <3>2, EndInvIs DEF EndOf
    <3>4. \A s, t \in Services : row[s] = row[t]
      BY <1>1, <3>1, <3>3 DEF RowInv
    <3>5. ~ started["md"] => \A s \in Services : row[s] = 0
      BY <1>1 DEF RowInv
    <3> QED
      BY <3>1, <3>4, <3>5 DEF RowInv
  <2>3. ASSUME NEW i, MdStop(i)
        PROVE  RowInv'
    <3>1. /\ pc["md"] = "idle" /\ pc'["md"] = "stopped"
          /\ UNCHANGED <<toServe, success, started, row>>
      BY <1>2, <2>3 DEF MdStop, Goto, Handle, Take, loops
    <3>2. \A s \in Services : HasRow(s)' <=> HasRow(s)
      BY <3>1 DEF HasRow
    <3> QED
      BY <1>1, <1>3, <3>1, <3>2 DEF RowInv
  <2>4. ASSUME NEW s \in Services, Serve(s)
        PROVE  RowInv'
    <3>1. /\ pc["md"] = "serving" /\ s \in toServe /\ toServe' = toServe \ {s}
          /\ UNCHANGED <<pc["md"], started["md"]>>
      BY <2>4 DEF Serve
    <3>2. CASE ServeBar(s) \/ ServeUnusable(s)
      BY <1>1, <1>3, <3>1, <3>2, RowsServed DEF ServeBar, ServeUnusable
    <3>3. CASE ServeEnd(s)
      <4>1. PICK m : Adds("cp", m) /\ m.type = "Termination"
        BY <1>1, <3>3, MdEffects, MsgTypes
      <4>2. PICK q, r : q \in Seq(Frames) /\ q = inbox["cp"] /\ r = inbox'["cp"]
        BY <1>1 DEF TypeOK, Engines
      <4>3. q \in Seq(Frames) /\ Added(q, m, r) /\ m.type \in {"Termination"}
        BY <4>1, <4>2 DEF Adds
      <4>4. Holds(r, {"Termination"})
        BY <4>3, AddedHolds
      <4>5. Ended'
        BY <4>2, <4>4, EndedIs DEF WaitsEnd
      <4> QED
        BY <1>1, <1>3, <3>1, <3>3, <4>5, RowsServed DEF ServeEnd
    <3> QED
      BY <2>4, <3>2, <3>3 DEF Serve
  <2>5. CASE MdAnswer
    <3>1. /\ pc["md"] = "serving" /\ toServe = {} /\ pc'["md"] = "idle"
          /\ UNCHANGED <<toServe, success, started, row>>
      BY <1>2, <2>5 DEF MdAnswer, Goto
    <3>2. \A s \in Services : HasRow(s)' <=> HasRow(s)
      BY <3>1 DEF HasRow
    <3>3. Ended \/ \A s, t \in Services : row[s] = row[t]
      BY <1>1, <3>1 DEF RowInv
    <3> QED
      BY <1>1, <1>3, <3>1, <3>2, <3>3 DEF RowInv
  <2> QED
    BY <1>7, <2>1, <2>2, <2>3, <2>4, <2>5 DEF MdWork
<1> QED
  BY <1>4, <1>5, <1>6, <1>7 DEF Step

-----------------------------------------------------------------------------
\* Orders

\* The frames of this type are about orders of S, and about one each.
Only(q, type, S) == \A k \in DOMAIN q : q[k].type = type => q[k].order \in S

Uniq(q, type) ==
  \A j, k \in DOMAIN q :
    q[j].type = type /\ q[k].type = type /\ q[j].order = q[k].order => j = k

InProgress(p) == {o \in Orders : order[o] = p}

LEMMA OrderInvIs ==
  ASSUME FrameInv
  PROVE  OrderInv <=> /\ \A o \in Orders : (deal[o] = None) = (order[o] = "new")
                      /\ \A o \in toMatch : order[o] = "accepted"
                      /\ Only(inbox["td"], "Order", InProgress("sent"))
                      /\ Uniq(inbox["td"], "Order")
                      /\ Only(inbox["cp"], "Trade", InProgress("filled"))
                      /\ Uniq(inbox["cp"], "Trade")
BY DEF OrderInv, FrameInv, Only, Uniq, InProgress

LEMMA OrderInvNext ==
  ASSUME FrameInv'
  PROVE  OrderInv' <=> /\ \A o \in Orders : (deal'[o] = None) = (order'[o] = "new")
                       /\ \A o \in toMatch' : order'[o] = "accepted"
                       /\ Only(inbox'["td"], "Order", InProgress("sent")')
                       /\ Uniq(inbox'["td"], "Order")
                       /\ Only(inbox'["cp"], "Trade", InProgress("filled")')
                       /\ Uniq(inbox'["cp"], "Trade")
BY DEF OrderInv, FrameInv, Only, Uniq, InProgress

\* A frame behind a queue.
LEMMA AddedOnly ==
  ASSUME NEW q \in Seq(Frames), NEW m, NEW r, Added(q, m, r), NEW type, NEW S,
         Only(q, type, S), Uniq(q, type)
  PROVE  /\ Only(r, type, S \cup {m.order})
         /\ m.type # type => Only(r, type, S)
         /\ m.type # type \/ m.order \notin S => Uniq(r, type)
<1>1. /\ DOMAIN r = 1 .. (Len(q) + 1) /\ DOMAIN q = 1 .. Len(q) /\ Len(q) \in Nat
      /\ \A k \in 1 .. Len(q) : r[k] = q[k]
      /\ r[Len(q) + 1].type = m.type /\ r[Len(q) + 1].order = m.order
  BY DEF Added, Alike
<1>2. Only(r, type, S \cup {m.order})
  BY <1>1 DEF Only
<1>3. m.type # type => Only(r, type, S)
  BY <1>1 DEF Only
<1>4. ASSUME m.type # type \/ m.order \notin S
      PROVE  Uniq(r, type)
  BY <1>1, <1>4 DEF Only, Uniq
<1> QED
  BY <1>2, <1>3, <1>4

\* A frame out of a queue.
LEMMA DroppedOnly ==
  ASSUME NEW q \in Seq(Frames), NEW i, NEW r, Dropped(q, i, r), NEW type, NEW S,
         Only(q, type, S), Uniq(q, type)
  PROVE  /\ Only(r, type, S) /\ Uniq(r, type)
         /\ q[i].type = type => Only(r, type, S \ {q[i].order})
<1>1. /\ DOMAIN r = 1 .. (Len(q) - 1) /\ DOMAIN q = 1 .. Len(q)
      /\ Len(q) \in Nat \ {0} /\ Len(r) = Len(q) - 1 /\ i \in 1 .. Len(q)
  BY DEF Dropped
<1>2. \A k \in DOMAIN r : /\ Old(i, k) \in DOMAIN q /\ Old(i, k) # i
                          /\ r[k].type = q[Old(i, k)].type
                          /\ r[k].order = q[Old(i, k)].order
  BY <1>1 DEF Old, Dropped, Alike
<1>3. \A j, k \in DOMAIN r : Old(i, j) = Old(i, k) => j = k
  BY <1>1 DEF Old
<1>4. Only(r, type, S)
  BY <1>2 DEF Only
<1>5. Uniq(r, type)
  BY <1>2, <1>3 DEF Uniq
<1>6. ASSUME q[i].type = type
      PROVE  Only(r, type, S \ {q[i].order})
  BY <1>1, <1>2, <1>6 DEF Only, Uniq
<1> QED
  BY <1>4, <1>5, <1>6

\* A step that adds no frame of this type to the queue of c.
Keeps(c, type) ==
  \A S : Only(inbox[c], type, S) /\ Uniq(inbox[c], type) =>
           Only(inbox'[c], type, S) /\ Uniq(inbox'[c], type)

LEMMA StepKeeps ==
  ASSUME TypeOK, NEW e \in Engines, NEW i, NEW types, NEW d \in Engines, NEW m,
         NEW c \in Engines, NEW type
  PROVE  /\ Same => Keeps(c, type)
         /\ Adds(e, m) /\ (e # c \/ m.type # type) => Keeps(c, type)
         /\ Drops(e, i, types) => Keeps(c, type)
         /\ d # e /\ Moves(e, i, types, d, m) /\ (d # c \/ m.type # type)
              => Keeps(c, type)
<1>1. \A b \in Engines : inbox[b] \in Seq(Frames)
  BY DEF TypeOK
<1>2. PICK q, r : q \in Seq(Frames) /\ q = inbox[c] /\ r = inbox'[c]
  BY <1>1
<1>3. r = q => Keeps(c, type)
  BY <1>2 DEF Keeps
<1>4. Added(q, m, r) /\ m.type # type => Keeps(c, type)
  BY <1>2, AddedOnly DEF Keeps
<1>5. Dropped(q, i, r) => Keeps(c, type)
  BY <1>2, DroppedOnly DEF Keeps
<1>6. Same => Keeps(c, type)
  BY <1>2, <1>3 DEF Same
<1>7. Adds(e, m) /\ (e # c \/ m.type # type) => Keeps(c, type)
  BY <1>2, <1>3, <1>4 DEF Adds
<1>8. Drops(e, i, types) => Keeps(c, type)
  BY <1>2, <1>3, <1>5 DEF Drops
<1>9. d # e /\ Moves(e, i, types, d, m) /\ (d # c \/ m.type # type) => Keeps(c, type)
  BY <1>2, <1>3, <1>4, <1>5 DEF Moves
<1> QED
  BY <1>6, <1>7, <1>8, <1>9

\* The steps that are about an order, and all others.
OrderStep ==
  \/ \E o \in Orders, w \in Wanted : SendOrder(o, w)
  \/ \E i : TdOrder(i)
  \/ \E o \in Orders : Match(o)
  \/ \E i : OnTrade(i)

NoOrderStep ==
  /\ UNCHANGED books
  /\ toMatch' = toMatch \/ toMatch' = InProgress("accepted")
  /\ Keeps("td", "Order") /\ Keeps("cp", "Trade")

LEMMA OrderSteps ==
  ASSUME IInv, Step
  PROVE  OrderStep \/ NoOrderStep
<1>1. TypeOK /\ PlaceInv /\ FrameInv
  BY DEF IInv
<1>2. "md" \in Engines /\ "cp" \in Engines /\ "td" \in Engines
  BY DEF Engines
<1> DEFINE K == Keeps("td", "Order") /\ Keeps("cp", "Trade")
<1>3. CASE Quiet
  BY <1>1, <1>2, <1>3, StepKeeps DEF Quiet, loops, Same, NoOrderStep
<1>4. CASE CpNext
  <2>1. CASE Begin \/ StartTd \/ FirstSignal \/ EndTd
    <3>1. PICK e, m : e \in Engines /\ Adds(e, m) /\ m.type \notin {"Order", "Trade"}
      BY <1>1, <1>2, <2>1, CpEffects, MsgTypes
    <3>2. K
      BY <1>1, <1>2, <3>1, StepKeeps
    <3> QED
      BY <2>1, <3>2 DEF NoOrderStep, Begin, StartTd, EndTd, WriteTd, FirstSignal, loops
  <2>2. CASE Prepare \/ Return \/ Stop
    <3>1. K
      BY <1>1, <1>2, <2>2, CpEffects, StepKeeps
    <3> QED
      BY <2>2, <3>1 DEF NoOrderStep, Prepare, Return, Stop, loops
  <2>3. ASSUME NEW i, OnBar(i)
        PROVE  NoOrderStep
    <3>1. K
      BY <1>1, <1>2, <2>3, CpEffects, StepKeeps
    <3> QED
      BY <2>3, <3>1 DEF NoOrderStep, OnBar, loops
  <2>4. ASSUME NEW i, OnData(i) \/ OnMatch(i) \/ OnTermination(i)
        PROVE  NoOrderStep
    <3>1. ASSUME NEW types, NEW d \in Engines, NEW m, Moves("cp", i, types, d, m),
                 d # "cp", m.type \notin {"Order", "Trade"}
          PROVE  K
      BY <1>1, <1>2, <3>1, StepKeeps
    <3>2. K
      <4>1. CASE OnData(i)
        BY <1>1, <1>2, <3>1, <4>1, CpEffects, MsgTypes
      <4>2. CASE OnMatch(i)
        BY <1>1, <1>2, <3>1, <4>2, CpEffects, MsgTypes
      <4>3. CASE OnTermination(i)
        BY <1>1, <1>2, <3>1, <4>3, CpEffects, MsgTypes
      <4> QED
        BY <2>4, <4>1, <4>2, <4>3
    <3> QED
      BY <2>4, <3>2 DEF NoOrderStep, OnData, OnMatch, OnTermination, loops
  <2> QED
    BY <1>4, <2>1, <2>2, <2>3, <2>4 DEF CpNext, OrderStep
<1>5. CASE MdWork
  <2>1. UNCHANGED books /\ toMatch' = toMatch
    BY <1>5 DEF MdWork, MdAnswer, Serve, MdStart, MdSignal, MdStop, loops
  <2>2. ASSUME NEW i, MdStart(i) \/ MdSignal(i) \/ MdStop(i)
        PROVE  K
    BY <1>1, <1>2, <2>2, MdEffects, StepKeeps
  <2>3. ASSUME NEW s \in Services, Serve(s)
        PROVE  K
    <3>1. CASE ServeUnusable(s)
      BY <1>1, <1>2, <3>1, MdEffects, StepKeeps
    <3>2. CASE ServeBar(s) \/ ServeEnd(s)
      <4>1. PICK m : Adds("cp", m) /\ m.type \notin {"Order", "Trade"}
        BY <1>1, <3>2, MdEffects, MsgTypes
      <4> QED
        BY <1>1, <1>2, <4>1, StepKeeps
    <3> QED
      BY <2>3, <3>1, <3>2 DEF Serve
  <2>4. ASSUME MdAnswer
        PROVE  K
    <3>1. CASE success
      <4>1. PICK m : Adds("cp", m) /\ m.type \notin {"Order", "Trade"}
        BY <1>1, <2>4, <3>1, MdEffects, MsgTypes
      <4> QED
        BY <1>1, <1>2, <4>1, StepKeeps
    <3>2. CASE ~ success
      <4>1. Same
        BY <1>1, <2>4, <3>2, MdEffects
      <4> QED
        BY <1>1, <1>2, <4>1, StepKeeps
    <3> QED
      BY <3>1, <3>2
  <2> QED
    BY <1>5, <2>1, <2>2, <2>3, <2>4 DEF MdWork, NoOrderStep
<1>6. CASE TdWork
  <2>1. ASSUME NEW i, TdStart(i) \/ TdSignal(i) \/ TdStop(i)
        PROVE  NoOrderStep
    <3>1. K
      BY <1>1, <1>2, <2>1, TdEffects, StepKeeps
    <3> QED
      BY <2>1, <3>1 DEF NoOrderStep, TdStart, TdSignal, TdStop, loops, InProgress
  <2>2. CASE TdAnswer
    <3>1. PICK m : Adds("cp", m) /\ m.type = "MatchOrder"
      BY <1>1, <2>2, TdEffects, MsgTypes
    <3>2. K
      BY <1>1, <1>2, <3>1, StepKeeps
    <3> QED
      BY <2>2, <3>2 DEF NoOrderStep, TdAnswer
  <2> QED
    BY <1>6, <2>1, <2>2 DEF TdWork, OrderStep
<1> QED
  BY <1>3, <1>4, <1>5, <1>6 DEF Step

\* An order of its own that changes: the frames about orders, for each step.
LEMMA Sends ==
  ASSUME IInv, NEW o \in Orders, NEW w \in Wanted, SendOrder(o, w)
  PROVE  OrderInv'
<1>1. TypeOK /\ FrameInv /\ OrderInv /\ FrameInv'
  BY Frames_ DEF IInv, Step, CpNext
<1>2. "cp" \in Engines /\ "td" \in Engines
  BY DEF Engines
<1>3. /\ order \in [Orders -> Progress] /\ order[o] = "new" /\ w # None
      /\ order' = [order EXCEPT ![o] = "sent"] /\ deal' = [deal EXCEPT ![o] = w]
      /\ toMatch' = toMatch /\ deal \in [Orders -> Wanted \cup {None}]
      /\ toMatch \subseteq Orders
  BY <1>1, NoneIsNothing DEF SendOrder, TypeOK, loops
<1>4. PICK m : Adds("td", m) /\ m.type = "Order" /\ m.order = o
  BY <1>1, CpEffects, MsgTypes
<1>5. inbox'["cp"] = inbox["cp"] /\ Added(inbox["td"], m, inbox'["td"])
  BY <1>2, <1>4 DEF Adds
<1>6. inbox["td"] \in Seq(Frames)
  BY <1>1, <1>2 DEF TypeOK
<1>7. PICK q, r : q \in Seq(Frames) /\ q = inbox["td"] /\ r = inbox'["td"]
  BY <1>6
<1>8. PICK sent, filled : sent = InProgress("sent") /\ filled = InProgress("filled")
  OBVIOUS
<1>9. InProgress("sent")' = sent \cup {o} /\ InProgress("filled")' = filled /\ o \notin sent
  BY <1>3, <1>8 DEF InProgress
<1>10. Only(q, "Order", sent) /\ Uniq(q, "Order")
  BY <1>1, <1>7, <1>8, OrderInvIs
<1>11. Only(r, "Order", sent \cup {o}) /\ Uniq(r, "Order")
  BY <1>4, <1>5, <1>7, <1>9, <1>10, AddedOnly
<1>12. Only(inbox'["cp"], "Trade", filled) /\ Uniq(inbox'["cp"], "Trade")
  BY <1>1, <1>5, <1>8, OrderInvIs
<1>13. \A a \in Orders : (deal'[a] = None) = (order'[a] = "new")
  BY <1>1, <1>3 DEF OrderInv
<1>14. \A a \in toMatch' : order'[a] = "accepted"
  BY <1>1, <1>3 DEF OrderInv
<1> QED
  BY <1>1, <1>7, <1>9, <1>11, <1>12, <1>13, <1>14, OrderInvNext

LEMMA Accepts ==
  ASSUME IInv, NEW i, TdOrder(i)
  PROVE  /\ OrderInv'
         /\ inbox["td"][i].order \in Orders /\ order[inbox["td"][i].order] = "sent"
         /\ \E p \in Progress \ {"new", "booked"} :
              order' = [order EXCEPT ![inbox["td"][i].order] = p]
<1>1. TypeOK /\ PlaceInv /\ FrameInv /\ OrderInv
  BY DEF IInv
<1>2. "cp" \in Engines /\ "td" \in Engines
  BY DEF Engines
<1>3. /\ i \in DOMAIN inbox["td"] /\ inbox["td"][i].type = "Order"
      /\ Dropped(inbox["td"], i, inbox'["td"]) /\ inbox'["cp"] = inbox["cp"]
  BY <1>1, <1>2, TdEffects DEF Drops
<1>4. FrameInv'
  BY <1>3, Frames_ DEF Step, TdWork
<1>5. inbox["td"][i].order \in Orders /\ order[inbox["td"][i].order] = "sent"
  BY <1>1, <1>3 DEF FrameInv, OrderInv
<1>6. PICK o \in Orders : o = inbox["td"][i].order
  BY <1>5
<1>7. PICK p \in Progress \ {"new", "sent", "filled", "booked"} :
        order' = [order EXCEPT ![o] = p]
  BY <1>6 DEF TdOrder, Progress
<1>8. /\ order \in [Orders -> Progress] /\ order[o] = "sent"
      /\ deal' = deal /\ toMatch' = toMatch /\ toMatch \subseteq Orders
  BY <1>1, <1>5, <1>6 DEF TdOrder, TypeOK, loops
<1>9. inbox["td"] \in Seq(Frames)
  BY <1>1, <1>2 DEF TypeOK
<1>10. PICK q, r : q \in Seq(Frames) /\ q = inbox["td"] /\ r = inbox'["td"]
  BY <1>9
<1>11. PICK sent, filled : sent = InProgress("sent") /\ filled = InProgress("filled")
  OBVIOUS
<1>12. InProgress("sent")' = sent \ {o} /\ InProgress("filled")' = filled
  BY <1>7, <1>8, <1>11 DEF InProgress
<1>13. Only(q, "Order", sent) /\ Uniq(q, "Order")
  BY <1>1, <1>10, <1>11, OrderInvIs
<1>14. Dropped(q, i, r) /\ q[i].type = "Order" /\ q[i].order = o
  BY <1>3, <1>6, <1>10
<1>15. Only(r, "Order", sent \ {o}) /\ Uniq(r, "Order")
  BY <1>10, <1>13, <1>14, DroppedOnly
<1>16. Only(inbox'["cp"], "Trade", filled) /\ Uniq(inbox'["cp"], "Trade")
  BY <1>1, <1>3, <1>11, OrderInvIs
<1>17. \A a \in Orders : (deal'[a] = None) = (order'[a] = "new")
  BY <1>1, <1>7, <1>8 DEF OrderInv
<1>18. \A a \in toMatch' : order'[a] = "accepted"
  BY <1>1, <1>7, <1>8 DEF OrderInv
<1>19. OrderInv'
  BY <1>4, <1>10, <1>12, <1>15, <1>16, <1>17, <1>18, OrderInvNext
<1> QED
  BY <1>5, <1>6, <1>7, <1>19

LEMMA Matches ==
  ASSUME IInv, NEW o \in Orders, Match(o)
  PROVE  /\ OrderInv' /\ order[o] = "accepted"
         /\ \E p \in Progress \ {"new", "booked"} : order' = [order EXCEPT ![o] = p]
<1>1. TypeOK /\ PlaceInv /\ FrameInv /\ OrderInv
  BY DEF IInv
<1>2. "cp" \in Engines /\ "td" \in Engines
  BY DEF Engines
<1>3. FrameInv'
  BY Frames_ DEF Step, TdWork
<1>4. /\ order \in [Orders -> Progress] /\ order[o] = "accepted"
      /\ deal' = deal /\ toMatch' = toMatch \ {o} /\ toMatch \subseteq Orders
  BY <1>1 DEF Match, OrderInv, TypeOK
<1>5. PICK sent, filled : sent = InProgress("sent") /\ filled = InProgress("filled")
  OBVIOUS
<1>6. /\ Only(inbox["td"], "Order", sent) /\ Uniq(inbox["td"], "Order")
      /\ Only(inbox["cp"], "Trade", filled) /\ Uniq(inbox["cp"], "Trade")
  BY <1>1, <1>5, OrderInvIs
<1>7. CASE NoFunds(o)
  <2>1. order' = [order EXCEPT ![o] = "error"] /\ inbox' = inbox
    BY <1>7 DEF NoFunds
  <2>2. InProgress("sent")' = sent /\ InProgress("filled")' = filled
    BY <1>4, <1>5, <2>1 DEF InProgress
  <2>3. \A a \in Orders : (deal'[a] = None) = (order'[a] = "new")
    BY <1>1, <1>4, <2>1 DEF OrderInv
  <2>4. \A a \in toMatch' : order'[a] = "accepted"
    BY <1>1, <1>4, <2>1 DEF OrderInv
  <2>5. OrderInv'
    BY <1>3, <1>6, <2>1, <2>2, <2>3, <2>4, OrderInvNext
  <2> QED
    BY <1>4, <2>1, <2>5 DEF Progress
<1>8. CASE Fill(o)
  <2>1. order' = [order EXCEPT ![o] = "filled"]
    BY <1>8 DEF Fill
  <2>2. PICK m : Adds("cp", m) /\ m.type = "Trade" /\ m.order = o
    BY <1>1, <1>8, TdEffects, MsgTypes
  <2>3. /\ Added(inbox["cp"], m, inbox'["cp"]) /\ inbox'["td"] = inbox["td"]
        /\ inbox["cp"] \in Seq(Frames)
    BY <1>1, <1>2, <2>2 DEF Adds, TypeOK
  <2>4. PICK q, r : q \in Seq(Frames) /\ q = inbox["cp"] /\ r = inbox'["cp"]
    BY <2>3
  <2>5. /\ InProgress("sent")' = sent /\ InProgress("filled")' = filled \cup {o}
        /\ o \notin filled
    BY <1>4, <1>5, <2>1 DEF InProgress
  <2>6. Only(r, "Trade", filled \cup {o}) /\ Uniq(r, "Trade")
    BY <1>6, <2>2, <2>3, <2>4, <2>5, AddedOnly
  <2>7. \A a \in Orders : (deal'[a] = None) = (order'[a] = "new")
    BY <1>1, <1>4, <2>1 DEF OrderInv
  <2>8. \A a \in toMatch' : order'[a] = "accepted"
    BY <1>1, <1>4, <2>1 DEF OrderInv
  <2>9. OrderInv'
    BY <1>3, <1>6, <2>3, <2>4, <2>5, <2>6, <2>7, <2>8, OrderInvNext
  <2> QED
    BY <1>4, <2>1, <2>9 DEF Progress
<1> QED
  BY <1>7, <1>8 DEF Match

LEMMA BooksTrade ==
  ASSUME IInv, NEW i, OnTrade(i)
  PROVE  /\ OrderInv'
         /\ \E o \in Orders :
              /\ order[o] = "filled" /\ order' = [order EXCEPT ![o] = "booked"]
              /\ deal[o] \in Deals /\ deal' = deal
              /\ positions' = Update(positions, deal[o])
              /\ bought' = bought + Signed(deal[o])
<1>1. TypeOK /\ PlaceInv /\ FrameInv /\ OrderInv
  BY DEF IInv
<1>2. "cp" \in Engines /\ "td" \in Engines
  BY DEF Engines
<1>3. /\ i \in DOMAIN inbox["cp"] /\ inbox["cp"][i].type = "Trade"
      /\ Dropped(inbox["cp"], i, inbox'["cp"]) /\ inbox'["td"] = inbox["td"]
  BY <1>1, <1>2, CpEffects DEF Drops
<1>4. FrameInv'
  BY <1>3, Frames_ DEF Step, CpNext
<1>5. inbox["cp"][i].order \in Orders /\ order[inbox["cp"][i].order] = "filled"
  BY <1>1, <1>3 DEF FrameInv, OrderInv
<1>6. PICK o \in Orders : o = inbox["cp"][i].order
  BY <1>5
<1>7. /\ order \in [Orders -> Progress] /\ order[o] = "filled"
      /\ order' = [order EXCEPT ![o] = "booked"]
      /\ deal' = deal /\ toMatch' = toMatch /\ toMatch \subseteq Orders
  BY <1>1, <1>5, <1>6 DEF OnTrade, TypeOK, loops
<1>8. inbox["cp"] \in Seq(Frames)
  BY <1>1, <1>2 DEF TypeOK
<1>9. PICK q, r : q \in Seq(Frames) /\ q = inbox["cp"] /\ r = inbox'["cp"]
  BY <1>8
<1>10. PICK sent, filled : sent = InProgress("sent") /\ filled = InProgress("filled")
  OBVIOUS
<1>11. InProgress("sent")' = sent /\ InProgress("filled")' = filled \ {o}
  BY <1>7, <1>10 DEF InProgress
<1>12. Only(q, "Trade", filled) /\ Uniq(q, "Trade")
  BY <1>1, <1>9, <1>10, OrderInvIs
<1>13. Dropped(q, i, r) /\ q[i].type = "Trade" /\ q[i].order = o
  BY <1>3, <1>6, <1>9
<1>14. Only(r, "Trade", filled \ {o}) /\ Uniq(r, "Trade")
  BY <1>9, <1>12, <1>13, DroppedOnly
<1>15. Only(inbox'["td"], "Order", sent) /\ Uniq(inbox'["td"], "Order")
  BY <1>1, <1>3, <1>10, OrderInvIs
<1>16. \A a \in Orders : (deal'[a] = None) = (order'[a] = "new")
  BY <1>1, <1>7 DEF OrderInv
<1>17. \A a \in toMatch' : order'[a] = "accepted"
  BY <1>1, <1>7 DEF OrderInv
<1>18. OrderInv'
  BY <1>4, <1>9, <1>11, <1>14, <1>15, <1>16, <1>17, OrderInvNext
<1>19. deal[o] \in Deals
  BY <1>1, <1>7, SentIsDeal
<1>20. positions' = Update(positions, deal[o]) /\ bought' = bought + Signed(deal[o])
  BY <1>6 DEF OnTrade
<1> QED
  BY <1>7, <1>18, <1>19, <1>20

LEMMA Orders_ ==
  ASSUME IInv, Step
  PROVE  OrderInv'
<1>1. TypeOK /\ FrameInv /\ OrderInv /\ FrameInv'
  BY Frames_ DEF IInv
<1>2. CASE NoOrderStep
  <2>1. deal' = deal /\ order' = order
    BY <1>2 DEF NoOrderStep, books
  <2>2. InProgress("sent")' = InProgress("sent") /\ InProgress("filled")' = InProgress("filled")
    BY <2>1 DEF InProgress
  <2>3. /\ Only(inbox'["td"], "Order", InProgress("sent")) /\ Uniq(inbox'["td"], "Order")
        /\ Only(inbox'["cp"], "Trade", InProgress("filled")) /\ Uniq(inbox'["cp"], "Trade")
    BY <1>1, <1>2, OrderInvIs DEF NoOrderStep, Keeps
  <2>4. \A o \in toMatch' : order'[o] = "accepted"
    BY <1>1, <1>2, <2>1 DEF NoOrderStep, OrderInv, InProgress
  <2>5. \A o \in Orders : (deal'[o] = None) = (order'[o] = "new")
    BY <1>1, <2>1 DEF OrderInv
  <2> QED
    BY <1>1, <2>2, <2>3, <2>4, <2>5, OrderInvNext
<1> QED
  BY <1>2, OrderSteps, Sends, Accepts, Matches, BooksTrade DEF OrderStep

-----------------------------------------------------------------------------
\* Closes, and the book

\* An order in progress stays in progress: nothing is asked to be closed anew.
LEMMA CloseKept ==
  ASSUME TypeOK, CloseInv, NEW o \in Orders, NEW p \in Progress \ {"new", "booked"},
         order[o] \notin {"new", "booked"}, order' = [order EXCEPT ![o] = p],
         deal' = deal, positions' = positions
  PROVE  CloseInv'
<1>1. \A a \in Orders : Closing(a)' <=> Closing(a)
  BY DEF Closing, TypeOK
<1> QED
  BY <1>1 DEF CloseInv

LEMMA CloseSent ==
  ASSUME TypeOK, CloseInv, NEW o \in Orders, NEW w \in Wanted, SendOrder(o, w)
  PROVE  CloseInv'
<1>1. /\ order \in [Orders -> Progress] /\ deal \in [Orders -> Wanted \cup {None}]
      /\ order[o] = "new" /\ positions' = positions /\ Careful(w)
      /\ order' = [order EXCEPT ![o] = "sent"] /\ deal' = [deal EXCEPT ![o] = w]
  BY DEF SendOrder, TypeOK
<1>2. \A a \in Orders \ {o} : (Closing(a)' <=> Closing(a)) /\ deal'[a] = deal[a]
  BY <1>1 DEF Closing
<1>3. deal'[o] = w /\ (Closing(o)' <=> w.offset = "Close")
  BY <1>1 DEF Closing
<1>4. w.offset = "Close" =>
        \A a \in Orders \ {o} : Closing(a) => DirectionOf(deal[a]) # DirectionOf(w)
  BY <1>1 DEF Careful, Closing
<1>5. ASSUME NEW a \in Orders, Closing(a)'
      PROVE  Covered(positions', deal'[a])
  <2>1. CASE a = o
    BY <1>1, <1>3, <1>5, <2>1 DEF Careful
  <2>2. CASE a # o
    BY <1>1, <1>2, <1>5, <2>2 DEF CloseInv
  <2> QED
    BY <2>1, <2>2
<1>6. ASSUME NEW a \in Orders, NEW b \in Orders, Closing(a)', Closing(b)', a # b
      PROVE  DirectionOf(deal'[a]) # DirectionOf(deal'[b])
  <2>1. CASE a = o
    BY <1>2, <1>3, <1>4, <1>6, <2>1
  <2>2. CASE b = o
    BY <1>2, <1>3, <1>4, <1>6, <2>2
  <2>3. CASE a # o /\ b # o
    BY <1>2, <1>6, <2>3 DEF CloseInv
  <2> QED
    BY <2>1, <2>2, <2>3
<1> QED
  BY <1>5, <1>6 DEF CloseInv

\* A trade is booked: the closes that are left are about the other direction,
\* or about a position that grew.
LEMMA CloseBooked ==
  ASSUME TypeOK, OrderInv, CloseInv, NEW o \in Orders, order[o] = "filled",
         order' = [order EXCEPT ![o] = "booked"], deal[o] \in Deals, deal' = deal,
         positions' = Update(positions, deal[o])
  PROVE  CloseInv' /\ Covered(positions, deal[o])
<1>1. order \in [Orders -> Progress] /\ positions \in Positions
  BY DEF TypeOK
<1>2. \A a \in Orders : Closing(a)' <=> a # o /\ Closing(a)
  BY <1>1 DEF Closing
<1>3. Covered(positions, deal[o])
  BY DEF CloseInv, Closing, Covered
<1>4. ASSUME NEW a \in Orders, a # o, Closing(a)
      PROVE  Covered(positions', deal[a])
  <2>1. deal[a] \in Deals /\ deal[a].offset = "Close"
    BY <1>4, SentIsDeal DEF Closing
  <2>2. PICK t, u, p, p2 :
          /\ t \in Deals /\ u \in Deals /\ p \in Positions
          /\ t = deal[o] /\ u = deal[a] /\ p = positions /\ p2 = positions'
    BY <1>1, <2>1
  <2>3. u.offset = "Close" /\ u.volume <= p[DirectionOf(u)] /\ p2 = Update(p, t)
    BY <1>4, <2>1, <2>2 DEF CloseInv, Covered
  <2>4. t.offset = "Open" \/ t.offset = "Close"
    BY <2>2 DEF Deals
  <2>5. DirectionOf(u) \in Directions /\ DirectionOf(t) \in Directions
    BY DEF DirectionOf, Directions
  <2>6. p \in [Directions -> Nat] /\ u.volume \in Nat
    BY <2>2 DEF Positions, Deals
  <2>7. p2[DirectionOf(u)] \in Nat
    BY <2>2, <2>3, <2>5, UpdateBooks DEF Positions
  <2>8. CASE DirectionOf(t) # DirectionOf(u)
    <3>1. p2[DirectionOf(u)] = p[DirectionOf(u)]
      BY <2>2, <2>3, <2>5, <2>8, UpdateBooks
    <3> QED
      BY <2>2, <2>3, <3>1 DEF Covered
  <2>9. CASE DirectionOf(t) = DirectionOf(u)
    <3>1. t.offset = "Open"
      BY <1>4, <2>1, <2>2, <2>4, <2>9 DEF CloseInv, Closing
    <3>2. p2[DirectionOf(u)] >= p[DirectionOf(u)]
      BY <2>2, <2>3, <2>9, <3>1, UpdateBooks
    <3>3. u.volume <= p2[DirectionOf(u)]
      BY <2>3, <2>5, <2>6, <2>7, <3>2
    <3> QED
      BY <2>2, <3>3 DEF Covered
  <2> QED
    BY <2>8, <2>9
<1> QED
  BY <1>2, <1>3, <1>4 DEF CloseInv

LEMMA Closes_ ==
  ASSUME IInv, Step
  PROVE  CloseInv'
<1>1. TypeOK /\ OrderInv /\ CloseInv
  BY DEF IInv
<1>2. CASE NoOrderStep
  <2>1. deal' = deal /\ order' = order /\ positions' = positions
    BY <1>2 DEF NoOrderStep, books
  <2> QED
    BY <1>1, <2>1 DEF CloseInv, Closing
<1>3. ASSUME NEW i, TdOrder(i)
      PROVE  CloseInv'
  <2>1. deal' = deal /\ positions' = positions
    BY <1>3 DEF TdOrder
  <2> QED
    BY <1>1, <1>3, <2>1, Accepts, CloseKept
<1>4. ASSUME NEW o \in Orders, Match(o)
      PROVE  CloseInv'
  <2>1. deal' = deal /\ positions' = positions
    BY <1>4 DEF Match
  <2> QED
    BY <1>1, <1>4, <2>1, Matches, CloseKept
<1>5. ASSUME NEW i, OnTrade(i)
      PROVE  CloseInv'
  BY <1>1, <1>5, BooksTrade, CloseBooked
<1> QED
  BY <1>1, <1>2, <1>3, <1>4, <1>5, OrderSteps, CloseSent DEF OrderStep

LEMMA Nets_ ==
  ASSUME IInv, Step
  PROVE  NetIsBought'
<1>1. TypeOK /\ OrderInv /\ CloseInv /\ NetIsBought
  BY DEF IInv
<1>2. CASE NoOrderStep
  BY <1>1, <1>2 DEF NoOrderStep, books, NetIsBought
<1>3. ASSUME \/ \E o \in Orders, w \in Wanted : SendOrder(o, w)
             \/ \E i : TdOrder(i)
             \/ \E o \in Orders : Match(o)
      PROVE  NetIsBought'
  <2>1. positions' = positions /\ bought' = bought
    BY <1>3 DEF SendOrder, TdOrder, Match
  <2> QED
    BY <1>1, <2>1 DEF NetIsBought
<1>4. ASSUME NEW i, OnTrade(i)
      PROVE  NetIsBought'
  <2>1. PICK o \in Orders :
          /\ order[o] = "filled" /\ order' = [order EXCEPT ![o] = "booked"]
          /\ deal[o] \in Deals /\ deal' = deal
          /\ positions' = Update(positions, deal[o])
          /\ bought' = bought + Signed(deal[o])
    BY <1>4, BooksTrade
  <2>2. Covered(positions, deal[o])
    BY <1>1, <2>1, CloseBooked
  <2>3. positions \in Positions
    BY <1>1 DEF TypeOK
  <2>4. PICK p \in Positions, t \in Deals : p = positions /\ t = deal[o]
    BY <2>1, <2>3
  <2>5. Net(Update(p, t)) = Net(p) + Signed(t)
    BY <2>2, <2>4, UpdateBooks
  <2>6. Net(p) = bought
    BY <1>1, <2>4 DEF NetIsBought
  <2> QED
    BY <2>1, <2>4, <2>5, <2>6 DEF NetIsBought
<1> QED
  BY <1>2, <1>3, <1>4, OrderSteps DEF OrderStep

-----------------------------------------------------------------------------
\* Every step keeps the invariant.
LEMMA StepKeepsAll ==
  ASSUME IInv, Step, late' \subseteq late
  PROVE  IInv'
BY Types_, Places, Frames_, Turns_, Ends_, Trades_, Bars_, Starts_, Rows_, Orders_,
   Closes_, Nets_, Ignored_ DEF IInv

\* The process dies at a row that is too short: md has the turn, so that no
\* signal is under way, and no trade is waiting.
LEMMA FaultKeepsAll ==
  ASSUME IInv, NEW s \in Services, ServeFault(s)
  PROVE  IInv'
<1>1. /\ TypeOK /\ FrameInv /\ OneSignal(inbox, pc, Starting) /\ TradeInv /\ BarInv
      /\ StartInv /\ RowInv /\ OrderInv /\ CloseInv /\ NetIsBought /\ NoneIgnored
  BY OneTurnIs DEF IInv
<1>2. /\ pc["md"] = "serving" /\ pc' = [e \in Engines |-> "crashed"]
      /\ UNCHANGED <<late, inbox, loops, started, row, books, early>>
  BY DEF ServeFault
<1>3. /\ UNCHANGED <<toWrite, toServe, toMatch, success, signal>>
      /\ UNCHANGED <<deal, order, positions, bought>>
  BY <1>2 DEF loops, books
<1>4. \A e \in Engines : pc'[e] = "crashed"
  BY <1>2
<1>5. pc'["md"] = "crashed" /\ pc'["cp"] = "crashed" /\ pc'["td"] = "crashed"
  BY <1>4 DEF Engines
<1>6. "md" \in Engines /\ "cp" \in Engines /\ "td" \in Engines
  BY DEF Engines
<1>7. /\ \A e \in Engines : ~ Holds(inbox[e], Signals)
      /\ ~ Starting /\ pc["td"] # "matching"
  BY <1>1, <1>2 DEF OneSignal
<1>8. ~ Starting'
  BY <1>5 DEF Starting
<1>9. TypeOK'
  <2>1. pc' \in [Engines -> {"new", "starting", "preparing", "idle", "strategies",
                            "serving", "matching", "ending", "stopped", "crashed"}]
    BY <1>2
  <2> QED
    BY <1>1, <1>2, <1>3, <2>1 DEF TypeOK
<1>10. PlaceInv' /\ FrameInv'
  BY <1>1, <1>2, <1>5 DEF PlaceInv, FrameInv
<1>11. OneTurn'
  <2>1. OneSignal(inbox', pc', Starting')
    BY <1>1, <1>2, <1>5, <1>8 DEF OneSignal
  <2> QED
    BY <2>1, OneTurnIs
<1>12. EndInv'
  <2>1. EndOf(inbox', pc', Starting', success')
    BY <1>2, <1>5, <1>7, <1>8 DEF EndOf
  <2> QED
    BY <2>1, EndInvIs
<1>13. ~ Holds(inbox["cp"], {"Trade"})
  <2>1. ~ Holds(inbox["cp"], Signals)
    BY <1>6, <1>7
  <2> QED
    BY <1>1, <1>7, <2>1 DEF TradeInv, Holds, Signals
<1>14. TradeInv'
  BY <1>2, <1>13 DEF TradeInv, Holds
<1>15. BarInv'
  <2>1. ~ TdBusy(inbox'["td"], pc'["td"])
    BY <1>2, <1>5, <1>6, <1>7 DEF TdBusy
  <2>2. BarsBefore(inbox'["cp"])
    BY <1>1, <1>2, BarInvIs
  <2> QED
    BY <2>1, <2>2, BarInvIs
<1>16. StartInv'
  <2>1. ~ ToStart(pc["cp"], toWrite)
    BY <1>7 DEF ToStart, Starting
  <2> QED
    BY <1>1, <1>2, <2>1 DEF StartInv
<1>17. RowInv'
  <2>1. Ended'
    BY <1>5 DEF Ended
  <2>2. \A t \in Services : HasRow(t)' <=> HasRow(t)
    BY <1>2 DEF HasRow
  <2> QED
    BY <1>1, <1>2, <1>3, <1>5, <2>1, <2>2 DEF RowInv
<1>18. OrderInv' /\ CloseInv' /\ NetIsBought' /\ NoneIgnored'
  BY <1>1, <1>2, <1>3 DEF OrderInv, CloseInv, Closing, NetIsBought, NoneIgnored
<1> QED
  BY <1>9, <1>10, <1>11, <1>12, <1>14, <1>15, <1>16, <1>17, <1>18 DEF IInv

LEMMA Steps ==
  ASSUME IInv, [Next]_vars
  PROVE  IInv'
BY NextIs, LateShrinks, StepKeepsAll, FaultKeepsAll

\* The inductive invariant of a backtest, for any services, files and orders.
THEOREM Invariance == Spec => []IInv
<1>1. Init => IInv
  BY InitIInv
<1>2. IInv /\ [Next]_vars => IInv'
  BY Steps
<1> QED
  BY <1>1, <1>2, PTL DEF Spec

\* TypeOK for every value of the constants: no engine gets a frame that its
\* reader does not expect, and no loop leaves what it runs over.
THEOREM TypeCorrect == Spec => []TypeOK
<1>1. IInv => TypeOK
  BY DEF IInv
<1> QED
  BY <1>1, Invariance, PTL

\* LiveSubscriber and the two engines never have two turns under way.
THEOREM OneTurnHolds == Spec => []OneTurn
<1>1. IInv => OneTurn
  BY DEF IInv
<1> QED
  BY <1>1, Invariance, PTL

\* No row is read, and no engine ended, before the trades are booked: they
\* stand before the signal of TDEngine that lets MDEngine go on.
THEOREM BookHolds == Spec => []BookIsUpToDate
<1>1. IInv => BookIsUpToDate
  <2> SUFFICES ASSUME IInv, pc["md"] = "serving" \/ pc["cp"] \in {"ending", "stopped"},
                      Waits("cp", {"Trade"})
               PROVE  FALSE
    BY DEF BookIsUpToDate
  <2>1. /\ OneSignal(inbox, pc, Starting) /\ TradeInv
        /\ Ended => EndOf(inbox, pc, Starting, success)
    BY OneTurnIs, EndInvIs DEF IInv
  <2>2. "cp" \in Engines
    BY DEF Engines
  <2>3. pc["td"] = "matching" \/ Holds(inbox["cp"], Signals)
    BY <2>1 DEF Waits, TradeInv, Holds, Signals
  <2>4. CASE pc["md"] = "serving"
    BY <2>1, <2>2, <2>3, <2>4 DEF OneSignal
  <2>5. CASE pc["cp"] \in {"ending", "stopped"}
    BY <2>1, <2>2, <2>3, <2>5 DEF Ended, EndOf
  <2> QED
    BY <2>4, <2>5
<1> QED
  BY <1>1, Invariance, PTL

\* The strategies have seen the bars before the orders are matched, unless
\* Reader::sort handed cp the signal before a bar.
THEOREM BarsHold == Spec => []BarsComeFirst
<1>1. IInv => BarsComeFirst
  BY DEF IInv, BarInv, BarsComeFirst
<1> QED
  BY <1>1, Invariance, PTL

\* TDEngine::insert_order throws an order away because the broker has not
\* started only where td joined the account's journal late, in the clock reading
\* of its construction, and so skipped the TradingStart that pre_start writes.
THEOREM NoneIgnoredHolds == Spec => []NoneIgnored
<1>1. IInv => NoneIgnored
  BY DEF IInv
<1> QED
  BY <1>1, Invariance, PTL

\* FileDataServices are never more than the row of one turn apart.
THEOREM RowsHold == Spec => []RowsInStep
<1>1. IInv => RowsInStep
  <2> SUFFICES ASSUME IInv, NEW s \in Services, NEW t \in Services
               PROVE  row[s] <= row[t] + (IF (t \in toServe /\ s \notin toServe)
                                             \/ ~ HasRow(t) THEN 1 ELSE 0)
    BY DEF RowsInStep
  <2>1. RowInv /\ row[s] \in Nat /\ row[t] \in Nat
    BY DEF IInv, TypeOK
  <2>2. CASE s \in toServe /\ t \in toServe
    <3>1. row[s] = row[t]
      BY <2>1, <2>2 DEF RowInv
    <3> QED
      BY <2>1, <3>1
  <2>3. CASE s \notin toServe /\ t \in toServe
    <3>1. row[s] = row[t] + 1 \/ row[s] = row[t]
      BY <2>1, <2>3 DEF RowInv
    <3> QED
      BY <2>1, <2>3, <3>1
  <2>4. CASE s \in toServe /\ t \notin toServe
    <3>1. row[t] = row[s] + 1 \/ row[t] = row[s]
      BY <2>1, <2>4 DEF RowInv
    <3> QED
      BY <2>1, <3>1
  <2>5. CASE s \notin toServe /\ t \notin toServe
    <3>1. row[s] <= row[t] + (IF HasRow(t) THEN 0 ELSE 1)
      BY <2>1, <2>5 DEF RowInv
    <3> QED
      BY <2>1, <2>5, <3>1
  <2> QED
    BY <2>2, <2>3, <2>4, <2>5
<1> QED
  BY <1>1, Invariance, PTL

\* With strategies that close no more than they hold, PositionBook::update
\* keeps the book equal to what was bought less what was sold.
THEOREM NetHolds == Spec => []NetIsBought
<1>1. IInv => NetIsBought
  BY DEF IInv
<1> QED
  BY <1>1, Invariance, PTL

-----------------------------------------------------------------------------
\* The refinement of Turns

LEMMA TurnIs ==
  /\ DataTurn <=> \/ Holds(inbox["md"], Signals) \/ pc["md"] = "serving"
                  \/ Holds(inbox["cp"], {"MarketData"})
  /\ MatchTurn <=> \/ Holds(inbox["td"], Signals) \/ pc["td"] = "matching"
                   \/ Holds(inbox["cp"], {"MatchOrder"})
  /\ DataTurn' <=> \/ Holds(inbox'["md"], Signals) \/ pc'["md"] = "serving"
                   \/ Holds(inbox'["cp"], {"MarketData"})
  /\ MatchTurn' <=> \/ Holds(inbox'["td"], Signals) \/ pc'["td"] = "matching"
                    \/ Holds(inbox'["cp"], {"MatchOrder"})
BY DEF DataTurn, MatchTurn, Waits, Holds

\* Every step takes the turn on, or leaves it alone.
LEMMA StepTurns ==
  ASSUME IInv, Step
  PROVE  [T!Next]_Turn
<1>1. /\ TypeOK /\ PlaceInv /\ OneSignal(inbox, pc, Starting)
      /\ Ended => EndOf(inbox, pc, Starting, success)
      /\ pc["md"] = "serving" /\ ~ success => Ended
  BY OneTurnIs, EndInvIs DEF IInv, RowInv
<1>2. "md" \in Engines /\ "cp" \in Engines /\ "td" \in Engines
  BY DEF Engines
<1>3. "MarketData" \in Signals /\ "MatchOrder" \in Signals
  BY DEF Signals
<1>4. \A e \in Engines, t \in Signals : Holds(inbox[e], {t}) => Holds(inbox[e], Signals)
  BY <1>3, SignalTypes DEF Signals
<1>5. \A e \in Engines : Holds(inbox'[e], Signals) <=>
        Holds(inbox'[e], {"MarketData"}) \/ Holds(inbox'[e], {"MatchOrder"})
  BY SignalTypes
<1>6. CASE CalmStep
  <2>1. \A e \in Engines, t \in Signals : Holds(inbox'[e], {t}) <=> Holds(inbox[e], {t})
    BY <1>6 DEF CalmStep, CalmQueues, Calm
  <2>2. \A e \in Engines : Holds(inbox'[e], Signals) <=> Holds(inbox[e], Signals)
    BY <1>3, <2>1, SignalTypes
  <2>3. (DataTurn' <=> DataTurn) /\ (MatchTurn' <=> MatchTurn) /\ (Starting' <=> Starting)
    BY <1>2, <1>3, <1>6, <2>1, <2>2, TurnIs DEF CalmStep
  <2> QED
    BY <2>3 DEF Turn
<1>7. CASE FirstSignal
  <2>1. Starting /\ ~ Starting' /\ SignalAt("md", "MarketData")
    BY <1>7, SignalSteps
  <2>2. DataTurn'
    BY <1>2, <1>3, <1>5, <2>1, TurnIs DEF SignalAt
  <2> QED
    BY <2>1, <2>2 DEF Turn, T!Next, T!Begin
<1>8. ASSUME NEW i, OnData(i)
      PROVE  [T!Next]_Turn
  <2>1. /\ Holds(inbox["cp"], {"MarketData"}) /\ SignalAt("td", "MatchOrder")
        /\ UNCHANGED pc
    BY <1>8, SignalSteps
  <2>2. DataTurn /\ ~ Starting /\ pc["md"] # "serving"
    BY <1>1, <1>2, <1>3, <1>4, <2>1, TurnIs DEF OneSignal
  <2>3. ~ Starting'
    BY <2>1, <2>2 DEF Starting
  <2>4. ~ DataTurn' /\ MatchTurn'
    BY <1>2, <1>3, <1>5, <2>1, <2>2, TurnIs DEF SignalAt, Engines
  <2> QED
    BY <2>2, <2>3, <2>4 DEF Turn, T!Next, T!DataDone
<1>9. ASSUME NEW i, OnMatch(i)
      PROVE  [T!Next]_Turn
  <2>1. /\ Holds(inbox["cp"], {"MatchOrder"}) /\ SignalAt("md", "MarketData")
        /\ UNCHANGED pc
    BY <1>9, SignalSteps
  <2>2. Holds(inbox["cp"], Signals) /\ ~ Starting /\ pc["md"] # "serving"
    BY <1>1, <1>2, <1>3, <1>4, <2>1 DEF OneSignal
  <2>3. MatchTurn
    BY <2>1, TurnIs
  <2>4. ~ Holds(inbox["cp"], {"MarketData"})
    BY <1>1, <1>2, <2>1 DEF OneSignal, Single, Holds, Signals
  <2>5. ~ DataTurn
    BY <1>1, <1>2, <2>2, <2>4, TurnIs DEF OneSignal
  <2>6. ~ Starting' /\ DataTurn'
    BY <1>2, <1>3, <1>5, <2>1, <2>2, TurnIs DEF SignalAt, Starting
  <2> QED
    BY <2>2, <2>3, <2>5, <2>6 DEF Turn, T!Next, T!MatchDone
<1>10. ASSUME NEW i, MdSignal(i)
       PROVE  [T!Next]_Turn
  <2>1. /\ Holds(inbox["md"], {"MarketData"}) /\ pc'["md"] = "serving"
        /\ UNCHANGED <<pc["cp"], pc["td"]>>
    BY <1>10, SignalSteps
  <2>2. DataTurn /\ ~ Starting
    BY <1>1, <1>2, <1>3, <1>4, <2>1, TurnIs DEF OneSignal
  <2>3. DataTurn' /\ ~ Starting'
    BY <2>1, <2>2, TurnIs DEF Starting
  <2> QED
    BY <2>2, <2>3 DEF Turn
<1>11. CASE MdAnswer
  <2>1. /\ pc["md"] = "serving" /\ pc'["md"] = "idle"
        /\ IF success THEN SignalAt("cp", "MarketData") ELSE NoSignal
        /\ UNCHANGED <<pc["cp"], pc["td"]>>
    BY <1>11, SignalSteps
  <2>2. DataTurn /\ ~ Starting /\ pc["td"] # "matching"
    BY <1>1, <2>1, TurnIs DEF OneSignal
  <2>3. ~ Starting'
    BY <2>1, <2>2 DEF Starting
  <2>4. CASE success
    <3>1. DataTurn'
      BY <1>2, <1>3, <2>1, <2>4, TurnIs DEF SignalAt
    <3> QED
      BY <2>2, <2>3, <3>1 DEF Turn
  <2>5. CASE ~ success
    <3>1. \A e \in Engines : /\ ~ Holds(inbox'[e], Signals)
                             /\ ~ Holds(inbox'[e], {"MarketData"})
                             /\ ~ Holds(inbox'[e], {"MatchOrder"})
      BY <1>5, <2>1, <2>5 DEF NoSignal
    <3>2. ~ DataTurn' /\ ~ MatchTurn'
      BY <1>2, <2>1, <2>2, <3>1, TurnIs
    <3> QED
      BY <2>2, <2>3, <3>2 DEF Turn, T!Next, T!EndOfData
  <2> QED
    BY <2>4, <2>5
<1>12. ASSUME NEW i, TdSignal(i)
       PROVE  [T!Next]_Turn
  <2>1. /\ Holds(inbox["td"], {"MatchOrder"}) /\ pc'["td"] = "matching" /\ NoSignal
        /\ UNCHANGED <<pc["cp"], pc["md"]>>
    BY <1>12, SignalSteps
  <2>2. Holds(inbox["td"], Signals) /\ ~ Starting /\ pc["md"] # "serving"
    BY <1>1, <1>2, <1>3, <1>4, <2>1 DEF OneSignal
  <2>3. MatchTurn
    BY <2>2, TurnIs
  <2>4. ~ Holds(inbox["cp"], {"MarketData"}) /\ ~ Holds(inbox["md"], Signals)
    BY <1>1, <1>2, <1>3, <1>4, <2>2 DEF OneSignal
  <2>5. ~ DataTurn
    BY <2>2, <2>4, TurnIs
  <2>6. MatchTurn' /\ ~ Starting'
    BY <2>1, <2>2, TurnIs DEF Starting
  <2>7. ~ DataTurn'
    BY <1>2, <1>5, <2>1, <2>2, TurnIs DEF NoSignal
  <2> QED
    BY <2>2, <2>3, <2>5, <2>6, <2>7 DEF Turn
<1>13. CASE TdAnswer
  <2>1. /\ pc["td"] = "matching" /\ SignalAt("cp", "MatchOrder")
        /\ UNCHANGED <<pc["cp"], pc["md"]>>
    BY <1>13, SignalSteps
  <2>2. /\ ~ Starting /\ pc["md"] # "serving"
        /\ \A e \in Engines : ~ Holds(inbox[e], Signals)
    BY <1>1, <2>1 DEF OneSignal
  <2>3. MatchTurn /\ ~ DataTurn
    BY <1>2, <1>3, <1>4, <2>1, <2>2, TurnIs
  <2>4. MatchTurn' /\ ~ Starting'
    BY <1>3, <2>1, <2>2, TurnIs DEF SignalAt, Starting
  <2>5. ~ DataTurn'
    BY <1>2, <1>3, <1>5, <2>1, <2>2, TurnIs DEF SignalAt, Engines
  <2> QED
    BY <2>2, <2>3, <2>4, <2>5 DEF Turn
<1> QED
  BY <1>6, <1>7, <1>8, <1>9, <1>10, <1>11, <1>12, <1>13, OtherSteps DEF SignalStep

\* The process that dies with the data's turn has no turn left.
LEMMA FaultTurns ==
  ASSUME IInv, NEW s \in Services, ServeFault(s)
  PROVE  [T!Next]_Turn
<1>1. OneSignal(inbox, pc, Starting) /\ pc["md"] = "serving" /\ inbox' = inbox
  BY OneTurnIs DEF IInv, ServeFault
<1>2. pc'["md"] = "crashed" /\ pc'["cp"] = "crashed" /\ pc'["td"] = "crashed"
  BY DEF ServeFault, Engines
<1>3. ~ Starting /\ \A e \in Engines : ~ Holds(inbox[e], Signals)
  BY <1>1 DEF OneSignal
<1>4. DataTurn
  BY <1>1 DEF DataTurn
<1>5. /\ ~ Holds(inbox["md"], Signals) /\ ~ Holds(inbox["td"], Signals)
      /\ ~ Holds(inbox["cp"], Signals)
  BY <1>3 DEF Engines
<1>6. ~ Holds(inbox["cp"], {"MarketData"}) /\ ~ Holds(inbox["cp"], {"MatchOrder"})
  BY <1>5 DEF Holds, Signals
<1>7. ~ DataTurn' /\ ~ MatchTurn' /\ ~ Starting'
  BY <1>1, <1>2, <1>5, <1>6, TurnIs DEF Starting
<1> QED
  BY <1>3, <1>4, <1>7 DEF Turn, T!Next, T!EndOfData

\* BacktestSyncSignal does what it is for: data and matching take turns.
THEOREM TurnsRefined == Spec => ImplementsTurns
<1>1. Init => T!Init
  BY DEF Init, T!Init, Turn, Starting
<1>2. IInv /\ [Next]_vars => [T!Next]_Turn
  BY NextIs, StepTurns, FaultTurns
<1> QED
  BY <1>1, <1>2, Invariance, PTL DEF Spec, T!Spec, ImplementsTurns
=============================================================================
