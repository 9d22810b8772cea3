------------------------- MODULE BinanceBrokerProofs -------------------------
(***************************************************************************)
(* Proofs about BinanceBroker, for any requests, number of seconds and      *)
(* number of faults.                                                        *)
(***************************************************************************)
EXTENDS BinanceBrokerInv, TLAPS

\* Where the counters of seconds and of faults begin.
LEMMA CountersBegin == 0 \in 0 .. Tries /\ 0 \in 0 .. MaxFaults
  BY BoundsAreNumbers

\* Nothing is sent, the connection is closed and both threads are idle.
LEMMA InitIInv == Init => IInv
<1> SUFFICES ASSUME Init PROVE IInv
  OBVIOUS
<1>1. TypeOK
  BY CountersBegin DEF Init, TypeOK
<1>2. Places /\ Answered /\ Recorded /\ Linked /\ AnswersAsSent
  BY DEF Init, Places, Answered, Recorded, Linked, AnswersAsSent
<1> QED
  BY <1>1, <1>2 DEF IInv

\* The variables keep their types; what on_msg finds in the book, and what Add
\* stores there, needs that there is a request.
LEMMA TypesStep == ASSUME IInv, Next PROVE TypeOK'
<1> USE ReqTypesAreTypes, NoneIsNothing, BoundsAreNumbers DEF IInv, engineVars, loopVars
<1>1. ASSUME Open PROVE TypeOK'
  BY <1>1 DEF Open, TypeOK
<1>2. ASSUME Wait PROVE TypeOK'
  BY <1>2 DEF Wait, TypeOK
<1>3. ASSUME Leave PROVE TypeOK'
  BY <1>3 DEF Leave, TypeOK
<1>4. ASSUME Check PROVE TypeOK'
  BY <1>4, CountersBegin DEF Check, TypeOK
<1>5. ASSUME Insert PROVE TypeOK'
  BY <1>5 DEF Insert, Done, TypeOK
<1>6. ASSUME Write PROVE TypeOK'
  BY <1>6 DEF Write, Done, TypeOK, Places
<1>7. ASSUME BeginAdd PROVE TypeOK'
  BY <1>7 DEF BeginAdd, TypeOK
<1>8. ASSUME Add PROVE TypeOK'
  BY <1>8 DEF Add, Done, TypeOK
<1>9. ASSUME NEW r \in Requests, Request(r) PROVE TypeOK'
  BY <1>9 DEF Request, TypeOK
<1>10. ASSUME Opened PROVE TypeOK'
  BY <1>10 DEF Opened, LoopIs, TypeOK
<1>11. ASSUME Closed PROVE TypeOK'
  BY <1>11 DEF Closed, LoopIs, TypeOK
<1>12. ASSUME Connect PROVE TypeOK'
  BY <1>12 DEF Connect, LoopIs, TypeOK
<1>13. ASSUME Ready PROVE TypeOK'
  BY <1>13 DEF Ready, LoopIs, TypeOK
<1>14. ASSUME Disconnect PROVE TypeOK'
  BY <1>14 DEF Disconnect, LoopIs, TypeOK
<1>15. ASSUME Disconnected PROVE TypeOK'
  BY <1>15 DEF Disconnected, LoopIs, TypeOK
<1>16. ASSUME NEW r \in Requests, Message(r) PROVE TypeOK'
  BY <1>16 DEF Message, LoopIs, TypeOK
<1>17. ASSUME HasRequest PROVE TypeOK'
  BY <1>17 DEF HasRequest, LoopIs, Found, TypeOK
<1>18. ASSUME GetRequest PROVE TypeOK'
  BY <1>18 DEF GetRequest, LoopIs, Found, TypeOK, Answered
<1> QED
  BY <1>1, <1>2, <1>3, <1>4, <1>5, <1>6, <1>7, <1>8, <1>9, <1>10, <1>11,
     <1>12, <1>13, <1>14, <1>15, <1>16, <1>17, <1>18 DEF Next, EngineNext, LoopNext, Callback

\* The thread of TDEngine goes from place to place with one request, and takes
\* up none before it is started.
LEMMA PlacesStep == ASSUME IInv, Next PROVE Places'
<1> USE NoneIsNothing DEF IInv, engineVars, loopVars
<1>1. ASSUME Open PROVE Places'
  BY <1>1 DEF Open, TypeOK, Places, Linked
<1>2. ASSUME Wait PROVE Places'
  BY <1>2 DEF Wait, TypeOK, Places, Linked
<1>3. ASSUME Leave PROVE Places'
  BY <1>3 DEF Leave, TypeOK, Places, Linked
<1>4. ASSUME Check PROVE Places'
  BY <1>4 DEF Check, TypeOK, Places, Linked
<1>5. ASSUME Insert PROVE Places'
  BY <1>5 DEF Insert, Done, TypeOK, Places, Linked
<1>6. ASSUME Write PROVE Places'
  BY <1>6 DEF Write, Done, TypeOK, Places, Linked
<1>7. ASSUME BeginAdd PROVE Places'
  BY <1>7 DEF BeginAdd, TypeOK, Places, Linked
<1>8. ASSUME Add PROVE Places'
  BY <1>8 DEF Add, Done, TypeOK, Places, Linked
<1>9. ASSUME NEW r \in Requests, Request(r) PROVE Places'
  BY <1>9 DEF Request, TypeOK, Places, Linked
<1>10. ASSUME LoopNext PROVE Places'
  BY <1>10 DEF LoopNext, Callback, Opened, Closed, Connect, Ready, Disconnect,
     Disconnected, Message, HasRequest, GetRequest, TypeOK, Places, Linked
<1> QED
  BY <1>1, <1>2, <1>3, <1>4, <1>5, <1>6, <1>7, <1>8, <1>9, <1>10 DEF Next, EngineNext

\* Write alone adds to the wire, and Message takes from it what on_msg handles.
LEMMA AnswersStep == ASSUME IInv, Next PROVE Answered'
<1> USE NoneIsNothing DEF IInv, engineVars, loopVars
<1>1. ASSUME Insert PROVE Answered'
  BY <1>1 DEF Insert, Done, TypeOK, Places, Answered
<1>2. ASSUME Write PROVE Answered'
  BY <1>2 DEF Write, Done, TypeOK, Places, Answered
<1>3. ASSUME NEW r \in Requests, Request(r) PROVE Answered'
  BY <1>3 DEF Request, TypeOK, Places, Answered
<1>4. ASSUME Closed PROVE Answered'
  BY <1>4 DEF Closed, LoopIs, TypeOK, Places, Answered
<1>5. ASSUME NEW r \in Requests, Message(r) PROVE Answered'
  BY <1>5 DEF Message, LoopIs, TypeOK, Places, Answered
<1>6. ASSUME HasRequest PROVE Answered'
  BY <1>6 DEF HasRequest, LoopIs, Found, TypeOK, Places, Answered
<1>7. ASSUME GetRequest PROVE Answered'
  BY <1>7 DEF GetRequest, LoopIs, Found, TypeOK, Places, Answered
<1>8. ASSUME Open \/ Wait \/ Leave \/ Check \/ BeginAdd \/ Add PROVE Answered'
  BY <1>8 DEF Open, Wait, Leave, Check, BeginAdd, Add, TypeOK, Places,
     Answered
<1>9. ASSUME Opened \/ Connect \/ Ready \/ Disconnect \/ Disconnected
      PROVE  Answered'
  BY <1>9 DEF Opened, Connect, Ready, Disconnect, Disconnected, TypeOK,
     Places, Answered
<1> QED
  BY <1>1, <1>2, <1>3, <1>4, <1>5, <1>6, <1>7, <1>8, <1>9 DEF Next, EngineNext, LoopNext, Callback

\* Between Write and Add the request that is sent is not in the book; no other
\* request is affected.
LEMMA RecordsStep == ASSUME IInv, Next PROVE Recorded'
<1> USE NoneIsNothing DEF IInv, engineVars, loopVars
<1>1. ASSUME Insert PROVE Recorded'
  BY <1>1 DEF Insert, Done, TypeOK, Places, Recorded
<1>2. ASSUME Write PROVE Recorded'
  BY <1>2 DEF Write, Done, TypeOK, Places, Recorded
<1>3. ASSUME BeginAdd PROVE Recorded'
  BY <1>3 DEF BeginAdd, TypeOK, Places, Recorded
<1>4. ASSUME Add PROVE Recorded'
  BY <1>4 DEF Add, Done, TypeOK, Places, Recorded
<1>5. ASSUME NEW r \in Requests, Request(r) PROVE Recorded'
  BY <1>5 DEF Request, TypeOK, Places, Recorded
<1>6. ASSUME Open \/ Wait \/ Leave \/ Check PROVE Recorded'
  BY <1>6 DEF Open, Wait, Leave, Check, TypeOK, Places, Recorded
<1>7. ASSUME LoopNext PROVE Recorded'
  BY <1>7 DEF LoopNext, Callback, Opened, Closed, Connect, Ready, Disconnect,
     Disconnected, Message, HasRequest, GetRequest, TypeOK, Places, Recorded
<1> QED
  BY <1>1, <1>2, <1>3, <1>4, <1>5, <1>6, <1>7 DEF Next, EngineNext

\* A callback is through before the client reports the next change, so that its
\* place tells what is still to be stored.
LEMMA LinksStep == ASSUME IInv, Next PROVE Linked'
<1> USE NoneIsNothing DEF IInv, engineVars, loopVars
<1>1. ASSUME Open PROVE Linked'
  BY <1>1 DEF Open, TypeOK, Places, Linked
<1>2. ASSUME Wait PROVE Linked'
  BY <1>2 DEF Wait, TypeOK, Places, Linked
<1>3. ASSUME Leave PROVE Linked'
  BY <1>3 DEF Leave, TypeOK, Places, Linked
<1>4. ASSUME Check PROVE Linked'
  BY <1>4 DEF Check, TypeOK, Places, Linked
<1>5. ASSUME Insert PROVE Linked'
  BY <1>5 DEF Insert, Done, TypeOK, Places, Linked
<1>6. ASSUME Write PROVE Linked'
  BY <1>6 DEF Write, Done, TypeOK, Places, Linked
<1>7. ASSUME BeginAdd PROVE Linked'
  BY <1>7 DEF BeginAdd, TypeOK, Places, Linked
<1>8. ASSUME Add PROVE Linked'
  BY <1>8 DEF Add, Done, TypeOK, Places, Linked
<1>9. ASSUME NEW r \in Requests, Request(r) PROVE Linked'
  BY <1>9 DEF Request, TypeOK, Places, Linked
<1>10. ASSUME Opened PROVE Linked'
  BY <1>10 DEF Opened, LoopIs, TypeOK, Places, Linked
<1>11. ASSUME Closed PROVE Linked'
  BY <1>11 DEF Closed, LoopIs, TypeOK, Places, Linked
<1>12. ASSUME Connect PROVE Linked'
  BY <1>12 DEF Connect, LoopIs, TypeOK, Places, Linked
<1>13. ASSUME Ready PROVE Linked'
  BY <1>13 DEF Ready, LoopIs, TypeOK, Places, Linked
<1>14. ASSUME Disconnect PROVE Linked'
  BY <1>14 DEF Disconnect, LoopIs, TypeOK, Places, Linked
<1>15. ASSUME Disconnected PROVE Linked'
  BY <1>15 DEF Disconnected, LoopIs, TypeOK, Places, Linked
<1>16. ASSUME NEW r \in Requests, Message(r) PROVE Linked'
  BY <1>16 DEF Message, LoopIs, TypeOK, Places, Linked
<1>17. ASSUME HasRequest PROVE Linked'
  BY <1>17 DEF HasRequest, LoopIs, Found, TypeOK, Places, Linked
<1>18. ASSUME GetRequest PROVE Linked'
  BY <1>18 DEF GetRequest, LoopIs, Found, TypeOK, Places, Linked
<1> QED
  BY <1>1, <1>2, <1>3, <1>4, <1>5, <1>6, <1>7, <1>8, <1>9, <1>10, <1>11,
     <1>12, <1>13, <1>14, <1>15, <1>16, <1>17, <1>18 DEF Next, EngineNext, LoopNext, Callback

\* get_request reads what Add stored under the same id.
LEMMA KindsStep == ASSUME IInv, Next PROVE AnswersAsSent'
<1> USE NoneIsNothing DEF IInv, engineVars, loopVars
<1>1. ASSUME HasRequest PROVE AnswersAsSent'
  BY <1>1 DEF HasRequest, LoopIs, Found, TypeOK, Places, Answered, Recorded,
     AnswersAsSent
<1>2. ASSUME GetRequest PROVE AnswersAsSent'
  BY <1>2 DEF GetRequest, LoopIs, Found, TypeOK, Places, Answered, Recorded,
     AnswersAsSent
<1>3. ASSUME Open \/ Wait \/ Leave \/ Check \/ Insert \/ Write \/
           BeginAdd \/ Add \/ (\E r \in Requests : Request(r))
      PROVE  AnswersAsSent'
  BY <1>3 DEF Open, Wait, Leave, Check, Insert, Write, BeginAdd, Add, Request,
     TypeOK, Places, Answered, Recorded, AnswersAsSent
<1>4. ASSUME Opened \/ Closed \/ Connect \/ Ready \/ Disconnect \/
           Disconnected \/ (\E r \in Requests : Message(r))
      PROVE  AnswersAsSent'
  BY <1>4 DEF Opened, Closed, Connect, Ready, Disconnect, Disconnected,
     Message, TypeOK, Places, Answered, Recorded, AnswersAsSent
<1> QED
  BY <1>1, <1>2, <1>3, <1>4 DEF Next, EngineNext, LoopNext, Callback

\* The inductive invariant behind the others: at each place of the two threads
\* it says what they have stored and what is still to come, so that the two
\* flags and the book agree wherever no thread is between two stores.
THEOREM Invariance == Spec => []IInv
<1>1. Init => IInv
  BY InitIInv
<1>2. IInv /\ [Next]_vars => IInv'
  <2>1. ASSUME IInv, Next PROVE IInv'
    <3>1. TypeOK' /\ Places' /\ Answered'
      BY <2>1, TypesStep, PlacesStep, AnswersStep
    <3>2. Recorded' /\ Linked' /\ AnswersAsSent'
      BY <2>1, RecordsStep, LinksStep, KindsStep
    <3> QED
      BY <3>1, <3>2 DEF IInv
  <2>2. ASSUME IInv, UNCHANGED vars PROVE IInv'
    BY <2>2 DEF IInv, TypeOK, Places, Answered, Recorded, Linked,
       AnswersAsSent, vars, engineVars, loopVars
  <2> QED
    BY <2>1, <2>2
<1> QED
  BY <1>1, <1>2, PTL DEF Spec

\* The variables keep their types: in particular a place is never that of a
\* request without one, and the seconds of start are bounded.
THEOREM TypeCorrect == Spec => []TypeOK
<1>1. IInv => TypeOK
  BY DEF IInv
<1> QED
  BY <1>1, Invariance, PTL

\* An answer is handled as what its request was sent as, for any number of
\* requests and losses of the connection.
THEOREM AnswersHold == Spec => []AnswersAsSent
<1>1. IInv => AnswersAsSent
  BY DEF IInv
<1> QED
  BY <1>1, Invariance, PTL

\* Only has_request and get_request say of an answer what became of it, and
\* they miss a request that was sent only while the book is without it.
LEMMA MissedIsEarly ==
  ASSUME IInv, Next, NEW r \in Requests,
         answer[r] # answer'[r], answer'[r] \in {"Unknown", "dropped"}
  PROVE  engine = "adding" \/ (engine = "written" /\ current = r)
<1> USE NoneIsNothing DEF IInv, engineVars, loopVars
<1>1. CASE HasRequest
  <2>1. asked = r /\ None \in Found(asked)
    BY <1>1 DEF HasRequest, TypeOK
  <2> QED
    BY <2>1, <1>1 DEF HasRequest, LoopIs, Found, Answered, Recorded
<1>2. CASE GetRequest
  <2>1. asked = r
    BY <1>2 DEF GetRequest, TypeOK
  <2>2. PICK t \in Found(asked) :
          answer' = [answer EXCEPT ![asked] = IF t = None THEN "Unknown" ELSE t]
    BY <1>2 DEF GetRequest
  <2>3. CASE t = None
    BY <2>1, <2>2, <2>3, <1>2 DEF GetRequest, LoopIs, Found, Answered, Recorded
  <2>4. CASE t # None
    <3>1. answer'[r] = t
      BY <2>1, <2>2, <2>4 DEF TypeOK
    <3>2. t \in {book[r], ReqType[r]}
      BY <2>1, <2>2, <2>4 DEF Found
    <3>3. t \in ReqTypes
      BY <3>2, <2>4, ReqTypesAreTypes DEF TypeOK
    <3> QED
      BY <3>1, <3>3 DEF ReqTypes
  <2> QED
    BY <2>3, <2>4
<1>3. CASE EngineNext
  BY <1>3 DEF EngineNext, Open, Wait, Leave, Check, Insert, Write, BeginAdd,
     Add, Request
<1>4. CASE Opened \/ Closed \/ \E m \in Requests : Message(m)
  BY <1>4 DEF Opened, Closed, Message
<1>5. CASE Connect \/ Ready \/ Disconnect \/ Disconnected
  BY <1>5 DEF Connect, Ready, Disconnect, Disconnected
<1> QED
  BY <1>1, <1>2, <1>3, <1>4, <1>5 DEF Next, LoopNext, Callback

\* on_msg takes an answer for that of an unknown request only while
\* send_order_request is between write and the end of add_request.
THEOREM UnknownHolds == Spec => UnknownIsEarly
<1>1. IInv /\ [Next]_vars =>
        [\A r \in Requests :
           answer[r] # answer'[r] /\ answer'[r] \in {"Unknown", "dropped"} =>
             engine = "adding" \/ (engine = "written" /\ current = r)]_vars
  BY MissedIsEarly
<1> QED
  BY <1>1, Invariance, PTL DEF Spec, UnknownIsEarly

\* TDEngine and the broker throw a request away only while state_ or
\* is_connected_ says so, and Linked tells what that means of the connection.
LEMMA RefusedIsDown ==
  ASSUME IInv, Next, NEW r \in Requests,
         fate[r] # fate'[r], fate'[r] = "refused"
  PROVE  conn # "open" \/ loop \in {"opened", "connected"}
<1> USE DEF IInv, TypeOK, Linked
<1>1. CASE Insert
  BY <1>1 DEF Insert, Places
<1>2. CASE \E q \in Requests : Request(q)
  BY <1>2 DEF Request
<1>3. CASE Open \/ Wait \/ Leave \/ Check \/ BeginAdd \/ Add
  BY <1>3 DEF Open, Wait, Leave, Check, BeginAdd, Add
<1>4. CASE Write
  BY <1>4 DEF Write, Places
<1>5. CASE LoopNext
  BY <1>5 DEF LoopNext, Callback, Opened, Closed, Message, Connect, Ready,
     Disconnect, Disconnected, HasRequest, GetRequest, engineVars
<1> QED
  BY <1>1, <1>2, <1>3, <1>4, <1>5 DEF Next, EngineNext

\* However often the connection is lost and opened again, no request is thrown
\* away while it is open and on_connect is through.
THEOREM RefusedHolds == Spec => RefusedWhileDown
<1>1. IInv /\ [Next]_vars =>
        [\A r \in Requests :
           fate[r] # fate'[r] /\ fate'[r] = "refused" =>
             conn # "open" \/ loop \in {"opened", "connected"}]_vars
  BY RefusedIsDown
<1> QED
  BY <1>1, Invariance, PTL DEF Spec, RefusedWhileDown

-----------------------------------------------------------------------------
(* The refinement of RequestDesk *)

\* An answer is handled before the next thing happens to the connection, and
\* is the only one of its request.
LEMMA DeskInvStep == ASSUME IInv, DeskInv, Next PROVE DeskInv'
<1> USE NoneIsNothing DEF IInv, engineVars, loopVars, Handling, Up
<1>1. CASE Open
  BY <1>1 DEF Open, DeskInv, Linked
<1>2. CASE Wait \/ Leave \/ Check \/ BeginAdd \/ Add
  BY <1>2 DEF Wait, Leave, Check, BeginAdd, Add, DeskInv
<1>3. CASE Insert
  BY <1>3 DEF Insert, DeskInv, Places, TypeOK
<1>4. CASE Write
  BY <1>4 DEF Write, DeskInv, Places, Answered, TypeOK
<1>5. CASE \E r \in Requests : Request(r)
  BY <1>5 DEF Request, DeskInv, TypeOK
<1>6. CASE Opened \/ Closed
  BY <1>6 DEF Opened, Closed, LoopIs, DeskInv
<1>7. CASE Connect \/ Ready \/ Disconnect \/ Disconnected
  BY <1>7 DEF Connect, Ready, Disconnect, Disconnected, LoopIs, DeskInv
<1>8. CASE \E r \in Requests : Message(r)
  BY <1>8 DEF Message, LoopIs, DeskInv, TypeOK
<1>9. CASE HasRequest
  BY <1>9 DEF HasRequest, LoopIs, DeskInv, TypeOK, Answered
<1>10. CASE GetRequest
  BY <1>10 DEF GetRequest, LoopIs, DeskInv, TypeOK, Answered
<1> QED
  BY <1>1, <1>2, <1>3, <1>4, <1>5, <1>6, <1>7, <1>8, <1>9, <1>10
     DEF Next, EngineNext, LoopNext, Callback

LEMMA DeskOrder == Spec => []DeskInv
<1>1. Init => DeskInv
  BY DEF Init, DeskInv, Handling, Up
<1>2. IInv /\ DeskInv /\ [Next]_vars => DeskInv'
  <2>1. ASSUME DeskInv, UNCHANGED vars PROVE DeskInv'
    BY <2>1 DEF DeskInv, Handling, Up, vars, engineVars, loopVars
  <2> QED
    BY <2>1, DeskInvStep
<1> QED
  BY <1>1, <1>2, Invariance, PTL DEF Spec

\* All requests stay what they are, or all but one.
LEMMA DeskStays ==
  ASSUME \A r \in Requests : DeskOf(r)' = DeskOf(r)
  PROVE  Desk' = Desk
BY DEF Desk

LEMMA DeskChanges ==
  ASSUME NEW r \in Requests, NEW d, DeskOf(r)' = d,
         \A q \in Requests : q # r => DeskOf(q)' = DeskOf(q)
  PROVE  Desk' = [Desk EXCEPT ![r] = d]
BY DEF Desk

\* A request that is not out has no answer.
LEMMA NewIs ==
  ASSUME IInv, DeskInv, NEW r \in Requests, fate[r] # "sent"
  PROVE  answer[r] = None /\ r \notin wire /\ r # asked /\ Desk[r] = fate[r]
<1>1. answer[r] = None /\ r \notin wire
  BY DEF DeskInv, IInv, Answered
<1>2. r # asked
  BY NoneIsNothing DEF DeskInv, Handling, IInv, Answered
<1> QED
  BY <1>1, <1>2, NoneIsNothing DEF Desk, DeskOf

\* What became of one request is decided; it was not out before.
LEMMA Decides ==
  ASSUME IInv, DeskInv, NEW r \in Requests, fate[r] = "new", NEW f, f # "sent",
         fate' = [fate EXCEPT ![r] = f], UNCHANGED <<wire, asked, answer, conn>>
  PROVE  D!Decide(r, f)
<1>1. answer[r] = None /\ r \notin wire /\ r # asked /\ Desk[r] = "new"
  BY NewIs
<1>2. fate'[r] = f /\ \A q \in Requests : q # r => fate'[q] = fate[q]
  BY DEF IInv, TypeOK
<1>3. DeskOf(r)' = f
  BY <1>1, <1>2, NoneIsNothing DEF DeskOf
<1>4. \A q \in Requests : q # r => DeskOf(q)' = DeskOf(q)
  BY <1>2 DEF DeskOf
<1>5. Desk' = [Desk EXCEPT ![r] = f]
  BY <1>3, <1>4, DeskChanges
<1> QED
  BY <1>1, <1>5 DEF D!Decide, Up

\* client_.write.
LEMMA WriteSends ==
  ASSUME IInv, DeskInv, Write
  PROVE  \E r \in Requests : D!Send(r) \/ D!TurnAway(r)
<1>1. current \in Requests /\ fate[current] = "new" /\ UNCHANGED <<asked, answer, conn>>
  BY DEF Write, IInv, Places, loopVars
<1>2. PICK r \in Requests : r = current
  BY <1>1
<1>3. answer[r] = None /\ r \notin wire /\ r # asked /\ Desk[r] = "new"
  BY <1>1, <1>2, NewIs
<1>4. CASE fate' = [fate EXCEPT ![r] = "failed"] /\ UNCHANGED wire
  <2>1. D!Decide(r, "failed")
    BY <1>1, <1>2, <1>4, Decides
  <2> QED
    BY <2>1 DEF D!TurnAway
<1>5. CASE /\ fate' = [fate EXCEPT ![r] = "sent"]
           /\ wire' = IF conn = "open" THEN wire \cup {r} ELSE wire
  <2>1. fate'[r] = "sent" /\ \A q \in Requests : q # r => fate'[q] = fate[q]
    BY <1>5 DEF IInv, TypeOK
  <2>2. \A q \in Requests : q # r => (q \in wire' <=> q \in wire)
    BY <1>5
  <2>3. r \in wire' <=> Up
    BY <1>3, <1>5 DEF Up
  <2>4. DeskOf(r)' = IF Up THEN "waiting" ELSE "lost"
    BY <1>1, <1>3, <2>1, <2>3, NoneIsNothing DEF DeskOf
  <2>5. \A q \in Requests : q # r => DeskOf(q)' = DeskOf(q)
    BY <1>1, <2>1, <2>2 DEF DeskOf
  <2>6. Desk' = [Desk EXCEPT ![r] = IF Up THEN "waiting" ELSE "lost"]
    BY <2>4, <2>5, DeskChanges
  <2>7. Up' = Up
    BY <1>1 DEF Up
  <2> QED
    BY <1>3, <2>6, <2>7 DEF D!Send, D!Decide
<1> QED
  BY <1>2, <1>4, <1>5 DEF Write

\* The answer is looked up; the request waited for it.
LEMMA LookAnswers ==
  ASSUME IInv, DeskInv, HasRequest \/ GetRequest
  PROVE  (\E r \in Requests : D!Answer(r)) \/ UNCHANGED D!vars
<1>1. /\ asked \in Requests /\ fate[asked] = "sent" /\ Up /\ asked \notin wire
      /\ answer[asked] = None
      /\ UNCHANGED <<fate, conn, wire>>
  BY DEF HasRequest, GetRequest, LoopIs, DeskInv, Handling, IInv, Answered, engineVars
<1>2. PICK r \in Requests : r = asked
  BY <1>1
<1>3. Up' = Up
  BY <1>1 DEF Up
<1>4. Desk[r] = "waiting"
  BY <1>1, <1>2, NoneIsNothing DEF Desk, DeskOf
<1>5. ASSUME NEW a, a # None, answer' = [answer EXCEPT ![r] = a], asked' = None
      PROVE  \E q \in Requests : D!Answer(q)
  <2>1. answer'[r] = a /\ \A q \in Requests : q # r => answer'[q] = answer[q]
    BY <1>5 DEF IInv, TypeOK
  <2>2. PICK d \in {"answered", "unmatched"} : DeskOf(r)' = d
    BY <1>5, <2>1 DEF DeskOf
  <2>3. \A q \in Requests : q # r => DeskOf(q)' = DeskOf(q)
    BY <1>1, <1>2, <1>5, <2>1, NoneIsNothing DEF DeskOf
  <2>4. Desk' = [Desk EXCEPT ![r] = d]
    BY <2>2, <2>3, DeskChanges
  <2> QED
    BY <1>1, <1>3, <1>4, <2>2, <2>4 DEF D!Answer
<1>6. CASE HasRequest
  <2>1. CASE answer' = [answer EXCEPT ![r] = "dropped"] /\ asked' = None
    BY <1>5, <2>1, NoneIsNothing
  <2>2. CASE UNCHANGED <<asked, answer>>
    <3>1. \A q \in Requests : DeskOf(q)' = DeskOf(q)
      BY <1>1, <2>2 DEF DeskOf
    <3> QED
      BY <1>3, <3>1, DeskStays DEF D!vars
  <2> QED
    BY <1>2, <1>6, <2>1, <2>2 DEF HasRequest
<1>7. CASE GetRequest
  <2>1. PICK t \in Found(asked) :
          answer' = [answer EXCEPT ![asked] = IF t = None THEN "Unknown" ELSE t]
    BY <1>7 DEF GetRequest
  <2>2. PICK a : a = (IF t = None THEN "Unknown" ELSE t) /\ a # None
    BY NoneIsNothing
  <2> QED
    BY <1>2, <1>5, <1>7, <2>1, <2>2 DEF GetRequest
<1> QED
  BY <1>6, <1>7

\* The connection is lost, with all that waits on it.
LEMMA ClosedLoses ==
  ASSUME IInv, DeskInv, Closed
  PROVE  D!Lose \/ UNCHANGED D!vars
<1>1. /\ wire' = {} /\ conn' = "connecting" /\ asked = None
      /\ UNCHANGED <<fate, answer, asked>>
  BY DEF Closed, LoopIs, DeskInv, Handling, engineVars
<1>2. ~ Up'
  BY <1>1 DEF Up
<1>3. \A r \in Requests : DeskOf(r)' = IF DeskOf(r) = "waiting" THEN "lost" ELSE DeskOf(r)
  BY <1>1, NoneIsNothing DEF DeskOf, IInv, TypeOK
<1>4. CASE Up
  <2>1. Desk' = [r \in Requests |-> IF Desk[r] = "waiting" THEN "lost" ELSE Desk[r]]
    BY <1>3 DEF Desk
  <2> QED
    BY <1>2, <1>4, <2>1 DEF D!Lose
<1>5. CASE ~ Up
  <2>1. wire = {}
    BY <1>5 DEF DeskInv
  <2>2. \A r \in Requests : DeskOf(r)' = DeskOf(r)
    BY <1>1, <2>1 DEF DeskOf
  <2> QED
    BY <1>2, <1>5, <2>2, DeskStays DEF D!vars, Up
<1> QED
  BY <1>4, <1>5

\* Every step is one of the desk, or none.
LEMMA DeskStep ==
  ASSUME IInv, DeskInv, [Next]_vars
  PROVE  [D!Next]_D!vars
<1>1. ASSUME UNCHANGED <<fate, answer, wire, asked>>, Up' = Up PROVE UNCHANGED D!vars
  <2>1. \A r \in Requests : DeskOf(r)' = DeskOf(r)
    BY <1>1 DEF DeskOf
  <2> QED
    BY <1>1, <2>1, DeskStays DEF D!vars
<1>2. CASE Open
  BY <1>1, <1>2 DEF Open, loopVars, Up, IInv, Linked
<1>3. CASE Wait \/ Leave \/ Check \/ BeginAdd \/ Add \/ UNCHANGED vars
  BY <1>1, <1>3 DEF Wait, Leave, Check, BeginAdd, Add, vars, engineVars, loopVars, Up
<1>4. CASE Insert
  <2>1. current \in Requests /\ fate[current] = "new" /\ UNCHANGED <<wire, asked, answer, conn>>
    BY <1>4 DEF Insert, IInv, Places, loopVars
  <2>2. CASE UNCHANGED fate
    BY <1>1, <2>1, <2>2 DEF Up
  <2>3. ASSUME NEW f \in {"refused", "failed"}, fate' = [fate EXCEPT ![current] = f]
        PROVE  [D!Next]_D!vars
    <3>1. D!Decide(current, f)
      BY <2>1, <2>3, Decides
    <3> QED
      BY <2>1, <3>1 DEF D!Next, D!TurnAway
  <2> QED
    BY <1>4, <2>2, <2>3 DEF Insert
<1>5. CASE Write
  BY <1>5, WriteSends DEF D!Next
<1>6. ASSUME NEW r \in Requests, Request(r) PROVE [D!Next]_D!vars
  <2>1. fate[r] = "new" /\ UNCHANGED <<wire, asked, answer, conn>>
    BY <1>6 DEF Request, loopVars
  <2>2. CASE UNCHANGED fate
    BY <1>1, <2>1, <2>2 DEF Up
  <2>3. CASE fate' = [fate EXCEPT ![r] = "refused"]
    <3>1. D!Decide(r, "refused")
      BY <2>1, <2>3, Decides
    <3> QED
      BY <3>1 DEF D!Next, D!TurnAway
  <2> QED
    BY <1>6, <2>2, <2>3 DEF Request
<1>7. CASE Opened
  <2>1. ~ Up /\ Up' /\ UNCHANGED <<fate, answer, wire, asked>>
    BY <1>7 DEF Opened, Up, engineVars
  <2>2. \A r \in Requests : DeskOf(r)' = DeskOf(r)
    BY <2>1 DEF DeskOf
  <2> QED
    BY <2>1, <2>2, DeskStays DEF D!Next, D!Connect
<1>8. CASE Closed
  BY <1>8, ClosedLoses DEF D!Next
<1>9. CASE Connect \/ Ready \/ Disconnect \/ Disconnected
  BY <1>1, <1>9 DEF Connect, Ready, Disconnect, Disconnected, engineVars, Up
<1>10. ASSUME NEW r \in Requests, Message(r) PROVE [D!Next]_D!vars
  <2>1. /\ r \in wire /\ asked = None /\ asked' = r /\ wire' = wire \ {r}
        /\ UNCHANGED <<fate, answer, conn>>
    BY <1>10 DEF Message, LoopIs, DeskInv, Handling, engineVars
  <2>2. \A q \in Requests : DeskOf(q)' = DeskOf(q)
    BY <2>1, NoneIsNothing DEF DeskOf
  <2> QED
    BY <2>1, <2>2, DeskStays DEF D!vars, Up
<1>11. CASE HasRequest \/ GetRequest
  BY <1>11, LookAnswers DEF D!Next
<1> QED
  BY <1>2, <1>3, <1>4, <1>5, <1>6, <1>7, <1>8, <1>9, <1>10, <1>11
     DEF Next, EngineNext, LoopNext, Callback

\* Of two threads, a book without a lock and a connection that comes and goes
\* the strategies see a desk at which every request has one end.
THEOREM DeskRefined == Spec => ImplementsDesk
<1>1. Init => D!Init
  <2> SUFFICES ASSUME Init PROVE D!Init
    OBVIOUS
  <2>1. \A r \in Requests : DeskOf(r) = "new"
    BY NoneIsNothing DEF Init, DeskOf
  <2>2. Desk = [r \in Requests |-> "new"]
    BY <2>1 DEF Desk
  <2>3. Up = FALSE
    BY DEF Init, Up
  <2> QED
    BY <2>2, <2>3 DEF D!Init
<1>2. IInv /\ DeskInv /\ [Next]_vars => [D!Next]_D!vars
  BY DeskStep
<1> QED
  BY <1>1, <1>2, Invariance, DeskOrder, PTL DEF Spec, ImplementsDesk, D!Spec
=============================================================================
