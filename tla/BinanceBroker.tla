---------------------------- MODULE BinanceBroker ----------------------------
(***************************************************************************)
(* BinanceBroker (broker/binance/binance_broker.cpp), its RequestBook       *)
(* (core/requestbook.cpp), and the TDEngine that calls it, live.            *)
(*                                                                         *)
(* Two threads share the broker without a lock: the thread of TDEngine,     *)
(* which starts it and sends requests, and the event loop of the websocket  *)
(* client, which calls on_connect, on_disconnect and on_msg.  Each step     *)
(* here is what one of them does up to the next look at what they share.    *)
(*                                                                         *)
(* External: the client (libhv), which opens the connection in its own      *)
(* thread and, being told to, reconnects for ever; the network, which may   *)
(* refuse or drop a connection; the exchange, which answers a request at    *)
(* most once, in any order.                                                 *)
(***************************************************************************)
EXTENDS Naturals

CONSTANTS
  Requests,    \* the ids of orders, cancels and account requests
  ReqType,     \* what each asks, or None: no message is made of it
  Target,      \* the order a cancel is about; of another request itself
  Tries,       \* connection_timeout_seconds_
  MaxFaults,   \* bound: connections refused or dropped
  None

\* BrokerReqType but Unknown, which is what get_request does not find.
ReqTypes == {"OrderPlace", "OrderCancel", "OrderBook", "OrderState",
             "PositionBook"}

ASSUME ReqTypesAreTypes == ReqType \in [Requests -> ReqTypes \cup {None}]
ASSUME TargetsAreRequests == Target \in [Requests -> Requests]
ASSUME BoundsAreNumbers == Tries \in Nat /\ MaxFaults \in Nat
ASSUME NoneIsNothing ==
  None \notin Requests \cup ReqTypes \cup {"Unknown", "dropped"}

VARIABLES
  engine,      \* where the thread of TDEngine is
  current,     \* the request it is about
  tries,       \* the local of that name in establish_connection
  started,     \* is_trading_started_ of TDEngine
  loop,        \* where the thread of the client is
  asked,       \* the request whose answer on_msg handles
  conn,        \* the connection
  faults,      \* the connections refused or dropped
  wire,        \* the requests this connection may still answer
  is_connected,
  state,       \* state_, a BrokerState
  book,        \* req_id2type_
  fate,        \* what became of each request
  answer       \* what became of its answer: the type it was handled as

engineVars == <<engine, current, tries, started, fate, book>>
loopVars == <<loop, asked, faults, is_connected, state, answer>>
vars == <<engineVars, loopVars, conn, wire>>

Init ==
  /\ engine = "idle" /\ current = None /\ tries = 0 /\ started = FALSE
  /\ loop = "idle" /\ asked = None /\ conn = "closed" /\ faults = 0
  /\ wire = {} /\ is_connected = FALSE /\ state = "DisConnected"
  /\ book = [r \in Requests |-> None]
  /\ fate = [r \in Requests |-> "new"]
  /\ answer = [r \in Requests |-> None]

-----------------------------------------------------------------------------
\* The thread of TDEngine: start

\* TradingStart: the client resolves the host and leaves the rest to its
\* thread.  When it cannot, start throws, which ends the process.
Open ==
  /\ engine = "idle" /\ ~ started
  /\ \/ engine' = "waiting" /\ conn' = "connecting"
     \/ engine' = "ended" /\ UNCHANGED conn
  /\ UNCHANGED <<current, tries, started, fate, book, loopVars, wire>>

\* Mutant: one second too many.
WaitOnceMore ==
  /\ engine = "waiting" /\ ~ is_connected /\ tries <= Tries
  /\ tries' = tries + 1
  /\ UNCHANGED <<engine, current, started, fate, book, loopVars, conn, wire>>

\* Mutant: the seconds are not counted.
WaitUncounted ==
  /\ engine = "waiting" /\ ~ is_connected /\ tries < Tries
  /\ UNCHANGED vars

\* A second goes by.
Wait ==
  /\ engine = "waiting" /\ ~ is_connected /\ tries < Tries
  /\ tries' = tries + 1
  /\ UNCHANGED <<engine, current, started, fate, book, loopVars, conn, wire>>

\* The loop ends, and is_connected_ is read once more.
Leave ==
  /\ engine = "waiting" /\ (is_connected \/ tries = Tries)
  /\ engine' = "checking"
  /\ UNCHANGED <<current, tries, started, fate, book, loopVars, conn, wire>>

Check ==
  /\ engine = "checking"
  /\ IF is_connected THEN engine' = "idle" /\ started' = TRUE
     ELSE engine' = "ended" /\ UNCHANGED started
  /\ tries' = 0
  /\ UNCHANGED <<current, fate, book, loopVars, conn, wire>>

-----------------------------------------------------------------------------
\* The thread of TDEngine: requests

\* insert_order, cancel_order and on_account_req of TDEngine.
Request(r) ==
  /\ engine = "idle" /\ fate[r] = "new"
  /\ IF state = "Ready"
     THEN engine' = "inserting" /\ current' = r /\ UNCHANGED fate
     ELSE fate' = [fate EXCEPT ![r] = "refused"] /\ UNCHANGED <<engine, current>>
  /\ UNCHANGED <<tries, started, book, loopVars, conn, wire>>

Done == engine' = "idle" /\ current' = None

\* The same functions of the broker, as far as the message.
Insert ==
  /\ engine = "inserting"
  /\ \/ /\ ~ is_connected
        /\ Done /\ fate' = [fate EXCEPT ![current] = "refused"]
     \/ /\ is_connected /\ ReqType[current] = None
        /\ Done /\ fate' = [fate EXCEPT ![current] = "failed"]
     \/ /\ is_connected /\ ReqType[current] # None
        /\ engine' = "writing" /\ UNCHANGED <<current, fate>>
  /\ UNCHANGED <<tries, started, book, loopVars, conn, wire>>

\* client_.write.  A socket that is still connecting may take the message,
\* which is lost with it.
Write ==
  /\ engine = "writing"
  /\ \/ /\ engine' = "written" /\ UNCHANGED current
        /\ fate' = [fate EXCEPT ![current] = "sent"]
        /\ wire' = IF conn = "open" THEN wire \cup {current} ELSE wire
     \/ /\ conn # "open" /\ UNCHANGED wire
        /\ Done /\ fate' = [fate EXCEPT ![current] = "failed"]
  /\ UNCHANGED <<tries, started, book, loopVars, conn>>

\* req_book_.add_request: the map is being changed, and has been.
BeginAdd ==
  /\ engine = "written" /\ engine' = "adding"
  /\ UNCHANGED <<current, tries, started, fate, book, loopVars, conn, wire>>

\* Mutant: a cancel is recorded under the id of its order.
AddTarget ==
  /\ engine = "adding" /\ Done
  /\ book' = [book EXCEPT ![Target[current]] = ReqType[current]]
  /\ UNCHANGED <<tries, started, fate, loopVars, conn, wire>>

\* Mutant: only orders are recorded.
AddOrders ==
  /\ engine = "adding" /\ Done
  /\ book' = [book EXCEPT ![current] =
                IF ReqType[current] = "OrderPlace" THEN "OrderPlace" ELSE @]
  /\ UNCHANGED <<tries, started, fate, loopVars, conn, wire>>

Add ==
  /\ engine = "adding" /\ Done
  /\ book' = [book EXCEPT ![current] = ReqType[current]]
  /\ UNCHANGED <<tries, started, fate, loopVars, conn, wire>>

EngineNext ==
  \/ Open \/ Wait \/ Leave \/ Check \/ Insert \/ Write \/ BeginAdd \/ Add
  \/ \E r \in Requests : Request(r)

-----------------------------------------------------------------------------
\* The thread of the client: connections

LoopIs(place) == engine # "ended" /\ loop = place

Opened ==
  /\ LoopIs("idle") /\ conn = "connecting"
  /\ conn' = "open" /\ loop' = "opened"
  /\ UNCHANGED <<engineVars, asked, faults, is_connected, state, answer, wire>>

\* A try fails, or the connection is lost with what it carried; the client
\* tells, and will try again.
Closed ==
  /\ LoopIs("idle") /\ conn # "closed" /\ faults < MaxFaults
  /\ conn' = "connecting" /\ wire' = {} /\ faults' = faults + 1
  /\ loop' = "closed"
  /\ UNCHANGED <<engineVars, asked, is_connected, state, answer>>

\* Mutant: is_connected_ is set for start only.
ConnectAtStart ==
  /\ LoopIs("opened") /\ loop' = "connected"
  /\ is_connected' = (is_connected \/ ~ started)
  /\ UNCHANGED <<engineVars, asked, faults, state, answer, conn, wire>>

\* on_connect: is_connected_, then state_.
Connect ==
  /\ LoopIs("opened") /\ loop' = "connected" /\ is_connected' = TRUE
  /\ UNCHANGED <<engineVars, asked, faults, state, answer, conn, wire>>

\* Mutant: the state is set by the first connection only.
ReadyAtStart ==
  /\ LoopIs("connected") /\ loop' = "idle"
  /\ state' = IF started THEN state ELSE "Ready"
  /\ UNCHANGED <<engineVars, asked, faults, is_connected, answer, conn, wire>>

Ready ==
  /\ LoopIs("connected") /\ loop' = "idle" /\ state' = "Ready"
  /\ UNCHANGED <<engineVars, asked, faults, is_connected, answer, conn, wire>>

\* on_disconnect: the same order.
Disconnect ==
  /\ LoopIs("closed") /\ loop' = "disconnected" /\ is_connected' = FALSE
  /\ UNCHANGED <<engineVars, asked, faults, state, answer, conn, wire>>

Disconnected ==
  /\ LoopIs("disconnected") /\ loop' = "idle" /\ state' = "DisConnected"
  /\ UNCHANGED <<engineVars, asked, faults, is_connected, answer, conn, wire>>

-----------------------------------------------------------------------------
\* The thread of the client: answers

\* The exchange answers request r.
Message(r) ==
  /\ LoopIs("idle") /\ conn = "open" /\ r \in wire
  /\ loop' = "looking" /\ asked' = r /\ wire' = wire \ {r}
  /\ UNCHANGED <<engineVars, faults, is_connected, state, answer, conn>>

\* What a look into the map may give.  While the other thread changes the map
\* it may already find the new entry, and may miss any.
Found(r) ==
  IF engine # "adding" THEN {book[r]}
  ELSE {None, IF r = current THEN ReqType[r] ELSE book[r]}

\* Mutant: after "unknown request" on_msg goes on.
HasRequestGoesOn ==
  /\ LoopIs("looking") /\ loop' = "getting" /\ UNCHANGED asked
  /\ \E t \in Found(asked) :
       answer' = IF t = None THEN [answer EXCEPT ![asked] = "dropped"] ELSE answer
  /\ UNCHANGED <<engineVars, faults, is_connected, state, conn, wire>>

\* has_request of on_msg; an answer that is not found is dropped.
HasRequest ==
  /\ LoopIs("looking")
  /\ \E t \in Found(asked) :
       IF t = None
       THEN /\ loop' = "idle" /\ asked' = None
            /\ answer' = [answer EXCEPT ![asked] = "dropped"]
       ELSE loop' = "getting" /\ UNCHANGED <<asked, answer>>
  /\ UNCHANGED <<engineVars, faults, is_connected, state, conn, wire>>

\* get_request looks again, and handle_response is told the type.
GetRequest ==
  /\ LoopIs("getting") /\ loop' = "idle" /\ asked' = None
  /\ \E t \in Found(asked) :
       answer' = [answer EXCEPT ![asked] = IF t = None THEN "Unknown" ELSE t]
  /\ UNCHANGED <<engineVars, faults, is_connected, state, conn, wire>>

Callback ==
  \/ Connect \/ Ready \/ Disconnect \/ Disconnected \/ HasRequest \/ GetRequest

LoopNext == Opened \/ Closed \/ Callback \/ \E r \in Requests : Message(r)

-----------------------------------------------------------------------------
Next == EngineNext \/ LoopNext

Spec == Init /\ [][Next]_vars

\* Two threads that never block for good; nothing is assumed of the exchange,
\* nor of the network but where a property says so.
FairSpec == Spec /\ WF_vars(EngineNext) /\ WF_vars(Callback)

\* Some try to connect succeeds.
NetworkRecovers == WF_vars(Opened)

-----------------------------------------------------------------------------
TypeOK ==
  /\ engine \in {"idle", "waiting", "checking", "inserting", "writing",
                 "written", "adding", "ended"}
  /\ current \in Requests \cup {None} /\ tries \in 0 .. Tries
  /\ started \in BOOLEAN
  /\ loop \in {"idle", "opened", "connected", "closed", "disconnected",
               "looking", "getting"}
  /\ asked \in Requests \cup {None}
  /\ conn \in {"closed", "connecting", "open"}
  /\ faults \in 0 .. MaxFaults /\ wire \subseteq Requests
  /\ is_connected \in BOOLEAN /\ state \in {"DisConnected", "Ready"}
  /\ book \in [Requests -> ReqTypes \cup {None}]
  /\ fate \in [Requests -> {"new", "refused", "failed", "sent"}]
  /\ answer \in [Requests -> ReqTypes \cup {None, "Unknown", "dropped"}]

\* An answer is handled as what its request was sent as: the exchange's word
\* about a cancel is not taken for one about an order.
AnswersAsSent ==
  \A r \in Requests : answer[r] \in {None, "Unknown", "dropped", ReqType[r]}

\* on_msg meets an "unknown request" only if the answer overtook add_request,
\* or came while add_request was changing the map.
UnknownIsEarly ==
  [][\A r \in Requests :
       answer[r] # answer'[r] /\ answer'[r] \in {"Unknown", "dropped"} =>
         engine = "adding" \/ (engine = "written" /\ current = r)]_vars

\* No request is thrown away while the connection is open and on_connect is
\* through: is_connected_ and state_, set one after the other, do not stay
\* apart however connections come and go.
RefusedWhileDown ==
  [][\A r \in Requests :
       fate[r] # fate'[r] /\ fate'[r] = "refused" =>
         conn # "open" \/ loop \in {"opened", "connected"}]_vars

\* start comes back, whether the network ever answers or not: TDEngine is not
\* held up for good.
StartEnds == engine = "waiting" ~> engine \in {"idle", "ended"}

\* When the connection is lost and the network lets the client reconnect, the
\* broker is Ready again without being started again.
ReadyAgain == NetworkRecovers => (started ~> state = "Ready")

-----------------------------------------------------------------------------
\* What the strategies may see of a request and of the connection.
DeskOf(r) ==
  IF answer[r] \in {"Unknown", "dropped"} THEN "unmatched"
  ELSE IF answer[r] # None THEN "answered"
  ELSE IF fate[r] # "sent" THEN fate[r]
  ELSE IF r \in wire \/ r = asked THEN "waiting" ELSE "lost"

Desk == [r \in Requests |-> DeskOf(r)]
Up == conn = "open"

D == INSTANCE RequestDesk WITH up <- Up, desk <- Desk

\* However the two threads interleave, a request has one end: it is answered
\* once, on the connection it was sent on, or not at all, though the answer is
\* looked up twice in a book that is written meanwhile, and the connection may
\* be lost and opened again between the steps of send_order_request.
ImplementsDesk == D!Spec
=============================================================================
