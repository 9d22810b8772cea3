-------------------------- MODULE BinanceBrokerInv --------------------------
(***************************************************************************)
(* The inductive invariant of BinanceBroker: what the places of the two     *)
(* threads say of the request, the answer and the connection they are about.*)
(***************************************************************************)
EXTENDS BinanceBroker

\* Where a request is while the thread of TDEngine handles it.
Places ==
  /\ engine \in {"inserting", "writing"} =>
       current \in Requests /\ fate[current] = "new"
  /\ engine \in {"written", "adding"} =>
       current \in Requests /\ fate[current] = "sent"
  /\ engine \in {"writing", "written", "adding"} => ReqType[current] # None
  /\ engine \in {"inserting", "writing", "written", "adding"} => started

\* Only what was sent is answered.
Answered ==
  /\ \A r \in wire : fate[r] = "sent"
  /\ loop \in {"looking", "getting"} =>
       asked \in Requests /\ fate[asked] = "sent"

\* What was sent is recorded, but for the request that is being sent.
Recorded ==
  \A r \in Requests :
    /\ book[r] \in {None, ReqType[r]}
    /\ fate[r] = "sent" /\ book[r] = None =>
         engine \in {"written", "adding"} /\ current = r

\* What on_connect and on_disconnect have still to store.
Linked ==
  /\ engine = "idle" /\ ~ started =>
       conn = "closed" /\ loop = "idle" /\ state = "DisConnected"
  /\ loop = "opened" => conn = "open"
  /\ loop = "connected" => conn = "open" /\ is_connected
  /\ loop \in {"closed", "disconnected"} => conn = "connecting"
  /\ loop \in {"idle", "looking", "getting"} /\ conn = "open" =>
       is_connected /\ state = "Ready"

IInv == TypeOK /\ Places /\ Answered /\ Recorded /\ Linked /\ AnswersAsSent

-----------------------------------------------------------------------------
\* What the refinement of RequestDesk needs: who waits for an answer has none,
\* and the answer is handled before the connection can be lost.
Handling == loop \in {"looking", "getting"}

DeskInv ==
  /\ Up \/ wire = {}
  /\ Handling <=> asked # None
  /\ Handling => Up /\ asked \notin wire /\ answer[asked] = None
  /\ \A r \in Requests : fate[r] # "sent" \/ r \in wire => answer[r] = None
=============================================================================
