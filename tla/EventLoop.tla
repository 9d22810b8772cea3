----------------------------- MODULE EventLoop -----------------------------
(***************************************************************************)
(* The loop of a process that reads several journals: EventEngine::run of   *)
(* the MD, TD and CP engines, or CoreComm::listening of an application.     *)
(* It merges the journals with Reader::sort and sleeps in epoll_wait, with  *)
(* no time-out, on one eventfd per journal, edge-triggered and never read.  *)
(* The writers are other processes; they post after they published.         *)
(*                                                                          *)
(* What a reader joined to one journal sees of it is refined from module     *)
(* Journal to JournalLog; stores and restarts of the writers are there. Its  *)
(* pages are visible here: the loop never calls Journal::next at a PageEnd,  *)
(* so it is handed nothing from behind the page it joined.                   *)
(***************************************************************************)
EXTENDS Integers, Sequences, FiniteSets, Functions

CONSTANTS
  Journals,    \* the journals the process joins
  Kinds,       \* which loops: "engine" (EventEngine), "comm" (CoreComm)
  MaxEvents,   \* JourObserver::MAX_EVENTS
  MaxFrames,   \* bound: frames written, in all journals together
  MaxClock,    \* bound: readings of the clock
  MaxPages,    \* bound: pages of a journal
  Traced       \* whether frames record, as history, what was published before them

None == "none"              \* the null pointer
Interrupt == "interrupt"    \* the eventfd of JourCommData::interrupt_sender

ASSUME NamesAreFree == None \notin Journals /\ Interrupt \notin Journals
ASSUME TracedOrNot == Traced \in BOOLEAN
ASSUME KindsAreLoops == Kinds \subseteq {"engine", "comm"}
ASSUME JournalsAreFinite == IsFiniteSet(Journals) /\ Journals # {}
ASSUME BoundsAreNatural == MaxEvents \in Nat \ {0} /\ MaxFrames \in Nat /\ MaxClock \in Nat
ASSUME PagesBeginAtOne == MaxPages \in Nat \ {0}

VARIABLES
  clock,    \* infra::time::now_time, the same for all processes
  log,      \* log[j]: the frames published in j
  draft,    \* draft[j]: the frame being closed, gen_time already taken, or {}
  owed,     \* owed[j]: frames published whose post() is still to come
  counted,  \* eventfds ever posted: nobody reads them, they never go back to 0
  ready,    \* the ready list of the epoll instance
  watched,  \* ObserveHelper::add_customer is done
  kind,     \* which loop this process runs
  pc, ret,  \* where it stands, and where sort() returns to
  begin,    \* begin_time_
  joined,   \* Reader::journals_
  pos,      \* pos[j]: frames of j the reader is past
  rpage,    \* rpage[j]: the page of j its cursor is on, 0 before join
  cur,      \* Reader::current_
  min,      \* min_time in sort()
  todo,     \* journals sort() has not looked at
  live,     \* EventEngine::live_
  status,   \* CoreComm::status_
  caller,   \* where another thread stands in CoreComm::terminate
  first,    \* history: the first frame of j to be handed over, 0 before join
  got,      \* history: got[j]: the frames of j handed to the handlers
  snap      \* history: the lengths of the logs when sort() was entered

writers == <<log, draft, owed, counted>>
loop    == <<pc, ret, begin, joined, pos, rpage, cur, min, todo, live, watched, first, got, snap>>
vars    == <<clock, writers, ready, kind, loop, status, caller>>

----------------------------------------------------------------------------
Current(j) == log[j][pos[j] + 1]

\* Journal::current_frame of j has data: not at the end of what is published, nor
\* at the PageEnd behind the last frame of its page.
HasData(j) == pos[j] < Len(log[j]) /\ Current(j).page = rpage[j]

\* MsgTag: Termination is the one that matters to the loop of an engine.
Tags == IF kind = "engine" THEN {"Data", "Termination"} ELSE {"Data"}
Gens == 0 .. MaxClock
Pages == 1 .. MaxPages
\* knows is history: how long the logs were when gen_time was taken, if Traced.
Frames == [gen : Gens, tag : {"Data", "Termination"}, page : Pages, knows : [Journals -> Nat]]

Nothing == [j \in Journals |-> 0]

\* Frames begun so far, for the bound.
Written == Cardinality({w \in Journals \X (1 .. MaxFrames) :
                          w[2] <= Len(log[w[1]]) + Cardinality(draft[w[1]])})

Init ==
  /\ clock = 0
  /\ log = [j \in Journals |-> <<>>]
  /\ draft = [j \in Journals |-> {}]
  /\ owed = [j \in Journals |-> 0]
  /\ counted = {} /\ ready = {} /\ watched = FALSE
  /\ kind \in Kinds
  /\ pc = "off" /\ ret = "off"
  /\ begin = 0
  /\ joined = {}
  /\ pos = [j \in Journals |-> 0] /\ rpage = [j \in Journals |-> 0]
  /\ cur = None /\ min = 0 /\ todo = {}
  /\ live = TRUE /\ status = 0 /\ caller = "idle"
  /\ first = [j \in Journals |-> 0]
  /\ got = [j \in Journals |-> <<>>]
  /\ snap = Nothing

Tick == clock < MaxClock /\ clock' = clock + 1 /\ UNCHANGED <<writers, ready, kind, loop, status, caller>>

----------------------------------------------------------------------------
(* The writers: Writer::write, close_frame and JourIndicator::post.         *)

\* open_frame takes the page of the last frame, or turns to the next; then the
\* argument gen_time of close_frame is evaluated.
Stamp(j) ==
  /\ draft[j] = {} /\ Written < MaxFrames
  /\ \E tag \in Tags, p \in Pages :
       /\ \A i \in 1 .. Len(log[j]) : log[j][i].page <= p
       /\ p = 1 \/ \E i \in 1 .. Len(log[j]) : log[j][i].page >= p - 1
       /\ draft' = [draft EXCEPT ![j] =
            {[gen |-> clock, tag |-> tag, page |-> p,
              knows |-> IF Traced THEN [k \in Journals |-> Len(log[k])] ELSE Nothing]}]
  /\ UNCHANGED <<clock, log, owed, counted, ready, kind, loop, status, caller>>

\* close_frame stores the length, and unlocks the writer.
Publish(j) ==
  /\ \E f \in draft[j] : log' = [log EXCEPT ![j] = Append(@, f)]
  /\ draft' = [draft EXCEPT ![j] = {}]
  /\ owed' = [owed EXCEPT ![j] = @ + 1]
  /\ UNCHANGED <<clock, counted, ready, kind, loop, status, caller>>

\* A write to an eventfd makes its epoll item ready, whatever its counter was.
Signal(fd) == ready' = IF fd = Interrupt \/ watched THEN ready \cup {fd} ELSE ready

Post(j) ==
  /\ owed[j] > 0
  /\ owed' = [owed EXCEPT ![j] = @ - 1]
  /\ counted' = counted \cup {j}
  /\ Signal(j)
  /\ UNCHANGED <<clock, log, draft, kind, loop, status, caller>>

----------------------------------------------------------------------------
(* Reader::sort, called from four places.                                   *)

Call(back) == pc' = "sort" /\ ret' = back

\* Slip: sort goes through the journals of the configuration, joined or not.
EnterSortAll ==
  /\ pc = "sort"
  /\ min' = clock
  /\ todo' = Journals
  /\ snap' = [j \in Journals |-> Len(log[j])]
  /\ pc' = "look"
  /\ UNCHANGED <<clock, writers, ready, kind, ret, begin, joined, pos, rpage, cur, live, watched,
                 first, got, status, caller>>

EnterSort ==
  /\ pc = "sort"
  /\ min' = clock
  /\ todo' = joined
  /\ snap' = [j \in Journals |-> Len(log[j])]
  /\ pc' = "look"
  /\ UNCHANGED <<clock, writers, ready, kind, ret, begin, joined, pos, rpage, cur, live, watched,
                 first, got, status, caller>>

\* The next round of the loop in sort, with min_time m, or the return from it.
Keep(j, m) ==
  /\ todo' = todo \ {j}
  /\ min' = IF todo' = {} THEN 0 ELSE m
  /\ pc' = IF todo' = {} THEN ret ELSE "look"

\* Slip: min_time stays the present.
LookNoMin(j) ==
  /\ pc = "look" /\ j \in todo
  /\ IF HasData(j) /\ Current(j).gen <= min
       THEN cur' = j /\ Keep(j, min)
       ELSE UNCHANGED cur /\ Keep(j, min)
  /\ UNCHANGED <<clock, writers, ready, kind, ret, begin, joined, pos, rpage, live, watched, first,
                 got, snap, status, caller>>

\* Slip: a frame as old as the best so far, or of this very moment, does not count.
LookStrictly(j) ==
  /\ pc = "look" /\ j \in todo
  /\ IF HasData(j) /\ Current(j).gen < min
       THEN cur' = j /\ Keep(j, Current(j).gen)
       ELSE UNCHANGED cur /\ Keep(j, min)
  /\ UNCHANGED <<clock, writers, ready, kind, ret, begin, joined, pos, rpage, live, watched, first,
                 got, snap, status, caller>>

\* The journals come in the order of an unordered_map, that is in any order.
Look(j) ==
  /\ pc = "look" /\ j \in todo
  /\ IF HasData(j) /\ Current(j).gen <= min
       THEN cur' = j /\ Keep(j, Current(j).gen)
       ELSE UNCHANGED cur /\ Keep(j, min)
  /\ UNCHANGED <<clock, writers, ready, kind, ret, begin, joined, pos, rpage, live, watched, first,
                 got, snap, status, caller>>

----------------------------------------------------------------------------
(* The loop.                                                                *)

\* The constructor of EventEngine, or JourCommData::init, takes the time.
Construct ==
  /\ pc = "off"
  /\ begin' = clock
  /\ pc' = "join"
  /\ UNCHANGED <<clock, writers, ready, kind, ret, joined, pos, rpage, cur, min, todo, live, watched,
                 first, got, snap, status, caller>>

\* The pages of j there are: those of its frames, and that of a frame being written.
Begun(j) == {p \in Pages : p = 1 \/ \E f \in Range(log[j]) \cup draft[j] : f.page >= p}

\* Reader::join seeks a page p, and there past n frames that are not newer than
\* begin. p is no page before one with a frame older than begin; how far the writer
\* was when find_page_id looked, and whether p counts as full, is left open.
Join(j) ==
  /\ pc = "join" /\ j \notin joined
  /\ \E p \in Begun(j), n \in 0 .. Len(log[j]) :
       /\ \A i \in 1 .. Len(log[j]) :
            LET f == log[j][i]
                behind == f.page < p \/ (f.page = p /\ f.gen <= begin)
            IN  /\ f.gen < begin => f.page <= p
                /\ i <= n => behind
                /\ i = n + 1 => ~ behind
       /\ rpage' = [rpage EXCEPT ![j] = p]
       /\ pos' = [pos EXCEPT ![j] = n]
       /\ first' = [first EXCEPT ![j] = n + 1]
  /\ joined' = joined \cup {j}
  /\ IF cur = None THEN Call("join") ELSE UNCHANGED <<pc, ret>>
  /\ UNCHANGED <<clock, writers, ready, kind, begin, cur, min, todo, live, watched, got, snap,
                 status, caller>>

\* Slip: what was posted before is not reported.
WatchFromNowOn ==
  /\ pc = "join" /\ joined = Journals
  /\ watched' = TRUE
  /\ pc' = "wait"
  /\ UNCHANGED <<clock, writers, ready, kind, ret, begin, joined, pos, rpage, cur, min, todo, live,
                 first, got, snap, status, caller>>

\* ObserveHelper::add_customer: an eventfd added with a counter above 0 is ready.
Watch ==
  /\ pc = "join" /\ joined = Journals
  /\ watched' = TRUE
  /\ ready' = ready \cup counted
  /\ pc' = "wait"
  /\ UNCHANGED <<clock, writers, kind, ret, begin, joined, pos, rpage, cur, min, todo, live, first, got,
                 snap, status, caller>>

\* JourObserver::wait returns: the events it reports leave the ready list.
Wait ==
  /\ pc = "wait" /\ ready # {}
  /\ \E S \in SUBSET ready :
       /\ Cardinality(S) = IF Cardinality(ready) < MaxEvents THEN Cardinality(ready) ELSE MaxEvents
       /\ ready' = ready \ S
  /\ Call("check")
  /\ UNCHANGED <<clock, writers, kind, begin, joined, pos, rpage, cur, min, todo, live, watched, first,
                 got, snap, status, caller>>

\* Slip: the inner loop of drain does not look at live_.
CheckNothing ==
  /\ pc = "check"
  /\ Call("test")
  /\ UNCHANGED <<clock, writers, ready, kind, begin, joined, pos, rpage, cur, min, todo, live, watched,
                 first, got, snap, status, caller>>

\* The inner loop of drain, or of listening: data_available sorts first.
Check ==
  /\ pc = "check"
  /\ IF live THEN Call("test") ELSE pc' = "done" /\ UNCHANGED ret
  /\ UNCHANGED <<clock, writers, ready, kind, begin, joined, pos, rpage, cur, min, todo, live, watched,
                 first, got, snap, status, caller>>

\* Reader::data_available, after its sort.
Available == cur # None /\ HasData(cur)

\* Slip: the cursor is left where it is.
HandleStay ==
  /\ pc = "test" /\ Available /\ status >= 0
  /\ got' = [got EXCEPT ![cur] = Append(@, Current(cur))]
  /\ live' = (live /\ ~ (kind = "engine" /\ Current(cur).tag = "Termination"))
  /\ Call("check") /\ snap' = Nothing
  /\ UNCHANGED <<clock, writers, ready, kind, begin, joined, pos, rpage, cur, min, todo, watched, first,
                 status, caller>>

\* The handlers run, of which Termination stops an engine; then Reader::next.
Handle ==
  /\ pc = "test" /\ Available /\ status >= 0
  /\ got' = [got EXCEPT ![cur] = Append(@, Current(cur))]
  /\ live' = (live /\ ~ (kind = "engine" /\ Current(cur).tag = "Termination"))
  /\ pos' = [pos EXCEPT ![cur] = @ + 1]
  /\ Call("check") /\ snap' = Nothing
  /\ UNCHANGED <<clock, writers, ready, kind, begin, joined, rpage, cur, min, todo, watched, first,
                 status, caller>>

\* No frame is left, or the status says to end: back to epoll_wait, or out.
Leave ==
  /\ pc = "test" /\ ~ (Available /\ status >= 0)
  /\ pc' = IF status >= 0 THEN "wait" ELSE "done"
  /\ snap' = Nothing
  /\ UNCHANGED <<clock, writers, ready, kind, ret, begin, joined, pos, rpage, cur, min, todo, live,
                 watched, first, got, status, caller>>

\* Slip: terminate posts before it stores the status.
PostThenStore ==
  /\ kind = "comm" /\ pc # "off"
  /\ \/ caller = "idle" /\ Signal(Interrupt) /\ caller' = "stored" /\ UNCHANGED status
     \/ caller = "stored" /\ status' = -1 /\ caller' = "posted" /\ UNCHANGED ready
  /\ UNCHANGED <<clock, writers, kind, loop>>

\* CoreComm::terminate, called by another thread: the status, then the eventfd.
Terminate ==
  /\ kind = "comm" /\ pc # "off"
  /\ \/ caller = "idle" /\ status' = -1 /\ caller' = "stored" /\ UNCHANGED ready
     \/ caller = "stored" /\ Signal(Interrupt) /\ caller' = "posted" /\ UNCHANGED status
  /\ UNCHANGED <<clock, writers, kind, loop>>

----------------------------------------------------------------------------
Sort == EnterSort \/ \E j \in Journals : Look(j)
Loop == Construct \/ (\E j \in Journals : Join(j)) \/ Watch \/ Wait \/ Check \/ Handle \/ Leave \/ Sort
Next ==
  \/ Tick
  \/ \E j \in Journals : Stamp(j) \/ Publish(j) \/ Post(j)
  \/ Loop
  \/ Terminate

Spec == Init /\ [][Next]_vars

\* The process is scheduled, and a writer finishes the write it began; nobody
\* has to write, or to call terminate.
Fairness ==
  /\ WF_vars(Loop)
  /\ \A j \in Journals : WF_vars(Publish(j)) /\ WF_vars(Post(j))
  /\ WF_vars(caller = "stored" /\ Terminate)

FairSpec == Spec /\ Fairness

----------------------------------------------------------------------------
(* Properties. *)

PCs == {"off", "join", "sort", "look", "wait", "check", "test", "done"}

WritersTyped ==
  /\ clock \in Gens
  /\ log \in [Journals -> Seq(Frames)]
  /\ draft = [j \in Journals |-> draft[j]]
  /\ \A j \in Journals : draft[j] = {} \/ \E f \in draft[j] : f \in Frames /\ draft[j] = {f}
  /\ owed \in [Journals -> Nat] /\ counted \subseteq Journals

LoopTyped ==
  /\ ready \subseteq Journals \cup {Interrupt} /\ watched \in BOOLEAN
  /\ kind \in Kinds /\ pc \in PCs /\ ret \in {"off", "join", "check", "test"}
  /\ begin \in Gens /\ min \in Gens
  /\ joined \subseteq Journals /\ cur \in joined \cup {None} /\ todo \subseteq joined
  /\ live \in BOOLEAN /\ status \in {0, -1} /\ caller \in {"idle", "stored", "posted"}

CursorsTyped ==
  /\ pos \in [Journals -> Nat] /\ rpage \in [Journals -> Pages \cup {0}] /\ snap \in [Journals -> Nat]
  /\ \A j \in Journals : pos[j] <= Len(log[j]) /\ snap[j] <= Len(log[j])
  /\ first \in [Journals -> Nat] /\ got \in [Journals -> Seq(Frames)]

\* The type of every variable; the reader never points to a journal it did not
\* join, nor past the frames there are (reader.cpp join, sort, next).
TypeOK == WritersTyped /\ LoopTyped /\ CursorsTyped

\* A frame of k waits that was there when sort() was entered.
Offered(k) == pos[k] < snap[k] /\ HasData(k)

\* A frame is handed over before an older one of another journal only if the
\* older was published after the sort that chose it began: the merge is as good
\* as one look at a time allows (reader.cpp sort).
MergeOrder ==
  pc = "test" /\ Available =>
    \A k \in Journals : Offered(k) => Current(cur).gen <= Current(k).gen

\* No wake-up is lost: a journal with frames to hand over is on the ready list, or
\* its writer has still to post, whenever the process goes to sleep. The eventfds
\* are edge-triggered, and wait has no time-out (journal.cpp JourObserver).
NoWakeupLost ==
  pc = "wait" => \A j \in Journals : HasData(j) => j \in ready \/ owed[j] > 0

\* Once an engine was told to stop, no handler runs any more (eventengine.cpp
\* drain and produce look at live_ before every frame).
StopIsFinal == [][~ live => got' = got]_vars

\* Frame n of j lies behind the page the reader joined: it is never handed over.
Beyond(j, n) == n <= Len(log[j]) /\ rpage[j] \in 1 .. log[j][n].page - 1

\* What is published up to the end of the page a reader joined is handed over,
\* unless the loop ends (eventengine.cpp drain, corecomm.cpp listening).
Delivered ==
  \A j \in Journals : \A n \in 1 .. MaxFrames :
    (n <= Len(log[j])) ~> (n <= pos[j] \/ pc = "done" \/ Beyond(j, n))

\* terminate ends the loop although it may be asleep (corecomm.cpp terminate).
TerminateEnds == (caller = "stored") ~> (pc = "done")

\* An engine that was handed a Termination ends.
StopEnds == ~ live ~> pc = "done"

\* Every journal is the append-only log of JournalLog, the loop its one reader.
Log(j) == INSTANCE JournalLog WITH
  Readers <- {"loop"},
  Entries <- Frames,
  log <- log[j],
  first <- [r \in {"loop"} |-> first[j]],
  got <- [r \in {"loop"} |-> got[j]]
ImplementsLogs ==
  /\ \A j \in Journals : Log(j)!Init
  /\ [][\A j \in Journals : Log(j)!Next \/ UNCHANGED <<log[j], first[j], got[j]>>]_vars

\* "Sort to get earliest frame" (core/journal/reader.h:39): a frame is not handed
\* over while an older one waits that was published before it was even stamped.
EarliestFirst ==
  pc = "test" /\ Available =>
    \A k \in Journals :
      pos[k] < Current(cur).knows[k] /\ HasData(k) => Current(cur).gen <= Current(k).gen
============================================================================
