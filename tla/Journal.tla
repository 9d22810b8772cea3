------------------------------ MODULE Journal ------------------------------
(***************************************************************************)
(* One journal of core/journal: the memory-mapped page files with frames,  *)
(* the process that writes them (class Writer) and the processes that read  *)
(* them (class Reader), every one of them through a cursor of its own       *)
(* (class Journal).  A step is one store, or one group of stores between    *)
(* which no other process can tell the difference, so that every            *)
(* interleaving of the processes is a behaviour.  The stores of one process *)
(* become visible in program order, which is what x86-64 gives.             *)
(*                                                                          *)
(* Memory is measured in units: a frame header is HeaderLen units, the page *)
(* header is one unit, so the first frame of a page is at position 1.       *)
(*                                                                          *)
(* Page rollback is left out: Journal::s_page_rollback_size is 0 in every   *)
(* program of the repository, because nothing calls its setter.             *)
(***************************************************************************)
EXTENDS Integers, Sequences

CONSTANTS
  Writer,       \* the process that writes the journal
  Readers,      \* the processes that read it
  Bodies,       \* payloads of a frame
  NoBody,       \* the payload of memory nobody wrote
  DataLens,     \* lengths a payload may have, in units
  HeaderLen,    \* sizeof(FrameHeader), in units
  PageSize,     \* size of a page, in units
  MaxPages,     \* bound: pages the journal may grow to
  MaxFrames,    \* bound: frames published
  MaxClock,     \* bound: readings of the clock
  MaxCrashes,   \* bound: deaths of the writing process
  CrashPoints   \* where in the code of Writer its process may die

First  == 1                      \* Page::first_frame_address
Border == PageSize - HeaderLen   \* PageUnit::address_border
Pages  == 1 .. MaxPages
Places == 1 .. PageSize
Procs  == Readers \cup {Writer}

ASSUME WriterIsNotAReader == Writer \notin Readers
ASSUME NoBodyIsNoBody == NoBody \notin Bodies
ASSUME BoundsAreNatural ==
  /\ HeaderLen \in Nat \ {0} /\ PageSize \in Nat /\ MaxPages \in Nat \ {0}
  /\ MaxFrames \in Nat /\ MaxClock \in Nat /\ MaxCrashes \in Nat
\* Every frame fits an empty page with room for a PageEnd frame behind it: pages
\* are 1 MB at least and no payload of types.h comes near.  (The assertion at the
\* head of open_frame forgets the page header.)
ASSUME FramesFitAPage ==
  /\ First < Border
  /\ \A d \in DataLens : d \in Nat /\ First + HeaderLen + d < Border

VARIABLES
  mem,       \* mem[q][u]: the frame header one reads at place u of page q
  lastpos,   \* PageHeader.last_frame_position of each page, 0: no header yet
  listed,    \* the page files in the directory of the journal
  clock,     \* what infra::time::now_time returns
  pc,        \* where each process stands
  cur,       \* each process's Journal: its page_ and the place of its frame_
  from,      \* the time each process seeks to when it joins
  req,       \* the frame being written: payload, its length, the gen_time argument
  crashes,   \* deaths of the writing process so far
  log,       \* history: the frames published, in order
  base,      \* history: base[q] is Len(log) when page q was created
  seen,      \* history: how many frames of the log are behind each cursor
  first,     \* history: index in log where a reader started, 0 before
  got        \* history: what each reader was handed

code == <<mem, lastpos, listed, clock, pc, cur, from, req, crashes>>
vars == <<mem, lastpos, listed, clock, pc, cur, from, req, crashes, log, base, seen, first, got>>

----------------------------------------------------------------------------
(* Frame headers. *)

PageEnd == 0     \* MsgTag::PageEnd; every other tag is greater, Data stands for them
Data    == 1

Zeroed == [len |-> 0, tag |-> PageEnd, gen |-> 0, body |-> NoBody]
\* Bytes of a payload, read as a header: they look like a frame.
Junk   == [len |-> HeaderLen, tag |-> Data, gen |-> 0, body |-> NoBody]

\* Slip: frames without payload are taken for none.
HasPayload(h) == h.len > HeaderLen /\ h.tag > PageEnd

\* FrameUnit::has_data
HasData(h) == h.len > 0 /\ h.tag > PageEnd

Frame(p) == mem[cur[p].page][cur[p].pos]     \* Journal::current_frame

\* Page files that have their header.
Files == {q \in Pages : lastpos[q] # 0}

\* PageUnit::begin_time, end_time and is_full
BeginTime(q) == mem[q][First].gen
EndTime(q)   == mem[q][lastpos[q]].gen
IsFull(q)    == lastpos[q] + mem[q][lastpos[q]].len > Border

----------------------------------------------------------------------------
Init ==
  /\ mem = [q \in Pages |-> [u \in Places |-> Zeroed]]
  /\ lastpos = [q \in Pages |-> 0]
  /\ listed = {}
  /\ clock = 1
  /\ pc = [p \in Procs |-> "off"]
  /\ cur = [p \in Procs |-> [page |-> 1, pos |-> First]]
  /\ from = [p \in Procs |-> 0]
  /\ req = [body |-> NoBody, dlen |-> 0, gen |-> 0]
  /\ crashes = 0
  /\ log = <<>>
  /\ base = [q \in Pages |-> 0]
  /\ seen = [p \in Procs |-> 0]
  /\ first = [r \in Readers |-> 0]
  /\ got = [r \in Readers |-> <<>>]

Tick ==
  /\ clock < MaxClock
  /\ clock' = clock + 1
  /\ UNCHANGED <<mem, lastpos, listed, pc, cur, from, req, crashes, log, base, seen, first, got>>

Goto(p, at) == pc' = [pc EXCEPT ![p] = at]

----------------------------------------------------------------------------
(* A cursor moves: Journal::load_page, load_next_page and next.             *)

\* PageUnit::load of a page a cursor moves to: it creates the file it does not
\* find and initialises the header that is not there.
LoadPage(p, q) ==
  /\ q \in Pages
  /\ listed' = listed \cup {q}
  /\ lastpos' = IF lastpos[q] = 0 THEN [lastpos EXCEPT ![q] = First] ELSE lastpos
  /\ cur' = [cur EXCEPT ![p] = [page |-> q, pos |-> First]]
  /\ seen' = [seen EXCEPT ![p] = base[q]]

MoveToNext(p) ==
  /\ cur' = [cur EXCEPT ![p].pos = @ + Frame(p).len]
  /\ seen' = [seen EXCEPT ![p] = @ + 1]
  /\ UNCHANGED <<lastpos, listed>>

JournalNext(p) ==
  IF Frame(p).tag = PageEnd THEN LoadPage(p, cur[p].page + 1) ELSE MoveToNext(p)

----------------------------------------------------------------------------
(* Joining: a Reader joins, or a Writer is constructed.  Both seek.         *)

\* The engine takes begin_time_ in its constructor and joins later; the
\* constructor of Writer seeks to the present.
Start(p) ==
  /\ pc[p] = "off"
  /\ from' = [from EXCEPT ![p] = clock]
  /\ Goto(p, "join")
  /\ UNCHANGED <<mem, lastpos, listed, clock, cur, req, crashes, log, base, seen, first, got>>

\* Slip: the page found is the oldest that is old enough.
FoundOldest(q, t) ==
  LET older == {k \in Files : BeginTime(k) < t}
  IN  IF older = {} THEN q = 1 ELSE q \in older /\ \A k \in older : k >= q

\* Slip: a page without a first frame is not considered.
FoundBegun(q, t) ==
  LET older == {k \in Files : BeginTime(k) < t /\ BeginTime(k) > 0}
  IN  IF older = {} THEN q = 1 ELSE q \in older /\ \A k \in older : k <= q

\* PageUnit::find_page_id: the newest page whose first frame is older than t,
\* else the oldest page.
FoundPage(q, t) ==
  LET older == IF t = 0 THEN {} ELSE {k \in Files : BeginTime(k) < t}
  IN  IF older = {} THEN q = 1 ELSE q \in older /\ \A k \in older : k <= q

\* find_page_id maps the pages it looks at read-only, and does not stretch them:
\* a file that was created but has no header yet is written to or is too short.
IsTorn(t) ==
  t > 0 /\ \E q \in listed \ Files : \A k \in Files : k > q => BeginTime(k) >= t

SeekFault(p) ==
  /\ pc[p] = "join"
  /\ IsTorn(from[p])
  /\ Goto(p, "faulted")
  /\ UNCHANGED <<mem, lastpos, listed, clock, cur, from, req, crashes, log, base, seen, first, got>>

\* The directory lists no page: page 1 is loaded, whose file is made first...
SeekNone(p) ==
  /\ pc[p] = "join"
  /\ listed = {}
  /\ Goto(p, "none")
  /\ UNCHANGED <<mem, lastpos, listed, clock, cur, from, req, crashes, log, base, seen, first, got>>

MakeFirst(p) ==
  /\ pc[p] = "none"
  /\ listed' = listed \cup {1}
  /\ Goto(p, "made")
  /\ UNCHANGED <<mem, lastpos, clock, cur, from, req, crashes, log, base, seen, first, got>>

\* ...and then its header, unless another process was faster.
LoadFirst(p) ==
  /\ pc[p] = "made"
  /\ LoadPage(p, 1)
  /\ Goto(p, "seekPage")
  /\ UNCHANGED <<mem, clock, from, req, crashes, log, base, first, got>>

SeekFind(p) ==
  /\ pc[p] = "join"
  /\ listed # {} /\ ~ IsTorn(from[p])
  /\ \E q \in Pages : FoundPage(q, from[p]) /\ LoadPage(p, q)
  /\ Goto(p, "seekPage")
  /\ UNCHANGED <<mem, clock, from, req, crashes, log, base, first, got>>

\* Slip: the loop loads the same page again.
SeekSamePage(p) ==
  /\ pc[p] = "seekPage"
  /\ IF IsFull(cur[p].page) /\ EndTime(cur[p].page) <= from[p]
       THEN LoadPage(p, cur[p].page) /\ UNCHANGED pc
       ELSE Goto(p, "seekFrame") /\ UNCHANGED <<lastpos, listed, cur, seen>>
  /\ UNCHANGED <<mem, clock, from, req, crashes, log, base, first, got>>

\* The first loop of Journal::seek_to_time.
SeekPage(p) ==
  /\ pc[p] = "seekPage"
  /\ IF IsFull(cur[p].page) /\ EndTime(cur[p].page) <= from[p]
       THEN LoadPage(p, cur[p].page + 1) /\ UNCHANGED pc
       ELSE Goto(p, "seekFrame") /\ UNCHANGED <<lastpos, listed, cur, seen>>
  /\ UNCHANGED <<mem, clock, from, req, crashes, log, base, first, got>>

\* Slip: joining skips every frame there is.
IsThere(p) == HasData(Frame(p))

\* What its second loop steps over.
IsPassed(p) == HasData(Frame(p)) /\ Frame(p).gen <= from[p]

SeekFrame(p) ==
  /\ pc[p] = "seekFrame"
  /\ IsPassed(p)
  /\ JournalNext(p)
  /\ UNCHANGED <<mem, clock, pc, from, req, crashes, log, base, first, got>>

SeekDone(p) ==
  /\ pc[p] = "seekFrame"
  /\ ~ IsPassed(p)
  /\ Goto(p, "ready")
  /\ first' = IF p \in Readers THEN [first EXCEPT ![p] = seen[p] + 1] ELSE first
  /\ UNCHANGED <<mem, lastpos, listed, clock, cur, from, req, crashes, log, base, seen, got>>

\* A process that seeks goes on.
SeekOn(p) ==
  \/ SeekFault(p) \/ SeekNone(p) \/ MakeFirst(p) \/ LoadFirst(p)
  \/ SeekFind(p) \/ SeekPage(p) \/ SeekFrame(p) \/ SeekDone(p)

Seek(p) == Start(p) \/ SeekOn(p)

----------------------------------------------------------------------------
(* The writer.  pc[Writer] is "ready" while writer_mtx_ is not locked; the  *)
(* other values are the places of open_frame, close_page and close_frame.   *)

W == cur[Writer]

\* The end of the frame being written: next_frame_address in close_frame.
Behind == W.pos + HeaderLen + req.dlen

\* Slip: the border keeps no room for the PageEnd.
FitsWithoutPageEnd(d) == W.pos + HeaderLen + d < PageSize

Fits(d) == W.pos + HeaderLen + d < Border

Store(q, f) == mem' = [mem EXCEPT ![q] = f]

\* Slip: the length is stored when the frame is opened.
OpenWithLength(b, d) ==
  /\ pc[Writer] = "ready" /\ Fits(d)
  /\ Len(log) < MaxFrames
  /\ req' = [body |-> b, dlen |-> d, gen |-> 0]
  /\ Store(W.page, [mem[W.page] EXCEPT ![W.pos].tag = Data, ![W.pos].len = HeaderLen + d])
  /\ Goto(Writer, "opened")
  /\ UNCHANGED <<lastpos, listed, clock, cur, from, crashes, log, base, seen, first, got>>

\* open_frame when the frame fits: its header, but for length and gen_time.
OpenFrame(b, d) ==
  /\ pc[Writer] = "ready" /\ Fits(d)
  /\ Len(log) < MaxFrames
  /\ req' = [body |-> b, dlen |-> d, gen |-> 0]
  /\ Store(W.page, [mem[W.page] EXCEPT ![W.pos].tag = Data])
  /\ Goto(Writer, "opened")
  /\ UNCHANGED <<lastpos, listed, clock, cur, from, crashes, log, base, seen, first, got>>

\* open_frame when it does not fit: close_page first loads the next page, whose
\* file is created and stretched...
MakePage(b, d) ==
  /\ pc[Writer] = "ready" /\ ~ Fits(d)
  /\ Len(log) < MaxFrames /\ W.page < MaxPages
  /\ req' = [body |-> b, dlen |-> d, gen |-> 0]
  /\ listed' = listed \cup {W.page + 1}
  /\ Goto(Writer, "making")
  /\ UNCHANGED <<mem, lastpos, clock, cur, from, crashes, log, base, seen, first, got>>

\* ...and then has its header initialised.
TurnPage ==
  /\ pc[Writer] = "making"
  /\ base' = [base EXCEPT ![W.page + 1] = Len(log)]
  /\ lastpos' = [lastpos EXCEPT ![W.page + 1] = IF @ = 0 THEN First ELSE @]
  /\ cur' = [cur EXCEPT ![Writer] = [page |-> W.page + 1, pos |-> First]]
  /\ seen' = [seen EXCEPT ![Writer] = Len(log)]
  /\ Goto(Writer, "turned")
  /\ UNCHANGED <<mem, listed, clock, from, req, crashes, log, first, got>>

\* Slip: move_to_next is forgotten.
LastPlace(q) == lastpos[q]

\* Where close_page puts the PageEnd: behind the frame last_frame_position names.
EndPlace(q) == lastpos[q] + mem[q][lastpos[q]].len

\* close_page writes the PageEnd frame, its length last...
WritePageEnd ==
  LET q == W.page - 1
  IN  /\ pc[Writer] = "turned"
      /\ Store(q, [mem[q] EXCEPT ![EndPlace(q)] =
                     [@ EXCEPT !.len = HeaderLen, !.tag = PageEnd, !.gen = clock]])
      /\ Goto(Writer, "ended")
      /\ UNCHANGED <<lastpos, listed, clock, cur, from, req, crashes, log, base, seen, first, got>>

\* ...then the page header; open_frame goes on in the new page.
OpenInNewPage ==
  LET q == W.page - 1
  IN  /\ pc[Writer] = "ended"
      /\ lastpos' = [lastpos EXCEPT ![q] = EndPlace(q)]
      /\ Store(W.page, [mem[W.page] EXCEPT ![W.pos].tag = Data])
      /\ Goto(Writer, "opened")
      /\ UNCHANGED <<listed, clock, cur, from, req, crashes, log, base, seen, first, got>>

\* The caller fills the payload.
WriteData ==
  /\ pc[Writer] = "opened"
  /\ Store(W.page, [u \in Places |->
       IF u = W.pos THEN [mem[W.page][u] EXCEPT !.body = req.body]
       ELSE IF W.pos + HeaderLen <= u /\ u < Behind THEN Junk
       ELSE mem[W.page][u]])
  /\ Goto(Writer, "filled")
  /\ UNCHANGED <<lastpos, listed, clock, cur, from, req, crashes, log, base, seen, first, got>>

\* Slip: the next header is not zeroed.
LeaveNext ==
  /\ pc[Writer] = "filled"
  /\ req' = [req EXCEPT !.gen = clock]
  /\ Goto(Writer, "zeroed")
  /\ UNCHANGED <<mem, lastpos, listed, clock, cur, from, crashes, log, base, seen, first, got>>

\* close_frame: gen_time was read for the call, the next header is zeroed...
ZeroNext ==
  /\ pc[Writer] = "filled"
  /\ req' = [req EXCEPT !.gen = clock]
  /\ Store(W.page, [u \in Places |->
       IF Behind <= u /\ u < Behind + HeaderLen THEN Zeroed ELSE mem[W.page][u]])
  /\ Goto(Writer, "zeroed")
  /\ UNCHANGED <<lastpos, listed, clock, cur, from, crashes, log, base, seen, first, got>>

StampFrame ==
  /\ pc[Writer] = "zeroed"
  /\ Store(W.page, [mem[W.page] EXCEPT ![W.pos].gen = req.gen])
  /\ Goto(Writer, "stamped")
  /\ UNCHANGED <<lastpos, listed, clock, cur, from, req, crashes, log, base, seen, first, got>>

\* ...and the length is stored: from here readers see the frame.
PublishFrame ==
  /\ pc[Writer] = "stamped"
  /\ Store(W.page, [mem[W.page] EXCEPT ![W.pos].len = HeaderLen + req.dlen])
  /\ log' = Append(log, [page |-> W.page, pos |-> W.pos,
                         len |-> HeaderLen + req.dlen, gen |-> req.gen, body |-> req.body])
  /\ Goto(Writer, "published")
  /\ UNCHANGED <<lastpos, listed, clock, cur, from, req, crashes, base, seen, first, got>>

\* close_frame ends: page header, next(), unlock.
CloseFrame ==
  /\ pc[Writer] = "published"
  /\ lastpos' = [lastpos EXCEPT ![W.page] = W.pos]
  /\ cur' = [cur EXCEPT ![Writer].pos = @ + Frame(Writer).len]
  /\ seen' = [seen EXCEPT ![Writer] = @ + 1]
  /\ Goto(Writer, "ready")
  /\ UNCHANGED <<mem, listed, clock, from, req, crashes, log, base, first, got>>

\* The process that writes dies, and is started again at a later time.
Crash ==
  /\ pc[Writer] \in CrashPoints
  /\ crashes < MaxCrashes /\ clock < MaxClock
  /\ crashes' = crashes + 1
  /\ clock' = clock + 1
  /\ Goto(Writer, "off")
  /\ UNCHANGED <<mem, lastpos, listed, cur, from, req, log, base, seen, first, got>>

Write ==
  \/ \E b \in Bodies, d \in DataLens : OpenFrame(b, d) \/ MakePage(b, d)
  \/ TurnPage \/ WritePageEnd \/ OpenInNewPage
  \/ WriteData \/ ZeroNext \/ StampFrame \/ PublishFrame \/ CloseFrame

----------------------------------------------------------------------------
(* A reader in its event loop.                                              *)

\* Reader::data_available, the handlers of the engine, Reader::next.
Deliver(r) ==
  /\ pc[r] = "ready"
  /\ HasData(Frame(r))
  /\ got' = [got EXCEPT ![r] = Append(@, [gen |-> Frame(r).gen, body |-> Frame(r).body])]
  /\ JournalNext(r)
  /\ UNCHANGED <<mem, clock, pc, from, req, crashes, log, base, first>>

----------------------------------------------------------------------------
Next ==
  \/ Tick
  \/ \E p \in Procs : Seek(p)
  \/ Write
  \/ Crash
  \/ \E r \in Readers : Deliver(r)

Spec == Init /\ [][Next]_vars

\* A process once started is scheduled; nobody has to send anything, or to start
\* a process that died.
Fairness ==
  /\ \A r \in Readers : WF_vars(Deliver(r))
  /\ \A p \in Procs : WF_vars(SeekOn(p))
  /\ WF_vars(TurnPage \/ WritePageEnd \/ OpenInNewPage \/ WriteData \/ ZeroNext \/ StampFrame
             \/ PublishFrame \/ CloseFrame)

FairSpec == Spec /\ Fairness

----------------------------------------------------------------------------
(* Properties. *)

PCs == {"off", "join", "none", "made", "faulted", "seekPage", "seekFrame", "ready",
        "making", "turned", "ended", "opened", "filled", "zeroed", "stamped", "published"}

Headers == [len : Nat, tag : {PageEnd, Data}, gen : Nat, body : Bodies \cup {NoBody}]
Frames  == [page : Pages, pos : Places, len : Nat, gen : Nat, body : Bodies]

\* The type of every variable; no cursor ever leaves the part of the page below
\* address_border (the assertion of close_frame, core/journal/writer.cpp:60).
TypeOK ==
  /\ mem \in [Pages -> [Places -> Headers]]
  /\ lastpos \in [Pages -> 0 .. PageSize]
  /\ listed \in SUBSET Pages
  /\ clock \in Nat
  /\ pc \in [Procs -> PCs]
  /\ cur \in [Procs -> [page : Pages, pos : First .. Border - 1]]
  /\ from \in [Procs -> Nat]
  /\ req \in [body : Bodies \cup {NoBody}, dlen : DataLens \cup {0}, gen : Nat]
  /\ crashes \in Nat
  /\ log \in Seq(Frames)
  /\ base \in [Pages -> Nat]
  /\ seen \in [Procs -> Nat]
  /\ first \in [Readers -> Nat]
  /\ got \in [Readers -> Seq([gen : Nat, body : Bodies \cup {NoBody}])]

\* What a reader is to be told of a published frame.
Entry(f) == [gen |-> f.gen, body |-> f.body]

\* A reader is handed whole frames, every one from the place it joined at on,
\* once and in the order they were published, whatever the writer is in the
\* middle of and however often its process was restarted (frame.h has_data
\* against the order of the stores in writer.cpp open_frame and close_frame).
DeliveredInOrder ==
  \A r \in Readers : first[r] # 0 =>
    /\ first[r] + Len(got[r]) <= Len(log) + 1
    /\ \A i \in 1 .. Len(got[r]) : got[r][i] = Entry(log[first[r] + i - 1])

\* A published frame stays in its page as it was published: neither the next
\* frames, nor a page end, nor a writer constructed later overwrite it.
PublishedStays ==
  \A i \in DOMAIN log :
    mem[log[i].page][log[i].pos] =
      [len |-> log[i].len, tag |-> Data, gen |-> log[i].gen, body |-> log[i].body]

\* Place of the frame that follows the first n of the log, if it is on page q.
PlaceAfter(q, n) == IF n = base[q] THEN First ELSE log[n].pos + log[n].len

\* A writer ready to write, one just constructed included, stands right behind
\* the last published frame, in the newest page (journal.cpp seek_to_time).
WriterAtTheEnd ==
  pc[Writer] = "ready" =>
    /\ \A q \in Files : q <= W.page
    /\ W.pos = PlaceAfter(W.page, Len(log))

\* On the page where it starts, a joining reader skips only frames that are not
\* newer than its begin time (journal.cpp find_page_id, seek_to_time).
JoinSkipsOnlyOld ==
  \A r \in Readers : \A i \in 1 .. first[r] - 1 :
    \/ log[i].gen <= from[r]
    \/ \E q \in Pages : i <= base[q] /\ base[q] < first[r]

\* While the process that writes lives, every page but the newest, and the one
\* the writer just left, ends with a PageEnd right behind its last frame and its
\* header names it (writer.cpp close_page).
PagesAreClosed ==
  \A q \in Pages :
    (q + 1 \in Files /\ (pc[Writer] \in {"turned", "ended"} => q + 1 < W.page)) =>
      LET end == PlaceAfter(q, base[q + 1])
      IN  mem[q][end].tag = PageEnd /\ mem[q][end].len > 0 /\ lastpos[q] = end

\* No PageEnd stands where a data frame was published ("There must be a PageEnd
\* frame in the last page frame", core/journal/page.h:52).
PageEndIsLast ==
  \A i \in DOMAIN log : mem[log[i].page][log[i].pos].tag # PageEnd

\* Seeking ends, whatever the writer does meanwhile: it gets through, or it meets a
\* page file whose maker has not come to the header, or died before, and faults.
SeekEnds == \A p \in Procs : pc[p] = "join" ~> pc[p] \in {"ready", "faulted"}

\* What is published in the page a reader stands in is delivered to it.
SamePageDelivered ==
  \A r \in Readers, n \in 1 .. MaxFrames :
    (n <= Len(log) /\ pc[r] = "ready" /\ log[n].page = cur[r].page) ~> (n < first[r] + Len(got[r]))

\* Whatever is published after a reader joined is delivered to it: Journal::next
\* moves "current frame to the next available one" (core/journal/journal.h:55).
EveryFrameDelivered ==
  \A r \in Readers, n \in 1 .. MaxFrames :
    (n <= Len(log) /\ first[r] \in 1 .. n) ~> (n < first[r] + Len(got[r]))

\* The journal implements the log its users rely on.
Abstract == INSTANCE JournalLog WITH
  Entries <- [gen : Nat, body : Bodies \cup {NoBody}],
  log <- [i \in 1 .. Len(log) |-> Entry(log[i])]
ImplementsLog == Abstract!Spec
============================================================================
