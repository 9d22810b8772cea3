----------------------------- MODULE JournalInv -----------------------------
(***************************************************************************)
(* The inductive invariant of Journal: why a reader that looks at memory   *)
(* in the middle of a write, or across restarts of the writer, sees the    *)
(* published frames and nothing else.                                      *)
(***************************************************************************)
EXTENDS Journal

Newest(q) == q \in Files /\ q + 1 \notin Files

\* The frames base[q] + 1 .. Top(q) of the log are those of page q.
Top(q) == IF q + 1 \in Files THEN base[q + 1] ELSE Len(log)

\* The place behind the last published frame of page q.
End(q) == PlaceAfter(q, Top(q))

Writing == {"turned", "ended", "opened", "filled", "zeroed", "stamped"}
Coming  == {"join", "none", "made"}     \* seeks, and has no page yet
Seeking == {"seekPage", "seekFrame"}

\* Files are created one after the other, empty; base cuts the log into pages.
FilesInv ==
  /\ base[1] = 0
  /\ \A q \in Pages \ Files : mem[q][First].len = 0
  /\ \A q \in Files : base[q] <= Top(q) /\ Top(q) <= Len(log)
  /\ \A q \in Files : \A k \in Pages : k < q => k \in Files /\ base[k] <= base[q]

\* Page files are created before they get their header.  Where the writer found no
\* page file, readers can only have created the first one.
ListedInv ==
  /\ listed = {} => Files = {}
  /\ pc[Writer] \in {"none", "made"} => Files \subseteq {1}

\* Frame i of the log lies on page q, behind the frame before it.
FrameOn(q, i) ==
  /\ base[q] < i /\ i <= Top(q)
  /\ log[i].pos = PlaceAfter(q, i - 1)
  /\ log[i].len >= HeaderLen
  /\ log[i].pos + log[i].len <= End(q)
  /\ mem[q][log[i].pos] =
       [len |-> log[i].len, tag |-> Data, gen |-> log[i].gen, body |-> log[i].body]

\* A published frame lies where the log says, and the frames of a page lie one
\* behind the other.
LogInv ==
  \A i \in 1 .. Len(log) :
    log[i].page \in Files /\ \A q \in Files : log[i].page = q => FrameOn(q, i)

PagesInv ==
  \A q \in Files : \A i \in base[q] + 1 .. Top(q) : log[i].page = q

\* What a cursor finds behind the last frame of a page is no data: a header not
\* yet published, or a PageEnd.
EndInv ==
  \A q \in Files :
    /\ First <= End(q) /\ End(q) < Border
    /\ mem[q][End(q)].len = 0 \/ (mem[q][End(q)].tag = PageEnd /\ ~ Newest(q))

\* last_frame_position of the newest page, and of the page being closed.
LastFrame(q) == IF Top(q) = base[q] THEN First ELSE log[Top(q)].pos

LastInv ==
  \A q \in Files :
    /\ Newest(q) => lastpos[q] <= End(q) /\ lastpos[q] + mem[q][lastpos[q]].len <= End(q)
    /\ \/ Newest(q) /\ pc[Writer] # "published"
       \/ pc[Writer] \in {"turned", "ended"} /\ q = W.page - 1
       => lastpos[q] = LastFrame(q)

\* The writer is at work at the end of the newest page.
WriterInv ==
  /\ pc[Writer] \in Writing \cup {"ready", "making", "published"} => Newest(W.page)
  /\ pc[Writer] \in Writing \cup {"ready", "making"} =>
       W.pos = End(W.page) /\ seen[Writer] = Len(log)
  /\ pc[Writer] = "making" =>
       /\ req.body \in Bodies /\ req.dlen \in DataLens
       /\ W.page < MaxPages /\ base[W.page] < Len(log)
  /\ pc[Writer] \in Writing =>
       req.body \in Bodies /\ req.dlen \in DataLens /\ Behind < Border
  /\ pc[Writer] \in {"turned", "ended"} =>
       /\ W.page > 1 /\ W.pos = First
       /\ base[W.page] = Len(log) /\ base[W.page - 1] < Len(log)
  /\ pc[Writer] \in {"opened", "filled", "zeroed", "stamped"} =>
       mem[W.page][W.pos].tag = Data
  /\ pc[Writer] \in {"filled", "zeroed", "stamped"} =>
       mem[W.page][W.pos].body = req.body
  /\ pc[Writer] \in {"zeroed", "stamped"} => mem[W.page][Behind].len = 0
  /\ pc[Writer] = "stamped" => mem[W.page][W.pos].gen = req.gen
  /\ pc[Writer] = "published" =>
       /\ Len(log) > base[W.page] /\ seen[Writer] = Len(log) - 1
       /\ W.pos = log[Len(log)].pos
  /\ pc[Writer] \in Seeking => Newest(W.page)

\* Nothing in memory is of the future, nor, while the writer is down or seeks,
\* as new as the time it will seek to.
GenInv ==
  /\ req.gen <= clock /\ from[Writer] <= clock
  /\ \A q \in Pages, u \in Places :
       /\ mem[q][u].gen <= clock
       /\ pc[Writer] = "off" => mem[q][u].gen < clock
       /\ pc[Writer] \in Coming \cup Seeking => mem[q][u].gen < from[Writer]

\* A cursor that found its page stands at a frame, or at the end, of that page.
AtFrame(p) ==
  /\ cur[p].page \in Files
  /\ base[cur[p].page] <= seen[p] /\ seen[p] <= Top(cur[p].page)
  /\ cur[p].pos = PlaceAfter(cur[p].page, seen[p])

CursorOK(p) ==
  (pc[p] \in Seeking \/ (p \in Readers /\ pc[p] = "ready")) =>
    AtFrame(p) /\ (pc[p] = "seekPage" => seen[p] = base[cur[p].page])

CursorInv == \A p \in Procs : CursorOK(p)

\* What a reader was handed is what its cursor passed since it joined.
ReaderOK(r) ==
  /\ pc[r] \in {"off", "faulted", "ready"} \cup Coming \cup Seeking
  /\ pc[r] # "ready" => first[r] = 0 /\ got[r] = <<>>
  /\ pc[r] = "ready" => first[r] > 0 /\ seen[r] = first[r] - 1 + Len(got[r])
  /\ \A i \in 1 .. Len(got[r]) : got[r][i] = Entry(log[first[r] + i - 1])

ReaderInv == \A r \in Readers : ReaderOK(r)

IInv ==
  /\ TypeOK
  /\ FilesInv
  /\ ListedInv
  /\ LogInv
  /\ PagesInv
  /\ EndInv
  /\ LastInv
  /\ WriterInv
  /\ GenInv
  /\ CursorInv
  /\ ReaderInv

----------------------------------------------------------------------------
(* Two invariants that hold on top of IInv.                                 *)

\* Frame i is not newer than the time reader r joins at.
Old(r, i) == log[i].gen <= from[r]

\* What a joining reader skipped: on the page it seeks in, old frames only.
SkippedOK(r) ==
  /\ pc[r] \in Seeking => \A i \in base[cur[r].page] + 1 .. seen[r] : Old(r, i)
  /\ \A i \in 1 .. first[r] - 1 :
       Old(r, i) \/ \E q \in Files : i <= base[q] /\ base[q] < first[r]

SkipInv == \A r \in Readers : SkippedOK(r)

\* Page q ends with a PageEnd, and its header names it.
EndedAt(q)  == mem[q][End(q)].tag = PageEnd /\ mem[q][End(q)].len > 0
ClosedAt(q) == EndedAt(q) /\ lastpos[q] = End(q)

\* Every page that has a successor is closed; the page the writer is just
\* leaving is closed in two steps.
ClosedInv ==
  /\ \A q \in Pages : q + 1 \in Files =>
       \/ ClosedAt(q)
       \/ pc[Writer] \in {"turned", "ended"} /\ q = W.page - 1
  /\ pc[Writer] = "ended" => EndedAt(W.page - 1)
============================================================================
