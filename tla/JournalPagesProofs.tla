------------------------- MODULE JournalPagesProofs -------------------------
(***************************************************************************)
(* Proofs about Journal on top of its inductive invariant: which frames a  *)
(* joining reader skips, and how the pages end.                            *)
(***************************************************************************)
EXTENDS JournalProofs

----------------------------------------------------------------------------
(* What a step may do to the history, and to one reader.                    *)

\* LoadPage creates the page it does not find, and leaves the others alone.
LEMMA LoadKeepsFiles ==
  ASSUME TypeOK, NEW p \in Procs, NEW q \in Pages, LoadPage(p, q)
  PROVE  /\ \A k \in Files : k \in Files' /\ lastpos'[k] = lastpos[k]
         /\ \A k \in Procs \ {p} : cur'[k] = cur[k] /\ seen'[k] = seen[k]
         /\ cur'[p] = [page |-> q, pos |-> First] /\ seen'[p] = base[q]
<1>1. /\ lastpos \in [Pages -> 0 .. PageSize] /\ seen \in [Procs -> Nat]
      /\ cur \in [Procs -> [page : Pages, pos : First .. Border - 1]]
  BY DEF TypeOK
<1> QED BY <1>1 DEF LoadPage, Files

\* A process that looks for its page only makes page files.
LEMMA LookKeeps ==
  ASSUME TypeOK, NEW p \in Procs, SeekFault(p) \/ SeekNone(p) \/ MakeFirst(p)
  PROVE  /\ pc[p] \in Coming /\ pc'[p] \in Coming \cup {"faulted"}
         /\ \A k \in Procs \ {p} : pc'[k] = pc[k]
         /\ UNCHANGED <<mem, lastpos, cur, from, log, base, seen, first>>
BY DEF TypeOK, SeekFault, SeekNone, MakeFirst, Goto, Coming

\* The steps of a cursor that do not write to the log.
LEMMA SeekKeeps ==
  ASSUME IInv, NEW p \in Procs, Seek(p)
  PROVE  /\ UNCHANGED <<mem, log, base>>
         /\ \A k \in Files : k \in Files' /\ lastpos'[k] = lastpos[k]
         /\ \A k \in Procs \ {p} : /\ pc'[k] = pc[k] /\ cur'[k] = cur[k]
                                   /\ seen'[k] = seen[k] /\ from'[k] = from[k]
         /\ \A r \in Readers \ {p} : first'[r] = first[r]
<1>1. /\ pc \in [Procs -> PCs] /\ from \in [Procs -> Nat] /\ first \in [Readers -> Nat]
      /\ seen \in [Procs -> Nat] /\ TypeOK
      /\ cur \in [Procs -> [page : Pages, pos : First .. Border - 1]]
  BY DEF IInv, TypeOK
<1>2. CASE Start(p)
  BY <1>1, <1>2 DEF Start, Goto, Files
<1>3. CASE SeekFind(p)
  BY <1>1, <1>3, LoadKeepsFiles DEF SeekFind, Goto
<1>7. CASE LoadFirst(p)
  BY <1>1, <1>7, Sizes, LoadKeepsFiles DEF LoadFirst, Goto
<1>8. CASE SeekFault(p) \/ SeekNone(p) \/ MakeFirst(p)
  BY <1>1, <1>8, LookKeeps DEF Files
<1>4. CASE SeekPage(p)
  <2>1. CASE LoadPage(p, cur[p].page + 1) /\ UNCHANGED pc
    BY <1>1, <1>4, <2>1, LoadKeepsFiles DEF SeekPage, LoadPage
  <2>2. CASE Goto(p, "seekFrame") /\ UNCHANGED <<lastpos, listed, cur, seen>>
    BY <1>1, <1>4, <2>2 DEF SeekPage, Goto, Files
  <2> QED BY <1>4, <2>1, <2>2 DEF SeekPage
<1>5. CASE SeekFrame(p)
  <2>1. /\ pc[p] = "seekFrame" /\ HasData(Frame(p)) /\ JournalNext(p)
        /\ UNCHANGED <<mem, clock, pc, from, req, crashes, log, base, first, got>>
    BY <1>5 DEF SeekFrame, IsPassed
  <2>2. AtFrame(p)
    BY <2>1 DEF IInv, CursorInv, CursorOK, Seeking
  <2>3. lastpos' = lastpos /\ \A k \in Procs \ {p} : cur'[k] = cur[k] /\ seen'[k] = seen[k]
    BY <2>1, <2>2, NextPasses
  <2> QED BY <2>1, <2>3 DEF Files
<1>6. CASE SeekDone(p)
  BY <1>1, <1>6 DEF SeekDone, Goto, Files
<1> QED BY <1>2, <1>3, <1>4, <1>5, <1>6, <1>7, <1>8 DEF Seek, SeekOn

\* So does a delivery.
LEMMA DeliverKeeps ==
  ASSUME IInv, NEW p \in Readers, Deliver(p)
  PROVE  /\ UNCHANGED <<mem, pc, lastpos, from, log, base, first>>
         /\ \A k \in Procs \ {p} : cur'[k] = cur[k] /\ seen'[k] = seen[k]
<1>1. /\ pc[p] = "ready" /\ HasData(Frame(p)) /\ JournalNext(p) /\ p \in Procs
      /\ UNCHANGED <<mem, clock, pc, from, req, crashes, log, base, first>>
  BY WriterThere DEF Deliver
<1>2. AtFrame(p)
  BY <1>1 DEF IInv, CursorInv, CursorOK
<1> QED BY <1>1, <1>2, NextPasses

\* The writer touches no reader.
LEMMA WriteKeeps ==
  ASSUME IInv, Write \/ Crash
  PROVE  /\ UNCHANGED <<from, first>>
         /\ \A r \in Readers : pc'[r] = pc[r] /\ cur'[r] = cur[r] /\ seen'[r] = seen[r]
<1>1. /\ pc \in [Procs -> PCs] /\ seen \in [Procs -> Nat]
      /\ cur \in [Procs -> [page : Pages, pos : First .. Border - 1]]
  BY DEF IInv, TypeOK
<1>2. CASE Crash
  BY <1>1, <1>2, WriterThere DEF Crash, Goto
<1>3. ASSUME NEW b \in Bodies, NEW d \in DataLens, OpenFrame(b, d) \/ MakePage(b, d)
      PROVE  /\ UNCHANGED <<from, first>>
             /\ \A r \in Readers : pc'[r] = pc[r] /\ cur'[r] = cur[r] /\ seen'[r] = seen[r]
  BY <1>1, <1>3, WriterThere DEF OpenFrame, MakePage, Goto
<1>4. CASE TurnPage \/ WritePageEnd \/ OpenInNewPage
  BY <1>1, <1>4, WriterThere DEF TurnPage, WritePageEnd, OpenInNewPage, Goto
<1>5. CASE WriteData \/ ZeroNext \/ StampFrame
  BY <1>1, <1>5, WriterThere DEF WriteData, ZeroNext, StampFrame, Goto
<1>6. CASE PublishFrame
  BY <1>1, <1>6, WriterThere DEF PublishFrame, Goto
<1>7. CASE CloseFrame
  <2>1. /\ pc' = [pc EXCEPT ![Writer] = "ready"]
        /\ cur' = [cur EXCEPT ![Writer].pos = @ + Frame(Writer).len]
        /\ seen' = [seen EXCEPT ![Writer] = @ + 1] /\ UNCHANGED <<from, first>>
    BY <1>7 DEF CloseFrame, Goto
  <2> QED BY <1>1, <2>1, WriterThere
<1> QED BY <1>2, <1>3, <1>4, <1>5, <1>6, <1>7 DEF Write

\* The log only grows, files are not deleted, and base stays what it was.
LEMMA HistoryGrows ==
  ASSUME IInv, [Next]_vars
  PROVE  /\ Len(log) \in Nat /\ \A i \in 1 .. Len(log) : log'[i] = log[i]
         /\ \A q \in Files : q \in Files' /\ base'[q] = base[q]
<1>1. /\ TypeOK /\ Len(log) \in Nat /\ log \in Seq(Frames) /\ base \in [Pages -> Nat]
      /\ lastpos \in [Pages -> 0 .. PageSize]
  BY Types DEF IInv, TypeOK
<1>2. CASE UNCHANGED <<log, base, lastpos>>
  BY <1>1, <1>2 DEF Files
<1>3. CASE Tick \/ Crash \/ UNCHANGED vars
  BY <1>2, <1>3 DEF Tick, Crash, vars
<1>4. ASSUME NEW p \in Procs, Seek(p)
      PROVE  UNCHANGED <<log, base>> /\ Files \subseteq Files'
  BY <1>4, SeekKeeps
<1>5. ASSUME NEW r \in Readers, Deliver(r) PROVE UNCHANGED <<log, base, lastpos>>
  BY <1>5, DeliverKeeps
<1>6. CASE TurnPage
  <2>1. /\ log' = log /\ base' = [base EXCEPT ![W.page + 1] = Len(log)]
        /\ lastpos' = [lastpos EXCEPT ![W.page + 1] = IF @ = 0 THEN First ELSE @]
        /\ pc[Writer] = "making"
    BY <1>6 DEF TurnPage
  <2>2. W.page + 1 \notin Files
    BY <2>1 DEF IInv, WriterInv, Newest
  <2> QED BY <1>1, <2>1, <2>2 DEF Files
<1>7. CASE PublishFrame
  <2>1. UNCHANGED <<base, lastpos>> /\ \A i \in 1 .. Len(log) : log'[i] = log[i]
    BY <1>1, <1>7 DEF PublishFrame
  <2> QED BY <2>1 DEF Files
<1>8. CASE OpenInNewPage
  <2>1. pc[Writer] \in {"turned", "ended"}
    BY <1>8 DEF OpenInNewPage
  <2>2. EndPlace(W.page - 1) \in Places
    BY <2>1, PageBehind
  <2>3. UNCHANGED <<log, base>> /\ lastpos' = [lastpos EXCEPT ![W.page - 1] = EndPlace(W.page - 1)]
    BY <1>8 DEF OpenInNewPage
  <2> QED BY <1>1, <2>2, <2>3 DEF Files, Places
<1>9. CASE CloseFrame
  <2>1. W.pos \in Places
    BY Types, WriterThere DEF IInv, W
  <2>2. UNCHANGED <<log, base>> /\ lastpos' = [lastpos EXCEPT ![W.page] = W.pos]
    BY <1>9 DEF CloseFrame
  <2> QED BY <1>1, <2>1, <2>2 DEF Files, Places
<1>10. ASSUME NEW b \in Bodies, NEW d \in DataLens, OpenFrame(b, d) \/ MakePage(b, d)
       PROVE  UNCHANGED <<log, base, lastpos>>
  BY <1>10 DEF OpenFrame, MakePage
<1>11. CASE WritePageEnd \/ WriteData \/ ZeroNext \/ StampFrame
  BY <1>2, <1>11 DEF WritePageEnd, WriteData, ZeroNext, StampFrame
<1>12. CASE Write
  BY <1>2, <1>6, <1>7, <1>8, <1>9, <1>10, <1>11, <1>12 DEF Write
<1> QED BY <1>1, <1>2, <1>3, <1>4, <1>5, <1>12 DEF Next

\* The page behind a cursor that stands at a frame, and the frames it passed.
LEMMA CursorPage ==
  ASSUME IInv, NEW p \in Procs, AtFrame(p)
  PROVE  /\ cur[p].page \in Files /\ base[cur[p].page] \in Nat /\ seen[p] \in Nat
         /\ base[cur[p].page] <= seen[p] /\ seen[p] <= Len(log) /\ Len(log) \in Nat
<1>1. /\ cur[p].page \in Files /\ cur[p].page \in Pages
      /\ base[cur[p].page] <= seen[p] /\ seen[p] <= Top(cur[p].page)
      /\ Top(cur[p].page) <= Len(log)
  BY DEF AtFrame, IInv, FilesInv, Files
<1>2. base[cur[p].page] \in Nat /\ Top(cur[p].page) \in Nat /\ seen[p] \in Nat /\ Len(log) \in Nat
  BY <1>1, Types DEF IInv
<1> QED BY <1>1, <1>2

----------------------------------------------------------------------------
(* Joining skips old frames only.                                           *)

\* A step that leaves a reader where it is.
LEMMA SkipStays ==
  ASSUME IInv, [Next]_vars, NEW r \in Readers, SkippedOK(r),
         pc'[r] = pc[r], cur'[r] = cur[r], seen'[r] = seen[r], from'[r] = from[r],
         first'[r] = first[r]
  PROVE  SkippedOK(r)'
<1>1. /\ \A i \in 1 .. Len(log) : log'[i] = log[i]
      /\ \A q \in Files : q \in Files' /\ base'[q] = base[q]
  BY HistoryGrows
<1>2. r \in Procs /\ first[r] \in Nat /\ Len(log) \in Nat
  BY WriterThere, ReaderIndex, Types DEF IInv
<1>3. pc[r] \in Seeking => \A i \in base'[cur[r].page] + 1 .. seen[r] : Old(r, i)'
  <2>1. SUFFICES ASSUME pc[r] \in Seeking, NEW i \in base'[cur[r].page] + 1 .. seen[r]
                 PROVE  Old(r, i)'
    OBVIOUS
  <2>2. AtFrame(r)
    BY <1>2, <2>1 DEF IInv, CursorInv, CursorOK
  <2>3. base'[cur[r].page] = base[cur[r].page] /\ i \in 1 .. Len(log)
    BY <1>1, <1>2, <2>1, <2>2, CursorPage
  <2> QED BY <1>1, <2>1, <2>3 DEF SkippedOK, Old
<1>4. ASSUME NEW i \in 1 .. first[r] - 1
      PROVE  Old(r, i)' \/ \E q \in Files' : i <= base'[q] /\ base'[q] < first[r]
  <2>1. pc[r] = "ready" /\ Len(got[r]) \in Nat /\ first[r] + Len(got[r]) <= Len(log) + 1
    BY <1>2, <1>4, ReaderIndex DEF IInv, ReaderInv, ReaderOK
  <2>2. i \in 1 .. Len(log)
    BY <1>2, <1>4, <2>1
  <2>3. CASE Old(r, i)
    BY <1>1, <2>2, <2>3 DEF Old
  <2>4. CASE \E q \in Files : i <= base[q] /\ base[q] < first[r]
    BY <1>1, <2>4
  <2> QED BY <1>4, <2>3, <2>4 DEF SkippedOK
<1> QED BY <1>3, <1>4 DEF SkippedOK

\* The steps of a reader that joins.
LEMMA SkipSeek ==
  ASSUME IInv, [Next]_vars, NEW r \in Readers, SkippedOK(r), Seek(r)
  PROVE  SkippedOK(r)'
<1>1. /\ r \in Procs /\ pc \in [Procs -> PCs] /\ first \in [Readers -> Nat] /\ TypeOK
      /\ ReaderOK(r) /\ CursorOK(r)
  BY WriterThere DEF IInv, TypeOK, ReaderInv, CursorInv
<1>2. /\ UNCHANGED <<mem, log, base>> /\ \A k \in Files : k \in Files'
  BY <1>1, SeekKeeps
<1>3. \A i : i \notin 1 .. 0 - 1
  OBVIOUS
<1>4. CASE Start(r)
  <2>1. pc'[r] = "join" /\ first[r] = 0 /\ first'[r] = 0
    BY <1>1, <1>4 DEF Start, Goto, ReaderOK
  <2> QED BY <1>3, <2>1 DEF SkippedOK, Seeking
<1>9. CASE SeekFault(r) \/ SeekNone(r) \/ MakeFirst(r)
  <2>1. /\ pc[r] \in Coming /\ pc'[r] \in Coming \cup {"faulted"} /\ first' = first
    BY <1>1, <1>9, LookKeeps
  <2>2. first[r] = 0
    BY <1>1, <2>1 DEF ReaderOK, Coming
  <2> QED BY <1>3, <2>1, <2>2 DEF SkippedOK, Seeking, Coming
<1>5. CASE SeekFind(r) \/ LoadFirst(r)
  <2>1. PICK q \in Pages : LoadPage(r, q)
    BY <1>5, Sizes DEF SeekFind, LoadFirst
  <2>2. cur'[r] = [page |-> q, pos |-> First] /\ seen'[r] = base[q] /\ base[q] \in Nat
    BY <1>1, <2>1, LoadKeepsFiles, Types
  <2>3. first[r] = 0 /\ first'[r] = 0
    BY <1>1, <1>5 DEF SeekFind, LoadFirst, ReaderOK
  <2>4. \A i : i \notin base[q] + 1 .. base[q]
    BY <2>2
  <2> QED BY <1>2, <1>3, <2>2, <2>3, <2>4 DEF SkippedOK
<1>6. CASE SeekPage(r)
  <2>1. pc[r] = "seekPage" /\ first[r] = 0 /\ first'[r] = 0 /\ AtFrame(r)
        /\ seen[r] = base[cur[r].page]
    BY <1>1, <1>6 DEF SeekPage, ReaderOK, CursorOK, Seeking
  <2>2. seen'[r] = base[cur'[r].page] /\ base[cur'[r].page] \in Nat
    <3>1. CASE LoadPage(r, cur[r].page + 1)
      <4>1. cur[r].page + 1 \in Pages
        BY <3>1 DEF LoadPage
      <4>2. /\ cur'[r] = [page |-> cur[r].page + 1, pos |-> First]
            /\ seen'[r] = base[cur[r].page + 1]
        BY <1>1, <3>1, <4>1, LoadKeepsFiles
      <4> QED BY <1>1, <4>1, <4>2, Types
    <3>2. CASE UNCHANGED <<lastpos, listed, cur, seen>>
      BY <1>1, <2>1, <3>2, CursorPage
    <3> QED BY <1>6, <3>1, <3>2 DEF SeekPage
  <2>3. \A i : i \notin base[cur'[r].page] + 1 .. seen'[r]
    BY <2>2
  <2> QED BY <1>2, <1>3, <2>1, <2>3 DEF SkippedOK
<1>7. CASE SeekFrame(r)
  <2>1. /\ pc[r] = "seekFrame" /\ first[r] = 0 /\ first'[r] = 0 /\ AtFrame(r)
        /\ from'[r] = from[r] /\ HasData(Frame(r)) /\ Frame(r).gen <= from[r] /\ JournalNext(r)
    BY <1>1, <1>7 DEF SeekFrame, IsPassed, ReaderOK, CursorOK, Seeking
  <2>2. /\ seen'[r] = seen[r] + 1 /\ cur'[r].page = cur[r].page
        /\ [gen |-> Frame(r).gen, body |-> Frame(r).body] = Entry(log[seen[r] + 1])
    BY <1>1, <1>2, <2>1, NextPasses
  <2>3. Old(r, seen[r] + 1)
    BY <2>1, <2>2 DEF Entry, Old
  <2>4. \A i \in base[cur[r].page] + 1 .. seen[r] : Old(r, i)
    BY <2>1 DEF SkippedOK, Seeking
  <2>5. \A i \in base[cur[r].page] + 1 .. seen[r] + 1 : Old(r, i)
    BY <1>1, <2>1, <2>3, <2>4, CursorPage
  <2> QED BY <1>2, <1>3, <2>1, <2>2, <2>5 DEF SkippedOK, Old
<1>8. CASE SeekDone(r)
  <2>1. /\ pc[r] = "seekFrame" /\ pc'[r] = "ready" /\ AtFrame(r) /\ first'[r] = seen[r] + 1
        /\ from' = from
    BY <1>1, <1>8 DEF SeekDone, Goto, CursorOK, Seeking
  <2>2. ASSUME NEW i \in 1 .. (seen[r] + 1) - 1
        PROVE  Old(r, i) \/ \E q \in Files : i <= base[q] /\ base[q] < seen[r] + 1
    <3>1. /\ cur[r].page \in Files /\ base[cur[r].page] \in Nat /\ seen[r] \in Nat
          /\ base[cur[r].page] <= seen[r]
      BY <1>1, <2>1, CursorPage
    <3>2. CASE i <= base[cur[r].page]
      BY <3>1, <3>2
    <3>3. CASE ~ (i <= base[cur[r].page])
      <4>1. i \in base[cur[r].page] + 1 .. seen[r]
        BY <3>1, <3>3
      <4> QED BY <4>1, <2>1 DEF SkippedOK, Seeking
    <3> QED BY <3>2, <3>3
  <2> QED BY <1>2, <2>1, <2>2 DEF SkippedOK, Seeking, Old
<1> QED BY <1>4, <1>5, <1>6, <1>7, <1>8, <1>9 DEF Seek, SeekOn

\* Every step keeps what is said of the frames a reader skipped.
LEMMA SkipStep ==
  ASSUME IInv, SkipInv, [Next]_vars
  PROVE  SkipInv'
<1>1. SUFFICES ASSUME NEW r \in Readers PROVE SkippedOK(r)'
  BY DEF SkipInv
<1>2. SkippedOK(r) /\ r \in Procs
  BY WriterThere DEF SkipInv
<1>3. CASE Tick \/ UNCHANGED vars
  BY <1>2, <1>3, SkipStays DEF Tick, vars
<1>4. CASE Write \/ Crash
  BY <1>2, <1>4, WriteKeeps, SkipStays
<1>5. ASSUME NEW p \in Procs, Seek(p) PROVE SkippedOK(r)'
  <2>1. CASE p = r
    BY <1>2, <1>5, <2>1, SkipSeek
  <2>2. CASE p # r
    BY <1>2, <1>5, <2>2, SeekKeeps, SkipStays
  <2> QED BY <2>1, <2>2
<1>6. ASSUME NEW p \in Readers, Deliver(p) PROVE SkippedOK(r)'
  <2>1. CASE p = r
    <3>1. UNCHANGED <<pc, from, log, base, first, lastpos>> /\ pc[r] = "ready"
      BY <1>6, <2>1, DeliverKeeps DEF Deliver
    <3> QED BY <1>2, <3>1 DEF SkippedOK, Seeking, Old, Files
  <2>2. CASE p # r
    BY <1>2, <1>6, <2>2, DeliverKeeps, SkipStays
  <2> QED BY <2>1, <2>2
<1> QED BY <1>3, <1>4, <1>5, <1>6 DEF Next

\* A reader that joins while the writer is at work, or after the writer was
\* restarted, skips on the page it starts on only frames that are not newer
\* than its begin time.
THEOREM JoinSkips ==
  ASSUME NoCrashAtPublished
  PROVE  Spec => []JoinSkipsOnlyOld
<1>1. Init => SkipInv
  BY WriterThere DEF Init, SkipInv, SkippedOK, Seeking, Files
<1>2. IInv /\ SkipInv /\ [Next]_vars => SkipInv'
  BY SkipStep
<1>3. SkipInv => JoinSkipsOnlyOld
  BY DEF SkipInv, SkippedOK, JoinSkipsOnlyOld, Old, Files
<1> QED BY <1>1, <1>2, <1>3, Invariant, PTL DEF Spec

----------------------------------------------------------------------------
(* Pages are closed.                                                        *)

\* The writer does not die between the loading of the next page and the update
\* of the header of the page it leaves: a page left so keeps no PageEnd.
NoCrashInClosePage == CrashPoints \cap {"turned", "ended"} = {}

\* The end of a page that has a successor does not move.
LEMMA EndStays ==
  ASSUME IInv, [Next]_vars, NEW q \in Pages, q + 1 \in Files
  PROVE  q \in Files /\ End(q) \in Places /\ End(q)' = End(q)
<1>1. q + 1 \in Pages /\ q \in Nat /\ q < q + 1
  BY Sizes DEF Files
<1>2. q \in Files
  BY <1>1 DEF IInv, FilesInv
<1>3. /\ \A i \in 1 .. Len(log) : log'[i] = log[i]
      /\ base'[q] = base[q] /\ base'[q + 1] = base[q + 1] /\ q + 1 \in Files'
  BY <1>2, HistoryGrows
<1>4. Top(q) = base[q + 1] /\ Top(q)' = Top(q)
  BY <1>3 DEF Top
<1>5. Top(q) \in base[q] .. Top(q)
  BY <1>2, Types DEF IInv, FilesInv
<1>6. Top(q) # base[q] => Top(q) \in 1 .. Len(log)
  BY <1>2, <1>5, PlaceType DEF IInv
<1>7. End(q)' = End(q)
  BY <1>3, <1>4, <1>6 DEF End, PlaceAfter
<1> QED BY <1>2, <1>7, EndType DEF IInv

\* Only a writer that turns the page adds a page behind another.
LEMMA NewFile ==
  ASSUME IInv, [Next]_vars, NEW q \in Pages, q + 1 \in Files', q + 1 \notin Files
  PROVE  pc'[Writer] = "turned" /\ q = W'.page - 1
<1>1. /\ TypeOK /\ pc \in [Procs -> PCs] /\ lastpos \in [Pages -> 0 .. PageSize]
      /\ cur \in [Procs -> [page : Pages, pos : First .. Border - 1]]
  BY DEF IInv, TypeOK
<1>2. q + 1 \in Pages /\ lastpos[q + 1] = 0 /\ lastpos'[q + 1] # 0 /\ q + 1 # 1 /\ q \in Nat
  BY DEF Files, Pages
<1>3. ASSUME UNCHANGED lastpos PROVE FALSE
  BY <1>2, <1>3
<1>4. ASSUME NEW p \in Procs, NEW k \in Pages, LoadPage(p, k) PROVE k = q + 1
  BY <1>1, <1>2, <1>4 DEF LoadPage
<1>5. ASSUME NEW p \in Procs, Seek(p) PROVE FALSE
  <2>1. CASE Start(p) \/ SeekDone(p)
    BY <1>3, <2>1 DEF Start, SeekDone
  <2>5. CASE SeekFault(p) \/ SeekNone(p) \/ MakeFirst(p)
    BY <1>1, <1>3, <2>5, LookKeeps
  <2>6. CASE LoadFirst(p)
    BY <1>2, <1>4, <2>6, Sizes DEF LoadFirst
  <2>2. CASE SeekFind(p)
    <3>1. PICK k \in Pages : FoundPage(k, from[p]) /\ LoadPage(p, k)
      BY <2>2 DEF SeekFind
    <3>2. k = 1 \/ k \in Files
      BY <3>1 DEF FoundPage
    <3> QED BY <3>1, <3>2, <1>2, <1>4
  <2>3. CASE SeekPage(p)
    <3>1. pc[p] = "seekPage" /\ AtFrame(p)
      BY <2>3 DEF SeekPage, IInv, CursorInv, CursorOK, Seeking
    <3>2. CASE /\ IsFull(cur[p].page) /\ EndTime(cur[p].page) <= from[p]
               /\ LoadPage(p, cur[p].page + 1)
      <4>1. cur[p].page + 1 \in Pages
        BY <3>2 DEF LoadPage
      <4>2. cur[p].page = q
        BY <1>1, <1>2, <1>4, <3>2, <4>1 DEF Pages
      <4>3. q \in Files /\ IsFull(q)
        BY <3>1, <3>2, <4>2 DEF AtFrame
      <4> QED BY <4>2, <4>3, FullIsClosed DEF IInv, Newest
    <3>3. CASE UNCHANGED <<lastpos, listed, cur, seen>>
      BY <1>3, <3>3
    <3> QED BY <2>3, <3>2, <3>3 DEF SeekPage
  <2>4. CASE SeekFrame(p)
    <3>1. HasData(Frame(p)) /\ JournalNext(p) /\ AtFrame(p) /\ UNCHANGED <<mem, log, base>>
      BY <2>4 DEF SeekFrame, IsPassed, IInv, CursorInv, CursorOK, Seeking
    <3> QED BY <3>1, <1>3, NextPasses
  <2> QED BY <1>5, <2>1, <2>2, <2>3, <2>4, <2>5, <2>6 DEF Seek, SeekOn
<1>6. ASSUME NEW r \in Readers, Deliver(r) PROVE FALSE
  BY <1>3, <1>6, DeliverKeeps
<1>7. CASE Tick \/ Crash \/ UNCHANGED vars
  BY <1>3, <1>7 DEF Tick, Crash, vars
<1>8. CASE TurnPage
  <2>1. /\ lastpos' = [lastpos EXCEPT ![W.page + 1] = IF @ = 0 THEN First ELSE @]
        /\ cur' = [cur EXCEPT ![Writer] = [page |-> W.page + 1, pos |-> First]]
        /\ pc' = [pc EXCEPT ![Writer] = "turned"]
    BY <1>8 DEF TurnPage, Goto
  <2>2. q + 1 = W.page + 1
    BY <1>1, <1>2, <2>1
  <2>3. W.page \in Pages /\ W' = [page |-> W.page + 1, pos |-> First]
    BY <1>1, <2>1, WriterThere DEF W
  <2>4. W.page \in Nat /\ W'.page - 1 = W.page
    <3>1. W.page \in Nat
      BY <2>3 DEF Pages
    <3>2. W'.page = W.page + 1
      BY <2>3
    <3> QED BY <3>1, <3>2
  <2>5. q = W.page
    BY <1>2, <2>2, <2>4
  <2> QED BY <1>1, <2>1, <2>4, <2>5, WriterThere
<1>9. ASSUME NEW b \in Bodies, NEW d \in DataLens, OpenFrame(b, d) \/ MakePage(b, d)
      PROVE  FALSE
  BY <1>3, <1>9 DEF OpenFrame, MakePage
<1>10. CASE WritePageEnd \/ WriteData \/ ZeroNext \/ StampFrame \/ PublishFrame
  BY <1>3, <1>10 DEF WritePageEnd, WriteData, ZeroNext, StampFrame, PublishFrame
<1>11. CASE OpenInNewPage
  <2>1. W.page - 1 \in Files
    BY <1>11, PageBehind DEF OpenInNewPage
  <2>2. lastpos' = [lastpos EXCEPT ![W.page - 1] = EndPlace(W.page - 1)]
    BY <1>11 DEF OpenInNewPage
  <2> QED BY <1>1, <1>2, <2>1, <2>2
<1>12. CASE CloseFrame
  <2>1. W.page \in Files
    BY <1>12 DEF CloseFrame, IInv, WriterInv, Newest
  <2>2. lastpos' = [lastpos EXCEPT ![W.page] = W.pos]
    BY <1>12 DEF CloseFrame
  <2> QED BY <1>1, <1>2, <2>1, <2>2
<1> QED BY <1>5, <1>6, <1>7, <1>8, <1>9, <1>10, <1>11, <1>12 DEF Next, Write

\* A page that has a successor is not touched, but by the writer that leaves it.
LEMMA PageStays ==
  ASSUME IInv, [Next]_vars, NEW q \in Pages, q + 1 \in Files,
         ~ (pc[Writer] \in {"turned", "ended"} /\ q = W.page - 1)
  PROVE  mem'[q] = mem[q] /\ lastpos'[q] = lastpos[q]
<1>1. /\ mem \in [Pages -> [Places -> Headers]] /\ lastpos \in [Pages -> 0 .. PageSize]
      /\ q \in Files /\ ~ Newest(q)
  BY EndStays DEF IInv, TypeOK, Newest
<1>2. pc[Writer] \in Writing \cup {"ready", "making", "published"} => q # W.page /\ Newest(W.page)
  BY <1>1 DEF IInv, WriterInv
<1>3. CASE Tick \/ Crash \/ UNCHANGED vars
  BY <1>3 DEF Tick, Crash, vars
<1>4. ASSUME NEW p \in Procs, Seek(p) PROVE mem'[q] = mem[q] /\ lastpos'[q] = lastpos[q]
  BY <1>1, <1>4, SeekKeeps
<1>5. ASSUME NEW r \in Readers, Deliver(r) PROVE mem'[q] = mem[q] /\ lastpos'[q] = lastpos[q]
  BY <1>5, DeliverKeeps
<1>6. ASSUME NEW b \in Bodies, NEW d \in DataLens, OpenFrame(b, d) \/ MakePage(b, d)
      PROVE  mem'[q] = mem[q] /\ lastpos'[q] = lastpos[q]
  BY <1>1, <1>2, <1>6 DEF OpenFrame, MakePage, Store
<1>7. CASE TurnPage
  <2>1. W.page + 1 \notin Files
    BY <1>2, <1>7 DEF TurnPage, Newest
  <2> QED BY <1>1, <1>7, <2>1 DEF TurnPage
<1>8. CASE WriteData \/ ZeroNext \/ StampFrame \/ PublishFrame
  <2>1. q # W.page
    BY <1>2, <1>8 DEF WriteData, ZeroNext, StampFrame, PublishFrame, Writing
  <2> QED BY <1>1, <1>8, <2>1 DEF WriteData, ZeroNext, StampFrame, PublishFrame, Store
<1>9. CASE CloseFrame
  BY <1>1, <1>2, <1>9 DEF CloseFrame
<1>10. CASE WritePageEnd
  BY <1>1, <1>10 DEF WritePageEnd, Store
<1>11. CASE OpenInNewPage
  <2>1. q # W.page /\ q # W.page - 1
    BY <1>2, <1>11 DEF OpenInNewPage, Writing
  <2> QED BY <1>1, <1>11, <2>1 DEF OpenInNewPage, Store
<1> QED BY <1>3, <1>4, <1>5, <1>6, <1>7, <1>8, <1>9, <1>10, <1>11 DEF Next, Write

\* While it leaves a page the writer goes on in two steps; others do not disturb it.
LEMMA LeavingSteps ==
  ASSUME IInv, [Next]_vars, NoCrashInClosePage, pc[Writer] \in {"turned", "ended"}
  PROVE  \/ WritePageEnd
         \/ OpenInNewPage
         \/ mem' = mem /\ pc'[Writer] = pc[Writer] /\ W' = W
<1>1. CASE Tick \/ UNCHANGED vars
  BY <1>1 DEF Tick, vars, W
<1>2. CASE Crash
  BY <1>2 DEF Crash, NoCrashInClosePage
<1>3. ASSUME NEW p \in Procs, Seek(p)
      PROVE  mem' = mem /\ pc'[Writer] = pc[Writer] /\ W' = W
  <2>1. p # Writer
    BY <1>3 DEF Seek, SeekOn, Start, SeekFault, SeekNone, MakeFirst, LoadFirst, SeekFind,
       SeekPage, SeekFrame, SeekDone
  <2> QED BY <1>3, <2>1, SeekKeeps, WriterThere DEF W
<1>4. ASSUME NEW r \in Readers, Deliver(r)
      PROVE  mem' = mem /\ pc'[Writer] = pc[Writer] /\ W' = W
  BY <1>4, DeliverKeeps, WriterThere DEF W
<1>5. ASSUME NEW b \in Bodies, NEW d \in DataLens, OpenFrame(b, d) \/ MakePage(b, d)
      PROVE  FALSE
  BY <1>5 DEF OpenFrame, MakePage
<1>6. CASE TurnPage \/ WriteData \/ ZeroNext \/ StampFrame \/ PublishFrame \/ CloseFrame
  BY <1>6 DEF TurnPage, WriteData, ZeroNext, StampFrame, PublishFrame, CloseFrame
<1> QED BY <1>1, <1>2, <1>3, <1>4, <1>5, <1>6 DEF Next, Write

\* The page being left, and the place of its PageEnd.
LEMMA PageLeft ==
  ASSUME IInv, [Next]_vars, pc[Writer] \in {"turned", "ended"}, NEW q, q = W.page - 1
  PROVE  /\ q \in Pages /\ End(q) \in Places /\ End(q)' = End(q)
         /\ EndPlace(q) = End(q) /\ q # W.page
<1>1. q \in Pages /\ EndPlace(q) = End(q) /\ End(q) \in Places /\ q # W.page
  BY PageBehind
<1>2. W.page \in Files /\ W.page \in Nat
  BY InFrame, Sizes DEF Writing
<1>3. q + 1 \in Files
  <2>1. q + 1 = W.page
    BY <1>2
  <2> QED BY <1>2, <2>1
<1> QED BY <1>1, <1>3, EndStays

\* close_page: the PageEnd stands before open_frame goes on in the new page.
LEMMA EndedStep ==
  ASSUME IInv, ClosedInv, [Next]_vars, NoCrashInClosePage, pc'[Writer] = "ended"
  PROVE  EndedAt(W.page - 1)'
<1>1. pc[Writer] \in {"turned", "ended"}
  <2>1. pc \in [Procs -> PCs] /\ Writer \in Procs
    BY WriterThere DEF IInv, TypeOK
  <2>2. CASE Tick \/ UNCHANGED vars
    BY <2>2 DEF Tick, vars
  <2>3. ASSUME NEW p \in Procs, Seek(p) PROVE pc[Writer] = "ended"
    BY <2>1, <2>3 DEF Seek, SeekOn, Start, SeekFault, SeekNone, MakeFirst, LoadFirst, SeekFind,
       SeekPage, SeekFrame, SeekDone, Goto
  <2>4. ASSUME NEW r \in Readers, Deliver(r) PROVE pc[Writer] = "ended"
    BY <2>4, DeliverKeeps
  <2>5. CASE Crash
    BY <2>1, <2>5 DEF Crash, Goto
  <2>6. ASSUME NEW b \in Bodies, NEW d \in DataLens, OpenFrame(b, d) \/ MakePage(b, d)
        PROVE  FALSE
    BY <2>1, <2>6 DEF OpenFrame, MakePage, Goto
  <2>7. CASE \/ TurnPage \/ OpenInNewPage \/ WriteData \/ ZeroNext \/ StampFrame
             \/ PublishFrame \/ CloseFrame
    BY <2>1, <2>7 DEF TurnPage, OpenInNewPage, WriteData, ZeroNext, StampFrame, PublishFrame,
       CloseFrame, Goto
  <2>8. CASE WritePageEnd
    BY <2>8 DEF WritePageEnd
  <2> QED BY <2>2, <2>3, <2>4, <2>5, <2>6, <2>7, <2>8 DEF Next, Write
<1>2. CASE WritePageEnd
  <2> SUFFICES ASSUME NEW q, q = W.page - 1 PROVE EndedAt(W.page - 1)'
    OBVIOUS
  <2> DEFINE h == [mem[q][End(q)] EXCEPT !.len = HeaderLen, !.tag = PageEnd, !.gen = clock]
  <2>1. q \in Pages /\ End(q) \in Places /\ End(q)' = End(q) /\ EndPlace(q) = End(q)
    BY <1>1, PageLeft
  <2>2. mem \in [Pages -> [Places -> Headers]] /\ W' = W
    BY <1>2 DEF IInv, TypeOK, WritePageEnd, W
  <2>3. mem' = [mem EXCEPT ![q] = [mem[q] EXCEPT ![End(q)] = h]]
    BY <1>2, <2>1 DEF WritePageEnd, Store
  <2>4. mem'[q][End(q)] = h
    BY <2>1, <2>2, <2>3
  <2>5. h.len = HeaderLen /\ h.tag = PageEnd
    <3>1. mem[q][End(q)] \in Headers
      BY <2>1, <2>2
    <3> QED BY <3>1 DEF Headers
  <2> HIDE DEF h
  <2> QED BY <2>1, <2>2, <2>4, <2>5, Sizes DEF EndedAt
<1>3. CASE OpenInNewPage
  <2>1. pc \in [Procs -> PCs] /\ Writer \in Procs
    BY WriterThere DEF IInv, TypeOK
  <2> QED BY <1>3, <2>1 DEF OpenInNewPage, Goto
<1>4. CASE mem' = mem /\ pc'[Writer] = pc[Writer] /\ W' = W
  <2> SUFFICES ASSUME NEW q, q = W.page - 1 PROVE EndedAt(W.page - 1)'
    OBVIOUS
  <2>1. EndedAt(q) /\ End(q)' = End(q)
    BY <1>1, <1>4, PageLeft DEF ClosedInv
  <2> QED BY <1>4, <2>1 DEF EndedAt
<1> QED BY <1>1, <1>2, <1>3, <1>4, LeavingSteps

\* The page being left stays so, or is closed.
LEMMA LeavingStep ==
  ASSUME IInv, ClosedInv, [Next]_vars, NoCrashInClosePage,
         pc[Writer] \in {"turned", "ended"}, NEW q \in Pages, q = W.page - 1
  PROVE  ClosedAt(q)' \/ (pc'[Writer] \in {"turned", "ended"} /\ q = W'.page - 1)
<1>1. pc \in [Procs -> PCs] /\ Writer \in Procs /\ lastpos \in [Pages -> 0 .. PageSize]
      /\ mem \in [Pages -> [Places -> Headers]]
  BY WriterThere DEF IInv, TypeOK
<1>2. CASE WritePageEnd
  BY <1>1, <1>2 DEF WritePageEnd, Goto, W
<1>3. CASE OpenInNewPage
  <2>1. End(q)' = End(q) /\ EndPlace(q) = End(q) /\ q # W.page /\ EndedAt(q)
    BY <1>3, PageLeft DEF OpenInNewPage, ClosedInv
  <2>2. mem'[q] = mem[q] /\ lastpos'[q] = End(q)
    BY <1>1, <1>3, <2>1 DEF OpenInNewPage, Store
  <2> QED BY <2>1, <2>2 DEF ClosedAt, EndedAt
<1> QED BY <1>2, <1>3, LeavingSteps

\* Every step keeps the pages closed.
LEMMA ClosedStep ==
  ASSUME IInv, ClosedInv, [Next]_vars, NoCrashInClosePage
  PROVE  ClosedInv'
<1>1. ASSUME NEW q \in Pages, q + 1 \in Files'
      PROVE  ClosedAt(q)' \/ (pc'[Writer] \in {"turned", "ended"} /\ q = W'.page - 1)
  <2>1. CASE q + 1 \notin Files
    BY <1>1, <2>1, NewFile
  <2>2. CASE pc[Writer] \in {"turned", "ended"} /\ q = W.page - 1
    BY <2>2, LeavingStep
  <2>3. CASE q + 1 \in Files /\ ~ (pc[Writer] \in {"turned", "ended"} /\ q = W.page - 1)
    <3>1. ClosedAt(q)
      BY <2>3 DEF ClosedInv
    <3>2. mem'[q] = mem[q] /\ lastpos'[q] = lastpos[q] /\ End(q)' = End(q)
      BY <2>3, PageStays, EndStays
    <3> QED BY <3>1, <3>2 DEF ClosedAt, EndedAt
  <2> QED BY <2>1, <2>2, <2>3
<1>2. pc'[Writer] = "ended" => EndedAt(W.page - 1)'
  BY EndedStep
<1> QED BY <1>1, <1>2 DEF ClosedInv

\* As long as the writer does not die while it turns the page, every page it
\* left ends with a PageEnd behind its last frame and its header names it,
\* deaths elsewhere and joining readers notwithstanding.
THEOREM PagesClosed ==
  ASSUME NoCrashAtPublished, NoCrashInClosePage
  PROVE  Spec => []PagesAreClosed
<1>1. Init => ClosedInv
  BY WriterThere DEF Init, ClosedInv, Files
<1>2. IInv /\ ClosedInv /\ [Next]_vars => ClosedInv'
  BY ClosedStep
<1>3. IInv /\ ClosedInv => PagesAreClosed
  <2>1. SUFFICES ASSUME IInv, ClosedInv, NEW q \in Pages, q + 1 \in Files,
                        pc[Writer] \in {"turned", "ended"} => q + 1 < W.page
                 PROVE  LET end == PlaceAfter(q, base[q + 1])
                        IN  mem[q][end].tag = PageEnd /\ mem[q][end].len > 0 /\ lastpos[q] = end
    BY DEF PagesAreClosed
  <2>2. End(q) = PlaceAfter(q, base[q + 1])
    BY <2>1 DEF End, Top
  <2>3. W.page \in Pages
    BY <2>1, WriterThere DEF IInv, TypeOK, W
  <2>4. ~ (pc[Writer] \in {"turned", "ended"} /\ q = W.page - 1)
    BY <2>1, <2>3 DEF Pages
  <2>5. ClosedAt(q)
    BY <2>1, <2>4 DEF ClosedInv
  <2> QED BY <2>2, <2>5 DEF ClosedAt, EndedAt
<1> QED BY <1>1, <1>2, <1>3, Invariant, PTL DEF Spec

\* Where the writer does not die between its last two stores, no PageEnd takes
\* the place of a published frame: that death is all it takes, and without it
\* the comment on the last page frame (page.h:52) is true.
THEOREM PageEndsLast ==
  ASSUME NoCrashAtPublished
  PROVE  Spec => []PageEndIsLast
<1>1. PublishedStays => PageEndIsLast
  <2>1. SUFFICES ASSUME PublishedStays, NEW i \in DOMAIN log
                 PROVE  mem[log[i].page][log[i].pos].tag # PageEnd
    BY DEF PageEndIsLast
  <2>2. mem[log[i].page][log[i].pos] =
          [len |-> log[i].len, tag |-> Data, gen |-> log[i].gen, body |-> log[i].body]
    BY <2>1 DEF PublishedStays
  <2> QED BY <2>2 DEF Data, PageEnd
<1> QED BY <1>1, FramesStay, PTL
============================================================================
