--------------------------- MODULE JournalProofs ---------------------------
(***************************************************************************)
(* Proofs about Journal, for any number of readers, pages, frames, readings *)
(* of the clock and deaths of the writer, and any size of page and header.  *)
(***************************************************************************)
EXTENDS JournalInv, TLAPS

\* The writer dies anywhere but between the two stores that end close_frame.
NoCrashAtPublished == "published" \notin CrashPoints

----------------------------------------------------------------------------
(* Facts about one state.                                                   *)

\* Arithmetic of the sizes: First, Border and HeaderLen are naturals and a frame fits a page.
LEMMA Sizes ==
  /\ HeaderLen \in Nat /\ HeaderLen > 0 /\ PageSize \in Nat /\ MaxPages \in Nat
  /\ First \in Places /\ Border \in Int /\ Border < PageSize /\ First < Border
  /\ 1 \in Pages /\ Pages \subseteq Nat /\ Places \subseteq Nat
  /\ \A d \in DataLens : d \in Nat /\ First + HeaderLen + d < Border
BY BoundsAreNatural, FramesFitAPage DEF First, Border, Pages, Places

\* What TypeOK says of the variables one at a time.
LEMMA Types ==
  ASSUME TypeOK
  PROVE  /\ Len(log) \in Nat
         /\ \A q \in Pages : base[q] \in Nat /\ Top(q) \in Nat /\ lastpos[q] \in Nat
         /\ \A q \in Files : q \in Pages /\ lastpos[q] \in Places
         /\ \A i \in 1 .. Len(log) :
              /\ log[i].page \in Pages /\ log[i].pos \in Places
              /\ log[i].len \in Nat /\ log[i].gen \in Nat /\ log[i].body \in Bodies
         /\ \A q \in Pages, u \in Places :
              mem[q][u].len \in Nat /\ mem[q][u].gen \in Nat /\ mem[q][u].tag \in {PageEnd, Data}
         /\ \A p \in Procs : cur[p].page \in Pages /\ cur[p].pos \in Places /\ seen[p] \in Nat
<1>1. Len(log) \in Nat
  BY DEF TypeOK
<1>2. \A q \in Pages : base[q] \in Nat /\ Top(q) \in Nat /\ lastpos[q] \in Nat
  BY <1>1, Sizes DEF TypeOK, Top, Files, Pages
<1>3. \A i \in 1 .. Len(log) :
        /\ log[i].page \in Pages /\ log[i].pos \in Places
        /\ log[i].len \in Nat /\ log[i].gen \in Nat /\ log[i].body \in Bodies
  <2>1. \A i \in 1 .. Len(log) : log[i] \in Frames
    BY DEF TypeOK
  <2> QED BY <2>1 DEF Frames
<1>4. \A q \in Pages, u \in Places :
        mem[q][u].len \in Nat /\ mem[q][u].gen \in Nat /\ mem[q][u].tag \in {PageEnd, Data}
  <2>1. \A q \in Pages, u \in Places : mem[q][u] \in Headers
    BY DEF TypeOK
  <2> QED BY <2>1 DEF Headers
<1>5. \A p \in Procs : cur[p].page \in Pages /\ cur[p].pos \in Places /\ seen[p] \in Nat
  <2>1. \A p \in Procs : cur[p] \in [page : Pages, pos : First .. Border - 1] /\ seen[p] \in Nat
    BY DEF TypeOK
  <2>2. First .. Border - 1 \subseteq Places
    BY Sizes DEF Places, First
  <2> QED BY <2>1, <2>2
<1>6. \A q \in Files : q \in Pages /\ lastpos[q] \in Places
  <2>1. \A q \in Pages : lastpos[q] \in 0 .. PageSize
    BY DEF TypeOK
  <2> QED BY <2>1, Sizes DEF Files, Places
<1> QED BY <1>1, <1>2, <1>3, <1>4, <1>5, <1>6

\* There is one newest page.
LEMMA NewestIsLast ==
  ASSUME FilesInv, NEW q \in Files, NEW k \in Files, Newest(q)
  PROVE  k <= q
<1>1. q \in Pages /\ k \in Pages /\ q \in Nat /\ k \in Nat
  BY Sizes DEF Files
<1>2. SUFFICES ASSUME q < k PROVE FALSE
  BY <1>1
<1>3. q + 1 \in Pages
  BY <1>1, <1>2, Sizes DEF Pages
<1>4. q + 1 = k \/ q + 1 < k
  BY <1>1, <1>2
<1>5. q + 1 \in Files
  BY <1>3, <1>4 DEF FilesInv
<1> QED BY <1>5 DEF Newest

\* The frames of a page, and the place behind the first n of the log.
LEMMA PlaceType ==
  ASSUME TypeOK, FilesInv, NEW q \in Files, NEW n \in base[q] .. Top(q)
  PROVE  /\ n \in Nat /\ n <= Len(log)
         /\ PlaceAfter(q, n) \in Int
         /\ n # base[q] => n \in 1 .. Len(log)
<1>1. q \in Pages /\ base[q] \in Nat /\ Top(q) \in Nat /\ Top(q) <= Len(log) /\ Len(log) \in Nat
  BY Types DEF Files, FilesInv
<1>2. n \in Nat /\ n <= Len(log) /\ (n # base[q] => n \in 1 .. Len(log))
  BY <1>1
<1>3. ASSUME n # base[q] PROVE log[n].pos \in Int /\ log[n].len \in Int
  <2>1. n \in 1 .. Len(log)
    BY <1>2, <1>3
  <2>2. log[n].pos \in Places /\ log[n].len \in Nat
    BY <2>1, Types
  <2> QED BY <2>2 DEF Places
<1> QED BY <1>2, <1>3 DEF PlaceAfter, First

\* The end of a page is a place of the page.
LEMMA EndType ==
  ASSUME TypeOK, FilesInv, EndInv, NEW q \in Files
  PROVE  End(q) \in Int /\ End(q) \in Places
<1>1. Top(q) \in base[q] .. Top(q)
  BY Types DEF FilesInv, Files
<1>2. End(q) \in Int
  BY <1>1, PlaceType DEF End
<1> QED BY <1>2, Sizes DEF EndInv, Places, First

\* Where a published frame lies: on its page, before the end of the page.
LEMMA FramePlace ==
  ASSUME TypeOK, FilesInv, LogInv, EndInv, NEW i \in 1 .. Len(log)
  PROVE  /\ log[i].page \in Files /\ log[i].page \in Pages
         /\ log[i].pos \in Nat /\ log[i].pos \in Places /\ log[i].len \in Nat
         /\ base[log[i].page] < i /\ i <= Top(log[i].page)
         /\ log[i].pos = PlaceAfter(log[i].page, i - 1)
         /\ log[i].pos + log[i].len <= End(log[i].page)
         /\ log[i].pos < End(log[i].page)
         /\ mem[log[i].page][log[i].pos] =
              [len |-> log[i].len, tag |-> Data, gen |-> log[i].gen, body |-> log[i].body]
<1>1. /\ log[i].page \in Files /\ log[i].page \in Pages
      /\ base[log[i].page] < i /\ i <= Top(log[i].page)
      /\ log[i].pos = PlaceAfter(log[i].page, i - 1)
      /\ log[i].pos + log[i].len <= End(log[i].page)
      /\ log[i].len >= HeaderLen
      /\ mem[log[i].page][log[i].pos] =
           [len |-> log[i].len, tag |-> Data, gen |-> log[i].gen, body |-> log[i].body]
  BY Types DEF LogInv, FrameOn
<1>2. log[i].pos \in Places /\ log[i].len \in Nat
  BY Types
<1>3. End(log[i].page) \in Int
  BY <1>1, EndType
<1>4. log[i].pos \in Nat
  BY <1>2 DEF Places
<1>5. log[i].pos < End(log[i].page)
  BY <1>1, <1>2, <1>3, <1>4, Sizes
<1> QED BY <1>1, <1>2, <1>4, <1>5

\* A cursor behind the first n frames that finds data finds the next frame of
\* the page, whole, and has room to go on.
LEMMA NextFrame ==
  ASSUME TypeOK, FilesInv, LogInv, PagesInv, EndInv,
         NEW q \in Files, NEW n \in base[q] .. Top(q), HasData(mem[q][PlaceAfter(q, n)])
  PROVE  /\ n + 1 \in 1 .. Len(log) /\ n + 1 <= Top(q)
         /\ log[n + 1].page = q /\ log[n + 1].pos = PlaceAfter(q, n)
         /\ mem[q][PlaceAfter(q, n)] =
              [len |-> log[n + 1].len, tag |-> Data, gen |-> log[n + 1].gen, body |-> log[n + 1].body]
         /\ PlaceAfter(q, n + 1) = log[n + 1].pos + log[n + 1].len
         /\ First <= PlaceAfter(q, n + 1) /\ PlaceAfter(q, n + 1) < Border
<1>1. q \in Pages /\ base[q] \in Nat /\ Top(q) \in Nat /\ Top(q) <= Len(log) /\ Len(log) \in Nat
  BY Types DEF Files, FilesInv
<1>2. n \in Nat /\ base[q] <= n /\ n <= Top(q)
  BY <1>1
<1>3. n # Top(q)
  <2>1. SUFFICES ASSUME n = Top(q) PROVE FALSE
    OBVIOUS
  <2>2. HasData(mem[q][End(q)])
    BY <2>1 DEF End
  <2> QED BY <2>2 DEF EndInv, HasData, PageEnd
<1>4. n + 1 \in 1 .. Len(log) /\ n + 1 <= Top(q) /\ n + 1 \in base[q] + 1 .. Top(q)
  BY <1>1, <1>2, <1>3
<1>5. log[n + 1].page = q
  BY <1>4 DEF PagesInv
<1>6. (n + 1) - 1 = n /\ n + 1 # base[q]
  BY <1>1, <1>2
<1>7. /\ log[n + 1].pos = PlaceAfter(q, n)
      /\ mem[q][log[n + 1].pos] =
           [len |-> log[n + 1].len, tag |-> Data, gen |-> log[n + 1].gen, body |-> log[n + 1].body]
      /\ log[n + 1].pos + log[n + 1].len <= End(q)
      /\ log[n + 1].pos \in Places /\ log[n + 1].len \in Nat
  BY <1>4, <1>5, <1>6, FramePlace
<1>8. PlaceAfter(q, n + 1) = log[n + 1].pos + log[n + 1].len
  BY <1>6 DEF PlaceAfter
<1>9. End(q) \in Int /\ End(q) < Border /\ Border \in Int
  BY EndType, Sizes DEF EndInv
<1>10. First <= PlaceAfter(q, n + 1) /\ PlaceAfter(q, n + 1) < Border
  BY <1>7, <1>8, <1>9 DEF Places, First
<1> QED BY <1>4, <1>5, <1>7, <1>8, <1>10

\* Seeking never runs past the newest page: a full page has a successor.
LEMMA FullIsClosed ==
  ASSUME TypeOK, FilesInv, EndInv, LastInv, NEW q \in Files, IsFull(q)
  PROVE  q + 1 \in Files
<1>1. SUFFICES ASSUME Newest(q) PROVE FALSE
  BY DEF Newest
<1>2. lastpos[q] + mem[q][lastpos[q]].len <= End(q)
  BY <1>1 DEF LastInv
<1>3. lastpos[q] \in Places /\ q \in Pages
  BY Types
<1>4. lastpos[q] \in Int /\ mem[q][lastpos[q]].len \in Nat
  BY <1>3, Types DEF Places
<1>5. End(q) \in Int /\ End(q) < Border /\ Border \in Int
  BY EndType, Sizes DEF EndInv
<1> QED BY <1>2, <1>4, <1>5 DEF IsFull

----------------------------------------------------------------------------
(* What steps that leave the log alone preserve.                            *)

Inv1 == TypeOK /\ FilesInv /\ LogInv /\ PagesInv /\ EndInv

\* As long as log, base and the set of page files stay, so do the ends of the pages.
LEMMA Shape ==
  ASSUME UNCHANGED <<log, base>>, Files' = Files
  PROVE  /\ \A q : Top(q)' = Top(q) /\ (Newest(q)' <=> Newest(q))
         /\ \A q, n : PlaceAfter(q, n)' = PlaceAfter(q, n)
         /\ \A q : End(q)' = End(q) /\ LastFrame(q)' = LastFrame(q)
<1>1. \A q : Top(q)' = Top(q) /\ (Newest(q)' <=> Newest(q))
  BY DEF Top, Newest
<1>2. \A q, n : PlaceAfter(q, n)' = PlaceAfter(q, n)
  BY DEF PlaceAfter
<1> QED BY <1>1, <1>2 DEF End, LastFrame

\* A step that writes no memory.
LEMMA QuietStep ==
  ASSUME Inv1, UNCHANGED <<mem, log, base>>, Files' = Files
  PROVE  FilesInv' /\ LogInv' /\ PagesInv' /\ EndInv'
<1>1. FilesInv'
  BY Shape DEF Inv1, FilesInv
<1>2. LogInv'
  <2>1. ASSUME NEW i \in 1 .. Len(log), NEW q \in Files, FrameOn(q, i)
        PROVE  FrameOn(q, i)'
    BY <2>1, Shape DEF FrameOn
  <2> QED BY <2>1 DEF Inv1, LogInv
<1>3. PagesInv'
  BY Shape DEF Inv1, PagesInv
<1>4. EndInv'
  BY Shape DEF Inv1, EndInv
<1> QED BY <1>1, <1>2, <1>3, <1>4

\* A step that writes to one page, at its end or behind it.
LEMMA StoreStep ==
  ASSUME Inv1, UNCHANGED <<log, base>>, Files' = Files,
         NEW s \in Files,
         \A k \in Pages, u \in Places : (k # s \/ u < End(s)) => mem'[k][u] = mem[k][u],
         mem'[s][End(s)].len = 0 \/ (mem'[s][End(s)].tag = PageEnd /\ ~ Newest(s))
  PROVE  FilesInv' /\ LogInv' /\ PagesInv' /\ EndInv'
<1>0. /\ \A q \in Files : q \in Pages /\ End(q) \in Int /\ End(q) \in Places
      /\ Files \subseteq Pages /\ First \in Places
  BY EndType, Sizes DEF Inv1, Files
<1>1. FilesInv'
  <2>1. \A q \in Pages \ Files : mem'[q][First] = mem[q][First]
    BY <1>0
  <2> QED BY <2>1, Shape DEF Inv1, FilesInv
<1>2. LogInv'
  <2>1. \A i \in 1 .. Len(log) : mem'[log[i].page][log[i].pos] = mem[log[i].page][log[i].pos]
    BY FramePlace DEF Inv1
  <2>2. ASSUME NEW i \in 1 .. Len(log), NEW q \in Files, log[i].page = q, FrameOn(q, i)
        PROVE  FrameOn(q, i)'
    BY <2>1, <2>2, Shape DEF FrameOn
  <2> QED BY <2>2 DEF Inv1, LogInv
<1>3. PagesInv'
  BY Shape DEF Inv1, PagesInv
<1>4. EndInv'
  <2>1. \A q \in Files \ {s} : mem'[q][End(q)] = mem[q][End(q)]
    BY <1>0
  <2> QED BY <2>1, Shape DEF Inv1, EndInv
<1> QED BY <1>1, <1>2, <1>3, <1>4

\* Neither kind of step moves what last_frame_position is to name.
LEMMA LastStep ==
  ASSUME Inv1, LastInv, UNCHANGED <<log, base, lastpos>>,
         \A k \in Files, u \in Places :
           Newest(k) /\ u < End(k) => mem'[k][u] = mem[k][u],
         \A k \in Files : Newest(k) => mem'[k][End(k)].len = 0,
         pc[Writer] = "published" => pc'[Writer] = "published",
         pc'[Writer] \in {"turned", "ended"} =>
           pc[Writer] \in {"turned", "ended"} /\ cur'[Writer] = cur[Writer]
  PROVE  LastInv'
<1>0. Files' = Files
  BY DEF Files
<1>1. SUFFICES ASSUME NEW q \in Files
               PROVE  /\ Newest(q) => /\ lastpos[q] <= End(q)
                                      /\ lastpos[q] + mem'[q][lastpos[q]].len <= End(q)
                      /\ \/ Newest(q) /\ pc'[Writer] # "published"
                         \/ pc'[Writer] \in {"turned", "ended"} /\ q = cur'[Writer].page - 1
                         => lastpos[q] = LastFrame(q)
  BY <1>0, Shape DEF LastInv, W
<1>2. ASSUME Newest(q)
      PROVE  lastpos[q] <= End(q) /\ lastpos[q] + mem'[q][lastpos[q]].len <= End(q)
  <2>1. lastpos[q] <= End(q) /\ lastpos[q] + mem[q][lastpos[q]].len <= End(q)
    BY <1>2 DEF LastInv
  <2>2. lastpos[q] \in Places /\ lastpos[q] \in Int /\ End(q) \in Int
    BY EndType, Types DEF Inv1, Places
  <2>3. CASE lastpos[q] < End(q)
    BY <2>1, <2>2, <2>3, <1>2
  <2>4. CASE lastpos[q] = End(q)
    BY <2>2, <2>4, <1>2
  <2> QED BY <2>1, <2>2, <2>3, <2>4
<1>3. \/ Newest(q) /\ pc'[Writer] # "published"
      \/ pc'[Writer] \in {"turned", "ended"} /\ q = cur'[Writer].page - 1
      => lastpos[q] = LastFrame(q)
  BY DEF LastInv, W
<1> QED BY <1>2, <1>3

\* What a step of the writer that publishes nothing does to the readers: nothing.
LEMMA CursorsStay ==
  ASSUME Inv1, CursorInv, ReaderInv, UNCHANGED <<log, base, first, got>>, Files' = Files,
         \A r \in Readers : pc'[r] = pc[r] /\ cur'[r] = cur[r] /\ seen'[r] = seen[r],
         pc'[Writer] \notin Seeking
  PROVE  CursorInv' /\ ReaderInv'
<1>1. CursorInv'
  <2>1. SUFFICES ASSUME NEW p \in Readers, pc[p] \in Seeking \/ pc[p] = "ready"
                 PROVE  /\ AtFrame(p)'
                        /\ pc[p] = "seekPage" => seen[p] = base[cur[p].page]
    BY DEF CursorInv, CursorOK, Procs
  <2>2. AtFrame(p) /\ (pc[p] = "seekPage" => seen[p] = base[cur[p].page])
    BY <2>1 DEF CursorInv, CursorOK, Procs
  <2> QED BY <2>2, Shape DEF AtFrame
<1>2. ReaderInv'
  BY DEF ReaderInv, ReaderOK
<1> QED BY <1>1, <1>2

\* Page files only come, and a writer that found none does not look again.
LEMMA ListedStays ==
  ASSUME ListedInv, Files' = Files, listed \subseteq listed',
         pc'[Writer] \in {"none", "made"} => pc[Writer] \in {"none", "made"}
  PROVE  ListedInv'
BY DEF ListedInv

----------------------------------------------------------------------------
(* The steps of the writer that store at the end of the newest page.        *)

\* The writer is a process and no reader.
LEMMA WriterThere == Writer \in Procs /\ Readers \subseteq Procs /\ Writer \notin Readers
BY WriterIsNotAReader DEF Procs

\* A writer at work stands at the end of the newest page, where no data is.
LEMMA AtWork ==
  ASSUME Inv1, WriterInv, pc[Writer] \in Writing \cup {"ready"}
  PROVE  /\ W.page \in Files /\ W.page \in Pages /\ Newest(W.page) /\ W.pos = End(W.page)
         /\ W.pos \in Places /\ W.pos \in Nat /\ W.pos < Border
         /\ mem[W.page][W.pos].len = 0
<1>1. Newest(W.page) /\ W.page \in Files /\ W.pos = End(W.page)
  BY DEF WriterInv, Newest
<1>2. W.page \in Pages /\ W.pos \in Places
  BY Types, WriterThere DEF Inv1, W
<1> QED BY <1>1, <1>2 DEF EndInv, Inv1, Places

\* Such a step, whatever it stores, keeps what is said of the log and its pages.
LEMMA StoreAtWork ==
  ASSUME IInv, pc[Writer] \in Writing \cup {"ready"}, pc'[Writer] \in Writing,
         pc'[Writer] \in {"turned", "ended"} => pc[Writer] \in {"turned", "ended"},
         UNCHANGED <<lastpos, listed, cur, crashes, log, base, seen, first, got>>,
         \A r \in Readers : pc'[r] = pc[r],
         \A k \in Pages, u \in Places : (k # W.page \/ u < W.pos) => mem'[k][u] = mem[k][u],
         mem'[W.page][W.pos].len = 0
  PROVE  FilesInv' /\ LogInv' /\ PagesInv' /\ EndInv' /\ LastInv' /\ CursorInv' /\ ReaderInv'
<1>1. Inv1 /\ Files' = Files
  BY DEF IInv, Inv1, Files
<1>2. /\ W.page \in Files /\ Newest(W.page) /\ W.pos = End(W.page)
      /\ mem'[W.page][End(W.page)].len = 0
  BY <1>1, AtWork DEF IInv
<1>3. FilesInv' /\ LogInv' /\ PagesInv' /\ EndInv'
  BY <1>1, <1>2, StoreStep
<1>4. LastInv'
  <2>1. \A k \in Files : Newest(k) => k = W.page
    BY <1>1, <1>2, NewestIsLast, Types DEF Inv1, Pages
  <2>2. \A k \in Files : k \in Pages
    BY DEF Files
  <2>3. pc[Writer] # "published"
    BY DEF Writing
  <2> QED BY <1>1, <1>2, <2>1, <2>2, <2>3, LastStep DEF IInv
<1>5. CursorInv' /\ ReaderInv'
  BY <1>1, CursorsStay DEF IInv, Writing, Seeking
<1> QED BY <1>3, <1>4, <1>5

\* OpenFrame keeps the invariant.
LEMMA OpenFrameStep ==
  ASSUME IInv, NEW b \in Bodies, NEW d \in DataLens, OpenFrame(b, d)
  PROVE  IInv'
<1>1. Inv1 /\ pc[Writer] = "ready" /\ pc[Writer] \in Writing \cup {"ready"}
  BY DEF IInv, Inv1, OpenFrame
<1>2. /\ W.page \in Pages /\ W.pos \in Places /\ W.pos \in Nat /\ mem[W.page][W.pos].len = 0
      /\ Newest(W.page) /\ W.pos = End(W.page)
  BY <1>1, AtWork DEF IInv
<1>3. /\ mem \in [Pages -> [Places -> Headers]] /\ pc \in [Procs -> PCs] /\ clock \in Nat
      /\ from \in [Procs -> Nat]
  BY DEF IInv, TypeOK
<1>4. /\ pc' = [pc EXCEPT ![Writer] = "opened"] /\ pc'[Writer] = "opened"
      /\ \A r \in Readers : pc'[r] = pc[r]
      /\ UNCHANGED <<lastpos, listed, clock, cur, from, crashes, log, base, seen, first, got>>
      /\ req' = [body |-> b, dlen |-> d, gen |-> 0]
  BY <1>3, WriterThere DEF OpenFrame, Goto
<1>5. mem' = [mem EXCEPT ![W.page] = [mem[W.page] EXCEPT ![W.pos].tag = Data]]
  BY DEF OpenFrame, Store
<1>6. /\ \A k \in Pages, u \in Places : (k # W.page \/ u # W.pos) => mem'[k][u] = mem[k][u]
      /\ mem'[W.page][W.pos] = [mem[W.page][W.pos] EXCEPT !.tag = Data]
  BY <1>2, <1>3, <1>5
<1>7. mem[W.page][W.pos] \in Headers
  BY <1>2, <1>3
<1>8. /\ mem'[W.page][W.pos].len = 0 /\ mem'[W.page][W.pos].tag = Data
      /\ mem'[W.page][W.pos].gen = mem[W.page][W.pos].gen
  BY <1>2, <1>6, <1>7 DEF Headers
<1>9. TypeOK'
  <2>1. mem' \in [Pages -> [Places -> Headers]]
    BY <1>2, <1>3, <1>5, <1>7 DEF Headers, Data, PageEnd
  <2>2. pc' \in [Procs -> PCs]
    BY <1>3, <1>4 DEF PCs
  <2>3. req' \in [body : Bodies \cup {NoBody}, dlen : DataLens \cup {0}, gen : Nat]
    BY <1>4
  <2> QED BY <1>4, <2>1, <2>2, <2>3 DEF TypeOK, IInv
<1>10. FilesInv' /\ LogInv' /\ PagesInv' /\ EndInv' /\ LastInv' /\ CursorInv' /\ ReaderInv'
  <2>1. pc'[Writer] \in Writing /\ pc'[Writer] \notin {"turned", "ended"}
    BY <1>4 DEF Writing
  <2>2. \A u \in Places : u < W.pos => u # W.pos
    BY <1>2 DEF Places
  <2> QED BY <1>1, <1>4, <1>6, <1>8, <2>1, <2>2, StoreAtWork
<1>11. WriterInv'
  <2>1. Files' = Files /\ W' = W /\ seen[Writer] = Len(log)
    BY <1>1, <1>4 DEF Files, W, IInv, WriterInv
  <2>2. Newest(W.page)' /\ End(W.page)' = End(W.page)
    BY <1>2, <1>4, <2>1, Shape
  <2>3. W.pos + HeaderLen + d < Border
    BY DEF OpenFrame, Fits
  <2> QED BY <1>2, <1>4, <1>8, <2>1, <2>2, <2>3 DEF WriterInv, Writing, Seeking, Behind
<1>12. GenInv'
  <2>1. \A q \in Pages, u \in Places : mem'[q][u].gen = mem[q][u].gen
    BY <1>6, <1>8
  <2> QED BY <1>3, <1>4, <2>1, WriterThere DEF GenInv, IInv, Coming, Seeking
<1>13. ListedInv'
  BY <1>1, <1>4, ListedStays DEF IInv, Files
<1> QED BY <1>9, <1>10, <1>11, <1>12, <1>13 DEF IInv

\* The frame being written has its place before the border of the page.
LEMMA InFrame ==
  ASSUME IInv, pc[Writer] \in Writing
  PROVE  /\ Inv1 /\ pc[Writer] \in Writing \cup {"ready"}
         /\ W.page \in Files /\ W.page \in Pages /\ Newest(W.page) /\ W.pos = End(W.page)
         /\ W.pos \in Places /\ W.pos \in Nat /\ mem[W.page][W.pos].len = 0
         /\ req.body \in Bodies /\ req.dlen \in DataLens /\ req.dlen \in Nat /\ req.gen \in Nat
         /\ Behind \in Places /\ Behind \in Nat /\ W.pos < Behind /\ Behind < Border
         /\ mem \in [Pages -> [Places -> Headers]] /\ pc \in [Procs -> PCs] /\ clock \in Nat
         /\ from \in [Procs -> Nat] /\ seen[Writer] = Len(log)
<1>1. Inv1 /\ pc[Writer] \in Writing \cup {"ready"}
  BY DEF IInv, Inv1
<1>2. /\ W.page \in Files /\ W.page \in Pages /\ Newest(W.page) /\ W.pos = End(W.page)
      /\ W.pos \in Places /\ W.pos \in Nat /\ mem[W.page][W.pos].len = 0
  BY <1>1, AtWork DEF IInv
<1>3. /\ req.body \in Bodies /\ req.dlen \in DataLens /\ Behind < Border
      /\ seen[Writer] = Len(log)
  BY DEF IInv, WriterInv
<1>4. req.dlen \in Nat
  BY <1>3, Sizes
<1>5. /\ mem \in [Pages -> [Places -> Headers]] /\ pc \in [Procs -> PCs] /\ clock \in Nat
      /\ from \in [Procs -> Nat]
      /\ req \in [body : Bodies \cup {NoBody}, dlen : DataLens \cup {0}, gen : Nat]
  BY DEF IInv, TypeOK
<1>6. Behind \in Nat /\ W.pos < Behind
  BY <1>2, <1>4, Sizes DEF Behind
<1>7. Behind \in Places
  BY <1>2, <1>3, <1>6, Sizes DEF Places
<1> QED BY <1>1, <1>2, <1>3, <1>4, <1>5, <1>6, <1>7

\* A step of the writer that only stores, within the frame being written or
\* behind it, and moves it to another place of its code.
LEMMA WithinFrame ==
  ASSUME IInv, NEW at \in {"opened", "filled", "zeroed", "stamped"},
         pc[Writer] \in Writing, Goto(Writer, at),
         UNCHANGED <<lastpos, listed, clock, cur, from, crashes, log, base, seen, first, got>>,
         req'.body = req.body /\ req'.dlen = req.dlen /\ req'.gen \in Nat /\ req'.gen <= clock,
         req' \in [body : Bodies \cup {NoBody}, dlen : DataLens \cup {0}, gen : Nat],
         mem' \in [Pages -> [Places -> Headers]],
         \A k \in Pages, u \in Places : (k # W.page \/ u < W.pos) => mem'[k][u] = mem[k][u],
         mem'[W.page][W.pos].len = 0 /\ mem'[W.page][W.pos].tag = Data,
         \A u \in Places : mem'[W.page][u].gen <= clock,
         at \in {"filled", "zeroed", "stamped"} => mem'[W.page][W.pos].body = req.body,
         at \in {"zeroed", "stamped"} => mem'[W.page][Behind].len = 0,
         at = "stamped" => mem'[W.page][W.pos].gen = req'.gen
  PROVE  IInv'
<1>1. /\ pc' = [pc EXCEPT ![Writer] = at] /\ pc'[Writer] = at
      /\ \A r \in Readers : pc'[r] = pc[r]
  BY InFrame, WriterThere DEF Goto
<1>2. pc'[Writer] \in Writing /\ pc'[Writer] \notin {"turned", "ended"}
  BY <1>1 DEF Writing
<1>3. TypeOK'
  <2>1. pc' \in [Procs -> PCs]
    BY <1>1, InFrame DEF PCs
  <2> QED BY <2>1 DEF TypeOK, IInv
<1>4. FilesInv' /\ LogInv' /\ PagesInv' /\ EndInv' /\ LastInv' /\ CursorInv' /\ ReaderInv'
  BY <1>1, <1>2, InFrame, StoreAtWork
<1>5. WriterInv'
  <2>1. Files' = Files /\ W' = W /\ Behind' = Behind
    BY DEF Files, W, Behind
  <2>2. Newest(W.page)' /\ End(W.page)' = End(W.page)
    BY <2>1, InFrame, Shape
  <2> QED BY <1>1, <2>1, <2>2, InFrame DEF WriterInv, Writing, Seeking
<1>6. GenInv'
  <2>1. \A q \in Pages, u \in Places : mem'[q][u].gen <= clock
    BY DEF IInv, GenInv
  <2> QED BY <1>1, <2>1 DEF GenInv, IInv, Coming, Seeking
<1>7. ListedInv'
  BY <1>1, ListedStays DEF IInv, Files
<1> QED BY <1>3, <1>4, <1>5, <1>6, <1>7 DEF IInv

\* StampFrame keeps the invariant.
LEMMA StampFrameStep ==
  ASSUME IInv, StampFrame
  PROVE  IInv'
<1>1. /\ pc[Writer] \in Writing /\ pc[Writer] = "zeroed"
      /\ mem[W.page][W.pos].tag = Data /\ mem[W.page][W.pos].body = req.body
      /\ mem[W.page][Behind].len = 0
  BY DEF StampFrame, Writing, IInv, WriterInv
<1>2. /\ mem' = [mem EXCEPT ![W.page] = [mem[W.page] EXCEPT ![W.pos].gen = req.gen]]
      /\ req' = req /\ Goto(Writer, "stamped")
      /\ UNCHANGED <<lastpos, listed, clock, cur, from, crashes, log, base, seen, first, got>>
  BY DEF StampFrame, Store
<1>3. /\ \A k \in Pages, u \in Places : (k # W.page \/ u # W.pos) => mem'[k][u] = mem[k][u]
      /\ mem'[W.page][W.pos] = [mem[W.page][W.pos] EXCEPT !.gen = req.gen]
      /\ mem[W.page][W.pos] \in Headers
  BY <1>1, <1>2, InFrame
<1>4. /\ mem'[W.page][W.pos].len = 0 /\ mem'[W.page][W.pos].tag = Data
      /\ mem'[W.page][W.pos].body = req.body /\ mem'[W.page][W.pos].gen = req.gen
      /\ [mem[W.page][W.pos] EXCEPT !.gen = req.gen] \in Headers
  BY <1>1, <1>3, InFrame DEF Headers
<1>5. mem' \in [Pages -> [Places -> Headers]]
  BY <1>1, <1>2, <1>4, InFrame
<1>6. \A u \in Places : u < W.pos => u # W.pos
  BY <1>1, InFrame DEF Places
<1>7. mem'[W.page][Behind].len = 0
  BY <1>1, <1>3, InFrame
<1>8. req.gen \in Nat /\ req.gen <= clock
  BY <1>1, InFrame DEF IInv, GenInv
<1>9. \A u \in Places : mem'[W.page][u].gen <= clock
  BY <1>1, <1>3, <1>4, <1>8, InFrame DEF IInv, GenInv
<1>10. req' \in [body : Bodies \cup {NoBody}, dlen : DataLens \cup {0}, gen : Nat]
  BY <1>2 DEF IInv, TypeOK
<1> QED BY <1>1, <1>2, <1>3, <1>4, <1>5, <1>6, <1>7, <1>8, <1>9, <1>10, WithinFrame

\* ZeroNext keeps the invariant.
LEMMA ZeroNextStep ==
  ASSUME IInv, ZeroNext
  PROVE  IInv'
<1>1. /\ pc[Writer] \in Writing /\ pc[Writer] = "filled"
      /\ mem[W.page][W.pos].tag = Data /\ mem[W.page][W.pos].body = req.body
  BY DEF ZeroNext, Writing, IInv, WriterInv
<1>2. /\ mem' = [mem EXCEPT ![W.page] = [u \in Places |->
           IF Behind <= u /\ u < Behind + HeaderLen THEN Zeroed ELSE mem[W.page][u]]]
      /\ req' = [req EXCEPT !.gen = clock] /\ Goto(Writer, "zeroed")
      /\ UNCHANGED <<lastpos, listed, clock, cur, from, crashes, log, base, seen, first, got>>
  BY DEF ZeroNext, Store
<1>3. /\ \A k \in Pages, u \in Places : (k # W.page \/ u < Behind) => mem'[k][u] = mem[k][u]
      /\ \A u \in Places : mem'[W.page][u] \in {Zeroed, mem[W.page][u]}
      /\ mem'[W.page][Behind] = Zeroed
  <2>1. \A k \in Pages : k # W.page => mem'[k] = mem[k]
    BY <1>1, <1>2, InFrame
  <2>2. mem'[W.page] = [u \in Places |->
           IF Behind <= u /\ u < Behind + HeaderLen THEN Zeroed ELSE mem[W.page][u]]
    BY <1>1, <1>2, InFrame
  <2>3. \A u \in Places : u < Behind => ~ (Behind <= u)
    BY <1>1, InFrame DEF Places
  <2>4. Behind \in Places /\ Behind <= Behind /\ Behind < Behind + HeaderLen
    BY <1>1, InFrame, Sizes
  <2> QED BY <2>1, <2>2, <2>3, <2>4
<1>4. \A u \in Places : u <= W.pos => u < Behind
  BY <1>1, InFrame DEF Places
<1>5. mem'[W.page][W.pos] = mem[W.page][W.pos]
  BY <1>1, <1>3, <1>4, InFrame
<1>6. Zeroed \in Headers /\ Zeroed.gen = 0 /\ Zeroed.len = 0
  BY DEF Zeroed, Headers, PageEnd
<1>7. mem' \in [Pages -> [Places -> Headers]]
  BY <1>1, <1>2, <1>6, InFrame
<1>8. \A u \in Places : mem'[W.page][u].gen <= clock
  <2>1. \A u \in Places : mem[W.page][u].gen <= clock
    BY <1>1, InFrame DEF IInv, GenInv
  <2>2. Zeroed.gen <= clock
    BY <1>1, <1>6, InFrame
  <2> QED BY <1>3, <2>1, <2>2
<1>9. req \in [body : Bodies \cup {NoBody}, dlen : DataLens \cup {0}, gen : Nat]
  BY DEF IInv, TypeOK
<1>10. /\ req'.body = req.body /\ req'.dlen = req.dlen /\ req'.gen = clock
       /\ req' \in [body : Bodies \cup {NoBody}, dlen : DataLens \cup {0}, gen : Nat]
       /\ clock \in Nat /\ clock <= clock
  <2>1. clock \in Nat
    BY <1>1, InFrame
  <2> QED BY <1>2, <1>9, <2>1
<1>11. \A k \in Pages, u \in Places : (k # W.page \/ u < W.pos) => mem'[k][u] = mem[k][u]
  BY <1>1, <1>3, <1>4, InFrame DEF Places
<1>12. mem'[W.page][W.pos].len = 0 /\ mem'[W.page][Behind].len = 0
  BY <1>1, <1>3, <1>5, <1>6, InFrame
<1> QED BY <1>1, <1>2, <1>5, <1>7, <1>8, <1>10, <1>11, <1>12, WithinFrame

\* WriteData keeps the invariant.
LEMMA WriteDataStep ==
  ASSUME IInv, WriteData
  PROVE  IInv'
<1>1. pc[Writer] \in Writing /\ pc[Writer] = "opened" /\ mem[W.page][W.pos].tag = Data
  BY DEF WriteData, Writing, IInv, WriterInv
<1>2. /\ mem' = [mem EXCEPT ![W.page] = [u \in Places |->
           IF u = W.pos THEN [mem[W.page][u] EXCEPT !.body = req.body]
           ELSE IF W.pos + HeaderLen <= u /\ u < Behind THEN Junk
           ELSE mem[W.page][u]]]
      /\ req' = req /\ Goto(Writer, "filled")
      /\ UNCHANGED <<lastpos, listed, clock, cur, from, crashes, log, base, seen, first, got>>
  BY DEF WriteData, Store
<1>3. /\ \A k \in Pages, u \in Places : (k # W.page \/ u < W.pos) => mem'[k][u] = mem[k][u]
      /\ \A u \in Places : u # W.pos => mem'[W.page][u] \in {Junk, mem[W.page][u]}
      /\ mem'[W.page][W.pos] = [mem[W.page][W.pos] EXCEPT !.body = req.body]
  <2>1. \A k \in Pages : k # W.page => mem'[k] = mem[k]
    BY <1>1, <1>2, InFrame
  <2>2. mem'[W.page] = [u \in Places |->
           IF u = W.pos THEN [mem[W.page][u] EXCEPT !.body = req.body]
           ELSE IF W.pos + HeaderLen <= u /\ u < Behind THEN Junk
           ELSE mem[W.page][u]]
    BY <1>1, <1>2, InFrame
  <2>3. \A u \in Places : u < W.pos => u # W.pos /\ ~ (W.pos + HeaderLen <= u)
    BY <1>1, InFrame, Sizes DEF Places
  <2>4. W.pos \in Places
    BY <1>1, InFrame
  <2> QED BY <2>1, <2>2, <2>3, <2>4
<1>4. mem[W.page][W.pos] \in Headers
  BY <1>1, InFrame
<1>5. /\ mem'[W.page][W.pos].len = 0 /\ mem'[W.page][W.pos].tag = Data
      /\ mem'[W.page][W.pos].body = req.body
      /\ mem'[W.page][W.pos].gen = mem[W.page][W.pos].gen
      /\ [mem[W.page][W.pos] EXCEPT !.body = req.body] \in Headers
  BY <1>1, <1>3, <1>4, InFrame DEF Headers
<1>6. Junk \in Headers /\ Junk.gen = 0
  BY Sizes DEF Junk, Headers, Data
<1>7. mem' \in [Pages -> [Places -> Headers]]
  BY <1>1, <1>2, <1>5, <1>6, InFrame
<1>8. \A u \in Places : mem'[W.page][u].gen <= clock
  <2>1. \A u \in Places : mem[W.page][u].gen <= clock
    BY <1>1, InFrame DEF IInv, GenInv
  <2>2. Junk.gen <= clock /\ W.pos \in Places
    BY <1>1, <1>6, InFrame
  <2> QED BY <1>3, <1>5, <2>1, <2>2
<1>9. /\ req \in [body : Bodies \cup {NoBody}, dlen : DataLens \cup {0}, gen : Nat]
      /\ req.gen \in Nat /\ req.gen <= clock
  BY <1>1, InFrame DEF IInv, TypeOK, GenInv
<1> QED BY <1>1, <1>2, <1>3, <1>5, <1>7, <1>8, <1>9, WithinFrame

----------------------------------------------------------------------------
(* The steps of the writer that turn the page.                              *)

\* close_page finds the end of the page it closes.
LEMMA PageBehind ==
  ASSUME IInv, pc[Writer] \in {"turned", "ended"}
  PROVE  /\ W.page - 1 \in Files /\ W.page - 1 \in Pages /\ ~ Newest(W.page - 1)
         /\ W.page - 1 # W.page
         /\ EndPlace(W.page - 1) = End(W.page - 1) /\ End(W.page - 1) \in Places
<1>1. Inv1 /\ pc[Writer] \in Writing
  BY DEF IInv, Inv1, Writing
<1>2. W.page > 1 /\ base[W.page] = Len(log) /\ base[W.page - 1] < Len(log)
  BY DEF IInv, WriterInv
<1>3. W.page \in Files /\ W.page \in Pages /\ W.page \in Nat
  BY <1>1, InFrame, Sizes
<1>4. /\ W.page - 1 \in Pages /\ W.page - 1 < W.page /\ (W.page - 1) + 1 = W.page
      /\ W.page - 1 # W.page
  BY <1>2, <1>3, Sizes DEF Pages
<1>5. W.page - 1 \in Files
  BY <1>1, <1>3, <1>4 DEF Inv1, FilesInv
<1> DEFINE q == W.page - 1
           n == Len(log)
<1>6. ~ Newest(q) /\ Top(q) = n /\ base[q] # Top(q) /\ End(q) \in Places
  BY <1>1, <1>2, <1>3, <1>4, <1>5, EndType, Types DEF Newest, Top, Inv1
<1>7. n \in 1 .. Len(log) /\ n \in base[q] + 1 .. Top(q)
  BY <1>1, <1>2, <1>4, <1>6, Types DEF Inv1
<1>8. log[n].page = q
  BY <1>1, <1>5, <1>7 DEF Inv1, PagesInv
<1>9. mem[q][log[n].pos].len = log[n].len
  <2>1. mem[log[n].page][log[n].pos] =
          [len |-> log[n].len, tag |-> Data, gen |-> log[n].gen, body |-> log[n].body]
    BY <1>1, <1>7, FramePlace DEF Inv1
  <2> QED BY <1>8, <2>1
<1>10. lastpos[q] = log[n].pos
  BY <1>5, <1>6 DEF IInv, LastInv, LastFrame
<1>11. End(q) = log[n].pos + log[n].len
  BY <1>6 DEF End, PlaceAfter
<1> QED BY <1>4, <1>5, <1>6, <1>9, <1>10, <1>11 DEF EndPlace

\* WritePageEnd keeps the invariant.
LEMMA WritePageEndStep ==
  ASSUME IInv, WritePageEnd
  PROVE  IInv'
<1> DEFINE q == W.page - 1
           h == mem[q][End(q)]
           h2 == [h EXCEPT !.len = HeaderLen, !.tag = PageEnd, !.gen = clock]
<1>1. pc[Writer] \in Writing /\ pc[Writer] = "turned" /\ pc[Writer] \in {"turned", "ended"}
  BY DEF WritePageEnd, Writing
<1>2. /\ q \in Files /\ q \in Pages /\ ~ Newest(q) /\ q # W.page
      /\ EndPlace(q) = End(q) /\ End(q) \in Places
  BY <1>1, PageBehind
<1>3. /\ mem' = [mem EXCEPT ![q] = [mem[q] EXCEPT ![End(q)] = h2]]
      /\ pc' = [pc EXCEPT ![Writer] = "ended"]
      /\ UNCHANGED <<lastpos, listed, clock, cur, from, req, crashes, log, base, seen, first, got>>
  BY <1>2 DEF WritePageEnd, Store, Goto
<1>4. /\ pc'[Writer] = "ended" /\ pc' \in [Procs -> PCs]
      /\ \A r \in Readers : pc'[r] = pc[r]
  BY <1>1, <1>3, InFrame, WriterThere DEF PCs
<1>5. h \in Headers /\ clock \in Nat
  BY <1>1, <1>2, InFrame
<1>6. /\ h2 \in Headers /\ h2.len = HeaderLen /\ h2.tag = PageEnd /\ h2.gen = clock
  BY <1>5, Sizes DEF Headers
<1>7. /\ \A k \in Pages, u \in Places : (k # q \/ u # End(q)) => mem'[k][u] = mem[k][u]
      /\ mem'[q][End(q)] = h2
      /\ mem' \in [Pages -> [Places -> Headers]]
  BY <1>1, <1>2, <1>3, <1>6, InFrame
<1>8. TypeOK'
  BY <1>3, <1>4, <1>7 DEF TypeOK, IInv
<1>9. Inv1 /\ Files' = Files
  BY <1>1, <1>3, InFrame DEF Files
<1>10. FilesInv' /\ LogInv' /\ PagesInv' /\ EndInv'
  <2>1. \A k \in Pages, u \in Places : (k # q \/ u < End(q)) => mem'[k][u] = mem[k][u]
    BY <1>2, <1>7 DEF Places
  <2>2. mem'[q][End(q)].tag = PageEnd /\ ~ Newest(q)
    BY <1>2, <1>6, <1>7
  <2> QED BY <1>2, <1>3, <1>9, <2>1, <2>2, StoreStep
<1>11. LastInv'
  <2>1. \A k \in Files : Newest(k) => k # q /\ k \in Pages /\ End(k) \in Places
    BY <1>2, <1>9, EndType DEF Files, Inv1
  <2>2. \A k \in Files, u \in Places : Newest(k) => mem'[k][u] = mem[k][u]
    BY <2>1, <1>7
  <2>3. \A k \in Files : Newest(k) => mem'[k][End(k)].len = 0
    BY <2>1, <2>2, <1>9 DEF Inv1, EndInv
  <2>4. pc[Writer] # "published"
    BY <1>1
  <2> QED BY <1>1, <1>3, <1>9, <2>2, <2>3, <2>4, LastStep DEF IInv
<1>12. CursorInv' /\ ReaderInv'
  BY <1>3, <1>4, <1>9, CursorsStay DEF IInv, Seeking
<1>13. WriterInv'
  <2>1. Files' = Files /\ W' = W /\ Behind' = Behind
    BY <1>3, <1>9 DEF W, Behind
  <2>2. Newest(W.page)' /\ End(W.page)' = End(W.page)
    BY <1>1, <1>3, <2>1, InFrame, Shape
  <2>3. /\ W.page > 1 /\ W.pos = First
        /\ base[W.page] = Len(log) /\ base[W.page - 1] < Len(log)
    BY <1>1 DEF IInv, WriterInv
  <2> QED BY <1>1, <1>3, <1>4, <2>1, <2>2, <2>3, InFrame DEF WriterInv, Writing, Seeking
<1>14. GenInv'
  <2>1. \A k \in Pages, u \in Places : mem'[k][u].gen <= clock
    <3>1. \A k \in Pages, u \in Places : mem[k][u].gen <= clock
      BY DEF IInv, GenInv
    <3>2. h2.gen <= clock
      BY <1>5, <1>6
    <3> QED BY <1>7, <3>1, <3>2
  <2> QED BY <1>3, <1>4, <2>1 DEF GenInv, IInv, Coming, Seeking
<1>15. ListedInv'
  BY <1>3, ListedStays DEF IInv, Files, Writing
<1> QED BY <1>8, <1>10, <1>11, <1>12, <1>13, <1>14, <1>15 DEF IInv

\* OpenInNewPage keeps the invariant.
LEMMA OpenInNewPageStep ==
  ASSUME IInv, OpenInNewPage
  PROVE  IInv'
<1> DEFINE q == W.page - 1
<1>1. pc[Writer] \in Writing /\ pc[Writer] = "ended" /\ pc[Writer] \in {"turned", "ended"}
  BY DEF OpenInNewPage, Writing
<1>2. /\ q \in Files /\ q \in Pages /\ ~ Newest(q) /\ q # W.page
      /\ EndPlace(q) = End(q) /\ End(q) \in Places
  BY <1>1, PageBehind
<1>3. /\ mem' = [mem EXCEPT ![W.page] = [mem[W.page] EXCEPT ![W.pos].tag = Data]]
      /\ lastpos' = [lastpos EXCEPT ![q] = End(q)]
      /\ pc' = [pc EXCEPT ![Writer] = "opened"]
      /\ UNCHANGED <<listed, clock, cur, from, req, crashes, log, base, seen, first, got>>
  BY <1>2 DEF OpenInNewPage, Store, Goto
<1>4. /\ pc'[Writer] = "opened" /\ pc' \in [Procs -> PCs]
      /\ \A r \in Readers : pc'[r] = pc[r]
  BY <1>1, <1>3, InFrame, WriterThere DEF PCs
<1>5. /\ \A k \in Pages, u \in Places : (k # W.page \/ u # W.pos) => mem'[k][u] = mem[k][u]
      /\ mem'[W.page][W.pos] = [mem[W.page][W.pos] EXCEPT !.tag = Data]
      /\ mem[W.page][W.pos] \in Headers
  BY <1>1, <1>3, InFrame
<1>6. /\ mem'[W.page][W.pos].len = 0 /\ mem'[W.page][W.pos].tag = Data
      /\ mem'[W.page][W.pos].gen = mem[W.page][W.pos].gen
      /\ [mem[W.page][W.pos] EXCEPT !.tag = Data] \in Headers
  BY <1>1, <1>5, InFrame DEF Headers, Data, PageEnd
<1>7. mem' \in [Pages -> [Places -> Headers]]
  BY <1>1, <1>3, <1>6, InFrame
<1>8. /\ lastpos \in [Pages -> 0 .. PageSize] /\ lastpos' \in [Pages -> 0 .. PageSize]
      /\ End(q) # 0
  BY <1>2, <1>3 DEF Places, IInv, TypeOK
<1>9. TypeOK'
  BY <1>3, <1>4, <1>7, <1>8 DEF TypeOK, IInv
<1>10. Inv1 /\ Files' = Files
  <2>1. \A k \in Pages : lastpos'[k] # 0 <=> lastpos[k] # 0
    BY <1>2, <1>3, <1>8 DEF Files
  <2> QED BY <1>1, <2>1, InFrame DEF Files
<1>11. FilesInv' /\ LogInv' /\ PagesInv' /\ EndInv'
  <2>1. \A k \in Pages, u \in Places : (k # W.page \/ u < End(W.page)) => mem'[k][u] = mem[k][u]
    BY <1>1, <1>5, InFrame DEF Places
  <2>2. mem'[W.page][End(W.page)].len = 0 /\ W.page \in Files
    BY <1>1, <1>6, InFrame
  <2> QED BY <1>3, <1>10, <2>1, <2>2, StoreStep
<1>12. LastInv'
  <2>1. SUFFICES ASSUME NEW k \in Files, Newest(k)
                 PROVE  /\ lastpos'[k] <= End(k)
                        /\ lastpos'[k] + mem'[k][lastpos'[k]].len <= End(k)
                        /\ lastpos'[k] = LastFrame(k)
    BY <1>3, <1>4, <1>10, Shape DEF LastInv
  <2>2. k = W.page /\ k \in Pages /\ k # q
    <3>1. k <= W.page /\ W.page <= k /\ W.page \in Pages /\ k \in Pages
      BY <1>1, <1>10, <2>1, InFrame, NewestIsLast DEF Inv1, Files
    <3> QED BY <1>2, <3>1 DEF Pages
  <2>3. lastpos'[k] = lastpos[k]
    BY <1>3, <1>8, <2>2
  <2>4. /\ lastpos[k] <= End(k) /\ lastpos[k] + mem[k][lastpos[k]].len <= End(k)
        /\ lastpos[k] = LastFrame(k) /\ lastpos[k] \in Places
    BY <1>1, <1>10, <2>1, Types DEF IInv, LastInv, Inv1
  <2>5. mem'[k][lastpos[k]].len = mem[k][lastpos[k]].len
    BY <1>1, <1>5, <1>6, <2>2, <2>4, InFrame
  <2> QED BY <2>3, <2>4, <2>5
<1>13. CursorInv' /\ ReaderInv'
  BY <1>3, <1>4, <1>10, CursorsStay DEF IInv, Seeking
<1>14. WriterInv'
  <2>1. Files' = Files /\ W' = W /\ Behind' = Behind
    BY <1>3, <1>10 DEF W, Behind
  <2>2. Newest(W.page)' /\ End(W.page)' = End(W.page)
    BY <1>1, <1>3, <2>1, InFrame, Shape
  <2> QED BY <1>1, <1>3, <1>4, <1>6, <2>1, <2>2, InFrame DEF WriterInv, Writing, Seeking
<1>15. GenInv'
  <2>1. \A k \in Pages, u \in Places : mem'[k][u].gen = mem[k][u].gen
    BY <1>5, <1>6
  <2> QED BY <1>3, <1>4, <2>1 DEF GenInv, IInv, Coming, Seeking
<1>16. ListedInv'
  BY <1>3, <1>4, <1>10, ListedStays DEF IInv
<1> QED BY <1>9, <1>11, <1>12, <1>13, <1>14, <1>15, <1>16 DEF IInv

\* MakePage keeps the invariant: the page in use holds a frame, or the new one
\* would fit it.
LEMMA MakePageStep ==
  ASSUME IInv, NEW b \in Bodies, NEW d \in DataLens, MakePage(b, d)
  PROVE  IInv'
<1>1. /\ Inv1 /\ pc[Writer] = "ready" /\ pc[Writer] \in Writing \cup {"ready"}
      /\ W.page < MaxPages /\ ~ Fits(d) /\ pc \in [Procs -> PCs]
      /\ listed \in SUBSET Pages
  BY DEF IInv, Inv1, MakePage, TypeOK
<1>2. /\ W.page \in Files /\ W.page \in Pages /\ Newest(W.page) /\ W.pos = End(W.page)
      /\ seen[Writer] = Len(log)
  BY <1>1, AtWork DEF IInv, WriterInv
<1>3. /\ pc' = [pc EXCEPT ![Writer] = "making"] /\ pc'[Writer] = "making"
      /\ \A r \in Readers : pc'[r] = pc[r]
      /\ req' = [body |-> b, dlen |-> d, gen |-> 0]
      /\ listed' = listed \cup {W.page + 1}
      /\ UNCHANGED <<mem, lastpos, clock, cur, from, crashes, log, base, seen, first, got>>
  BY <1>1, WriterThere DEF MakePage, Goto
<1>4. Files' = Files /\ W' = W
  BY <1>3 DEF Files, W
<1>5. base[W.page] < Len(log)
  <2>1. /\ Top(W.page) = Len(log) /\ base[W.page] \in Nat /\ Len(log) \in Nat
        /\ base[W.page] <= Len(log)
    BY <1>1, <1>2, Types DEF Newest, Top, Inv1, FilesInv
  <2>2. base[W.page] # Len(log)
    <3>1. SUFFICES ASSUME base[W.page] = Len(log) PROVE FALSE
      OBVIOUS
    <3>2. W.pos = First
      BY <1>2, <2>1, <3>1 DEF End, PlaceAfter
    <3> QED BY <1>1, <3>2, Sizes DEF Fits
  <2> QED BY <2>1, <2>2
<1>6. TypeOK'
  <2>1. W.page + 1 \in Pages
    BY <1>1, <1>2, Sizes DEF Pages
  <2>2. pc' \in [Procs -> PCs]
    BY <1>1, <1>3 DEF PCs
  <2>3. req' \in [body : Bodies \cup {NoBody}, dlen : DataLens \cup {0}, gen : Nat]
    BY <1>3
  <2> QED BY <1>1, <1>3, <2>1, <2>2, <2>3 DEF IInv, TypeOK
<1>7. FilesInv' /\ LogInv' /\ PagesInv' /\ EndInv'
  BY <1>1, <1>3, <1>4, QuietStep
<1>8. LastInv'
  <2>1. \A k \in Files : Newest(k) => mem'[k][End(k)].len = 0
    BY <1>1, <1>3 DEF Inv1, EndInv
  <2> QED BY <1>1, <1>3, <2>1, LastStep DEF IInv
<1>9. CursorInv' /\ ReaderInv'
  BY <1>1, <1>3, <1>4, CursorsStay DEF IInv, Seeking
<1>10. WriterInv'
  <2>1. Newest(W.page)' /\ End(W.page)' = End(W.page)
    BY <1>2, <1>3, <1>4, Shape
  <2> QED BY <1>1, <1>2, <1>3, <1>4, <1>5, <2>1 DEF WriterInv, Writing, Seeking
<1>11. GenInv'
  <2>1. clock \in Nat
    BY DEF IInv, TypeOK
  <2> QED BY <1>3, <2>1 DEF IInv, GenInv, Coming, Seeking
<1>12. ListedInv'
  BY <1>3, <1>4, ListedStays DEF IInv
<1> QED BY <1>6, <1>7, <1>8, <1>9, <1>10, <1>11, <1>12 DEF IInv

\* TurnPage keeps the invariant.
LEMMA TurnPageStep ==
  ASSUME IInv, TurnPage
  PROVE  IInv'
<1> SUFFICES ASSUME NEW p, NEW new, p = W.page, new = W.page + 1
             PROVE  IInv'
  OBVIOUS
<1>1. /\ Inv1 /\ pc[Writer] = "making" /\ p < MaxPages /\ Newest(p)
      /\ req.body \in Bodies /\ req.dlen \in DataLens /\ base[p] < Len(log)
  BY DEF IInv, Inv1, TurnPage, WriterInv
<1>2. p \in Files /\ p \in Pages /\ p \in Nat /\ Newest(p)
  BY <1>1, Sizes DEF Newest, Files
<1>3. /\ new \in Pages /\ new \notin Files /\ new # 1 /\ new - 1 = p /\ new > 1
  BY <1>1, <1>2, Sizes DEF Pages, Newest
<1>4. /\ mem \in [Pages -> [Places -> Headers]] /\ pc \in [Procs -> PCs] /\ clock \in Nat
      /\ from \in [Procs -> Nat] /\ base \in [Pages -> Nat] /\ lastpos \in [Pages -> 0 .. PageSize]
      /\ seen \in [Procs -> Nat] /\ Len(log) \in Nat
      /\ cur \in [Procs -> [page : Pages, pos : First .. Border - 1]]
  BY Types DEF IInv, TypeOK
<1>5. lastpos[new] = 0
  BY <1>3, <1>4 DEF Files
<1>6. /\ base' = [base EXCEPT ![new] = Len(log)]
      /\ lastpos' = [lastpos EXCEPT ![new] = First]
      /\ cur' = [cur EXCEPT ![Writer] = [page |-> new, pos |-> First]]
      /\ seen' = [seen EXCEPT ![Writer] = Len(log)]
      /\ pc' = [pc EXCEPT ![Writer] = "turned"]
      /\ UNCHANGED <<mem, listed, clock, from, req, crashes, log, first, got>>
  BY <1>5 DEF TurnPage, Goto
<1>7. /\ pc'[Writer] = "turned" /\ W' = [page |-> new, pos |-> First]
      /\ seen'[Writer] = Len(log)
      /\ \A r \in Readers : pc'[r] = pc[r] /\ cur'[r] = cur[r] /\ seen'[r] = seen[r]
  BY <1>4, <1>6, WriterThere DEF W
<1>8. /\ lastpos'[new] = First /\ base'[new] = Len(log)
      /\ \A q \in Pages : q # new => lastpos'[q] = lastpos[q] /\ base'[q] = base[q]
  BY <1>3, <1>4, <1>6
<1>9. Files' = Files \cup {new}
  <2>1. \A q \in Pages : q \in Files' <=> lastpos'[q] # 0
    BY DEF Files
  <2>2. \A q \in Pages : q \in Files' <=> q \in Files \/ q = new
    BY <2>1, <1>8 DEF Files, First
  <2>3. Files' \subseteq Pages /\ Files \subseteq Pages
    BY DEF Files
  <2> QED BY <2>2, <2>3, <1>3
<1>10. /\ \A q \in Files : q \in Pages /\ q \in Nat /\ q # new /\ q <= p
       /\ \A q \in Pages : q < new => q \in Files
  <2>1. \A q \in Files : q \in Pages /\ q <= p
    BY <1>1, <1>2, NewestIsLast DEF Inv1, Files
  <2>2. \A q \in Pages : q < p => q \in Files
    BY <1>1, <1>2 DEF Inv1, FilesInv
  <2>3. \A q \in Pages : q < new => q < p \/ q = p
    BY <1>2 DEF Pages
  <2> QED BY <1>2, <1>3, <2>1, <2>2, <2>3, Sizes
<1>11. \A q \in Files : Top(q)' = Top(q) /\ ~ Newest(q)' /\ base'[q] = base[q]
  <2>1. SUFFICES ASSUME NEW q \in Files
                 PROVE  q + 1 \in Files' /\ base'[q + 1] = Top(q)
    BY <1>8, <1>10 DEF Top, Newest
  <2>2. CASE q = p
    BY <2>2, <1>2, <1>8, <1>9 DEF Top, Newest
  <2>3. CASE q # p
    <3>1. q + 1 \in Pages /\ q + 1 < new
      BY <2>3, <1>2, <1>3, <1>10, Sizes DEF Pages
    <3>2. q + 1 \in Files /\ q + 1 # new
      BY <3>1, <1>10
    <3> QED BY <3>2, <1>8, <1>9, <1>10 DEF Top
  <2> QED BY <2>2, <2>3
<1>12. /\ Top(new)' = Len(log) /\ Newest(new)'
  <2>1. new + 1 \notin Files'
    <3>1. SUFFICES ASSUME new + 1 \in Files PROVE FALSE
      BY <1>2, <1>9
    <3> QED BY <3>1, <1>2, <1>10
  <2> QED BY <2>1, <1>6, <1>9 DEF Top, Newest
<1>13. /\ \A q \in Files : \A n : PlaceAfter(q, n)' = PlaceAfter(q, n)
       /\ \A q \in Files : End(q)' = End(q) /\ LastFrame(q)' = LastFrame(q)
       /\ End(new)' = First /\ LastFrame(new)' = First
  <2>1. \A q \in Files : \A n : PlaceAfter(q, n)' = PlaceAfter(q, n)
    BY <1>6, <1>11 DEF PlaceAfter
  <2> QED BY <2>1, <1>6, <1>8, <1>11, <1>12 DEF End, LastFrame, PlaceAfter
<1>14. \A q \in Files : base[q] <= Top(q) /\ Top(q) <= Len(log) /\ base[q] <= Len(log)
  BY <1>1, <1>4, <1>10, Types DEF Inv1, FilesInv
<1>15. p \in Files /\ base[p] < Len(log)
  BY <1>1, <1>2
<1>16. TypeOK'
  <2>1. pc' \in [Procs -> PCs] /\ seen' \in [Procs -> Nat] /\ base' \in [Pages -> Nat]
    BY <1>4, <1>6 DEF PCs
  <2>2. lastpos' \in [Pages -> 0 .. PageSize]
    <3>1. First \in 0 .. PageSize
      BY Sizes DEF Places
    <3> QED BY <1>4, <1>6, <3>1
  <2>3. cur' \in [Procs -> [page : Pages, pos : First .. Border - 1]]
    <3>1. First \in First .. Border - 1
      BY Sizes DEF First
    <3> QED BY <1>3, <1>4, <1>6, <3>1
  <2> QED BY <1>6, <2>1, <2>2, <2>3 DEF TypeOK, IInv
<1>17. FilesInv'
  <2>1. base'[1] = 0
    BY <1>1, <1>3, <1>8, Sizes DEF Inv1, FilesInv
  <2>2. \A q \in Pages \ Files' : mem'[q][First].len = 0
    BY <1>1, <1>6, <1>9 DEF Inv1, FilesInv
  <2>3. \A q \in Files' : base'[q] <= Top(q)' /\ Top(q)' <= Len(log)
    BY <1>4, <1>8, <1>9, <1>11, <1>12, <1>14
  <2>4. \A q \in Files' : \A k \in Pages : k < q => k \in Files' /\ base'[k] <= base'[q]
    <3>1. \A q \in Files : \A k \in Pages : k < q => k \in Files /\ base[k] <= base[q]
      BY <1>1 DEF Inv1, FilesInv
    <3>2. \A k \in Pages : k < new => k \in Files /\ base[k] <= Len(log)
      BY <1>10, <1>14
    <3> QED BY <3>1, <3>2, <1>8, <1>9, <1>10, <1>11
  <2> QED BY <1>6, <2>1, <2>2, <2>3, <2>4 DEF FilesInv
<1>18. LogInv'
  <2>1. \A i \in 1 .. Len(log) : log[i].page \in Files
    BY <1>1 DEF Inv1, LogInv
  <2>2. ASSUME NEW i \in 1 .. Len(log), NEW q \in Files, FrameOn(q, i)
        PROVE  FrameOn(q, i)'
    BY <2>2, <1>6, <1>11, <1>13 DEF FrameOn
  <2> QED BY <2>1, <2>2, <1>1, <1>6, <1>9 DEF Inv1, LogInv
<1>19. PagesInv'
  <2>1. \A i \in base'[new] + 1 .. Top(new)' : FALSE
    BY <1>4, <1>8, <1>12
  <2> QED BY <2>1, <1>1, <1>6, <1>9, <1>11 DEF Inv1, PagesInv
<1>20. EndInv'
  <2>1. \A q \in Files : End(q)' = End(q) /\ ~ Newest(q)'
    BY <1>11, <1>13
  <2>2. mem[new][First].len = 0
    BY <1>1, <1>3 DEF Inv1, FilesInv
  <2>3. First <= First /\ First < Border
    BY Sizes DEF First
  <2> QED BY <2>1, <2>2, <2>3, <1>1, <1>6, <1>9, <1>13 DEF Inv1, EndInv
<1>21. LastInv'
  <2>1. \A q \in Files' : Newest(q)' => q = new
    BY <1>9, <1>11
  <2>2. /\ lastpos'[new] <= End(new)' /\ lastpos'[new] + mem'[new][lastpos'[new]].len <= End(new)'
        /\ lastpos'[new] = LastFrame(new)'
    <3>1. mem'[new][First].len = 0
      BY <1>1, <1>3, <1>6 DEF Inv1, FilesInv
    <3> QED BY <3>1, <1>8, <1>13 DEF First
  <2>3. lastpos'[p] = LastFrame(p)'
    BY <1>1, <1>2, <1>8, <1>10, <1>13 DEF IInv, LastInv
  <2>4. W'.page - 1 = p
    BY <1>3, <1>7
  <2> QED BY <2>1, <2>2, <2>3, <2>4, <1>7 DEF LastInv
<1>22. CursorInv' /\ ReaderInv'
  <2>1. ReaderInv'
    BY <1>6, <1>7 DEF ReaderInv, ReaderOK, Coming, Seeking, IInv
  <2>2. CursorInv'
    <3>1. SUFFICES ASSUME NEW r \in Readers, pc[r] \in Seeking \/ pc[r] = "ready"
                   PROVE  /\ AtFrame(r)'
                          /\ pc[r] = "seekPage" => seen[r] = base'[cur[r].page]
      BY <1>7 DEF CursorInv, CursorOK, Procs, Seeking
    <3>2. AtFrame(r) /\ (pc[r] = "seekPage" => seen[r] = base[cur[r].page])
      BY <3>1 DEF IInv, CursorInv, CursorOK, Procs
    <3>3. cur[r].page \in Files
      BY <3>2 DEF AtFrame
    <3> QED BY <3>2, <3>3, <1>7, <1>9, <1>11, <1>13 DEF AtFrame
  <2> QED BY <2>1, <2>2
<1>23. WriterInv'
  <2>1. First + HeaderLen + req.dlen < Border
    BY <1>1, Sizes
  <2>2. /\ Newest(W.page)' /\ W'.pos = End(W.page)' /\ W'.page - 1 = p
        /\ W'.page > 1 /\ W'.pos = First /\ base'[W'.page] = Len(log)
    BY <1>3, <1>7, <1>8, <1>12, <1>13
  <2>3. base'[p] < Len(log)
    BY <1>11, <1>15
  <2>4. Behind' < Border
    BY <1>6, <1>7, <2>1 DEF Behind
  <2> QED BY <1>1, <1>6, <1>7, <2>2, <2>3, <2>4 DEF WriterInv, Writing, Seeking
<1>24. GenInv'
  BY <1>4, <1>6, <1>7 DEF GenInv, IInv, Coming, Seeking
<1>25. ListedInv'
  BY <1>2, <1>6, <1>7 DEF IInv, ListedInv
<1> QED BY <1>16, <1>17, <1>18, <1>19, <1>20, <1>21, <1>22, <1>23, <1>24, <1>25 DEF IInv

----------------------------------------------------------------------------
(* The step that publishes a frame.                                         *)

\* The index behind the last entry a reader was handed is one of the log, or
\* the next one.
LEMMA ReaderIndex ==
  ASSUME IInv, NEW r \in Readers
  PROVE  /\ Len(got[r]) \in Nat /\ first[r] \in Nat
         /\ pc[r] = "ready" => first[r] + Len(got[r]) <= Len(log) + 1
         /\ \A i \in 1 .. Len(got[r]) : first[r] + i - 1 \in 1 .. Len(log)
<1>1. got[r] \in Seq([gen : Nat, body : Bodies \cup {NoBody}]) /\ first[r] \in Nat
  BY DEF IInv, TypeOK
<1>2. Len(got[r]) \in Nat
  BY <1>1
<1>3. Inv1
  BY DEF IInv, Inv1
<1>4. CASE pc[r] = "ready"
  <2>1. AtFrame(r) /\ first[r] > 0 /\ seen[r] = first[r] - 1 + Len(got[r])
    BY <1>4 DEF IInv, CursorInv, CursorOK, ReaderInv, ReaderOK, Procs
  <2>2. seen[r] <= Top(cur[r].page) /\ Top(cur[r].page) <= Len(log) /\ cur[r].page \in Pages
    BY <1>3, <2>1, Types DEF AtFrame, Inv1, FilesInv
  <2>3. seen[r] <= Len(log) /\ Len(log) \in Nat
    BY <1>1, <1>2, <1>3, <2>1, <2>2, Types DEF Inv1
  <2>4. first[r] + Len(got[r]) <= Len(log) + 1
    BY <1>1, <1>2, <2>1, <2>3
  <2>5. \A i \in 1 .. Len(got[r]) : first[r] + i - 1 \in 1 .. Len(log)
    BY <1>1, <1>2, <2>1, <2>3, <2>4
  <2> QED BY <1>1, <1>2, <2>4, <2>5
<1>5. CASE pc[r] # "ready"
  <2>1. got[r] = <<>>
    BY <1>5 DEF IInv, ReaderInv, ReaderOK
  <2> QED BY <1>1, <1>5, <2>1
<1> QED BY <1>4, <1>5

\* PublishFrame keeps the invariant.
LEMMA PublishFrameStep ==
  ASSUME IInv, PublishFrame
  PROVE  IInv'
<1> SUFFICES ASSUME NEW p, NEW at, NEW n, NEW len, NEW end,
                    p = W.page, at = W.pos, n = Len(log), len = HeaderLen + req.dlen, end = Behind
             PROVE  IInv'
  OBVIOUS
<1> DEFINE e == [page |-> p, pos |-> at, len |-> len, gen |-> req.gen, body |-> req.body]
<1>1. /\ pc[Writer] \in Writing /\ pc[Writer] = "stamped" /\ Inv1
      /\ mem[p][at].tag = Data /\ mem[p][at].body = req.body /\ mem[p][at].gen = req.gen
      /\ mem[p][end].len = 0
  BY DEF PublishFrame, Writing, IInv, Inv1, WriterInv
<1>2. /\ p \in Files /\ p \in Pages /\ Newest(p) /\ at = End(p)
      /\ at \in Places /\ at \in Nat /\ seen[Writer] = n
      /\ end \in Places /\ end \in Nat /\ at < end /\ end < Border
      /\ req.body \in Bodies /\ req.dlen \in Nat /\ req.gen \in Nat
      /\ mem \in [Pages -> [Places -> Headers]] /\ pc \in [Procs -> PCs]
  BY <1>1, InFrame
<1>3. end = at + len /\ len \in Nat /\ len >= HeaderLen /\ len > 0
  BY <1>2, Sizes DEF Behind
<1>4. n \in Nat /\ log \in Seq(Frames)
  BY DEF IInv, TypeOK
<1>5. /\ mem' = [mem EXCEPT ![p] = [mem[p] EXCEPT ![at].len = len]]
      /\ log' = Append(log, e)
      /\ pc' = [pc EXCEPT ![Writer] = "published"]
      /\ UNCHANGED <<lastpos, listed, clock, cur, from, req, crashes, base, seen, first, got>>
  BY DEF PublishFrame, Store, Goto
<1>6. /\ pc'[Writer] = "published" /\ pc' \in [Procs -> PCs]
      /\ \A r \in Readers : pc'[r] = pc[r]
  BY <1>2, <1>5, WriterThere DEF PCs
<1>7. /\ \A k \in Pages, u \in Places : (k # p \/ u # at) => mem'[k][u] = mem[k][u]
      /\ mem'[p][at] = [mem[p][at] EXCEPT !.len = len]
      /\ mem[p][at] \in Headers
  BY <1>2, <1>5
<1>8. /\ mem'[p][at] = [len |-> len, tag |-> Data, gen |-> req.gen, body |-> req.body]
      /\ mem'[p][at] \in Headers
  BY <1>1, <1>3, <1>7 DEF Headers
<1>9. mem' \in [Pages -> [Places -> Headers]]
  BY <1>2, <1>5, <1>7, <1>8
<1>10. e \in Frames
  BY <1>2, <1>3 DEF Frames
<1>11. /\ log' \in Seq(Frames) /\ Len(log') = n + 1 /\ log'[n + 1] = e
       /\ \A i \in 1 .. n : log'[i] = log[i]
  BY <1>4, <1>5, <1>10
<1>12. TypeOK'
  BY <1>5, <1>6, <1>9, <1>11 DEF TypeOK, IInv
<1>13. /\ Files' = Files /\ \A q : Newest(q)' <=> Newest(q)
       /\ \A q \in Files : q \in Pages /\ (q # p => ~ Newest(q))
  <2>1. Files' = Files
    BY <1>5 DEF Files
  <2>2. \A q \in Files : q \in Pages /\ (q # p => ~ Newest(q))
    <3>1. SUFFICES ASSUME NEW q \in Files, Newest(q) PROVE q = p
      BY DEF Files
    <3>2. q <= p /\ p <= q /\ q \in Pages
      BY <1>1, <1>2, <3>1, NewestIsLast DEF Inv1, Files
    <3> QED BY <1>2, <3>2 DEF Pages
  <2> QED BY <2>1, <2>2 DEF Newest
<1>14. /\ \A q \in Files : q # p => Top(q)' = Top(q)
       /\ Top(p) = n /\ Top(p)' = n + 1 /\ base[p] <= n /\ base[p] \in Nat
  <2>1. Top(p) = n /\ Top(p)' = n + 1
    BY <1>2, <1>11, <1>13 DEF Top, Newest
  <2>2. \A q \in Files : q # p => Top(q)' = Top(q)
    BY <1>5, <1>13 DEF Top, Newest
  <2> QED BY <1>1, <1>2, <2>1, <2>2, Types DEF Inv1, FilesInv
<1>15. \A q \in Files : \A k \in base[q] .. Top(q) : PlaceAfter(q, k)' = PlaceAfter(q, k)
  <2>1. \A q \in Files : \A k \in base[q] .. Top(q) : k # base[q] => k \in 1 .. n
    BY <1>1, PlaceType DEF Inv1
  <2> QED BY <1>5, <1>11, <2>1 DEF PlaceAfter
<1>16. /\ \A q \in Files : q # p => End(q)' = End(q)
       /\ End(p)' = end
       /\ \A q \in Files : End(q) \in Int /\ End(q) \in Places /\ End(q) <= End(q)'
  <2>1. \A q \in Files : Top(q) \in base[q] .. Top(q)
    BY <1>1, Types DEF Inv1, FilesInv, Files
  <2>2. \A q \in Files : q # p => End(q)' = End(q)
    BY <2>1, <1>14, <1>15 DEF End
  <2>3. n + 1 # base[p]
    BY <1>4, <1>14
  <2>4. End(p)' = end
    BY <2>3, <1>3, <1>5, <1>11, <1>14 DEF End, PlaceAfter
  <2> QED BY <2>2, <2>4, <1>1, <1>2, EndType DEF Inv1
<1>17. FilesInv'
  <2>1. \A q \in Pages \ Files : mem'[q][First] = mem[q][First]
    BY <1>2, <1>7, Sizes
  <2>2. \A q \in Files : base[q] <= Top(q)' /\ Top(q)' <= n + 1
    BY <1>1, <1>4, <1>13, <1>14, Types DEF Inv1, FilesInv
  <2> QED BY <1>1, <1>5, <1>11, <1>13, <2>1, <2>2 DEF Inv1, FilesInv
<1>18. LogInv'
  <2>1. ASSUME NEW i \in 1 .. n, NEW q, q = log[i].page
        PROVE  FrameOn(q, i)' /\ q \in Files
    <3>1. /\ q \in Files /\ q \in Pages /\ log[i].pos \in Places /\ log[i].pos \in Nat
          /\ log[i].len \in Nat /\ base[q] < i /\ i <= Top(q)
          /\ log[i].pos = PlaceAfter(q, i - 1)
          /\ log[i].pos + log[i].len <= End(q) /\ log[i].pos < End(q)
          /\ mem[q][log[i].pos] =
               [len |-> log[i].len, tag |-> Data, gen |-> log[i].gen, body |-> log[i].body]
      BY <1>1, <2>1, FramePlace DEF Inv1
    <3>2. log[i].len >= HeaderLen
      BY <1>1, <2>1, <3>1 DEF Inv1, LogInv, FrameOn
    <3>3. mem'[q][log[i].pos] = mem[q][log[i].pos]
      <4>1. q = p => log[i].pos # at
        BY <3>1, <1>2
      <4> QED BY <4>1, <3>1, <1>7
    <3>4. base[q] \in Nat /\ Top(q) \in Nat
      BY <1>1, <3>1, Types DEF Inv1
    <3>5. i - 1 \in base[q] .. Top(q)
      BY <3>1, <3>4
    <3>6. PlaceAfter(q, i - 1)' = PlaceAfter(q, i - 1)
      BY <3>1, <3>5, <1>15
    <3>7. End(q) \in Int /\ End(q) <= End(q)' /\ End(q)' \in Int
      BY <3>1, <1>2, <1>16
    <3>8. i <= Top(q)'
      BY <3>1, <1>4, <1>14
    <3>9. log[i].pos + log[i].len <= End(q)'
      BY <3>1, <3>7
    <3> QED BY <3>1, <3>2, <3>3, <3>6, <3>8, <3>9, <1>5, <1>11 DEF FrameOn
  <2>2. FrameOn(p, n + 1)'
    <3>1. n \in base[p] .. Top(p)
      BY <1>4, <1>14
    <3>2. PlaceAfter(p, n)' = at
      BY <3>1, <1>2, <1>14, <1>15 DEF End
    <3>3. base[p] < n + 1 /\ n + 1 <= Top(p)' /\ (n + 1) - 1 = n
      BY <1>4, <1>14
    <3>4. at + len <= End(p)'
      BY <1>2, <1>3, <1>16
    <3> QED BY <3>2, <3>3, <3>4, <1>3, <1>5, <1>8, <1>11 DEF FrameOn
  <2>3. SUFFICES ASSUME NEW i \in 1 .. n + 1, NEW q, q = log'[i].page
                 PROVE  q \in Files /\ FrameOn(q, i)'
    BY <1>11, <1>13 DEF LogInv
  <2>4. CASE i \in 1 .. n
    BY <2>1, <2>3, <2>4, <1>11
  <2>5. CASE i = n + 1
    BY <2>2, <2>3, <2>5, <1>2, <1>11
  <2> QED BY <2>4, <2>5, <1>4
<1>19. PagesInv'
  <2>1. ASSUME NEW q \in Files, NEW i \in base[q] + 1 .. Top(q)'
        PROVE  log'[i].page = q
    <3>1. CASE i = n + 1 /\ q = p
      BY <3>1, <1>11
    <3>2. CASE ~ (i = n + 1 /\ q = p)
      <4>1. base[q] \in Nat /\ Top(q) \in Nat /\ Top(q) <= n /\ q \in Pages
        BY <1>1, <1>13, Types DEF Inv1, FilesInv
      <4>2. i \in base[q] + 1 .. Top(q) /\ i \in 1 .. n
        BY <3>2, <4>1, <1>4, <1>14
      <4> QED BY <4>2, <1>1, <1>11 DEF Inv1, PagesInv
    <3> QED BY <3>1, <3>2
  <2> QED BY <2>1, <1>5, <1>13 DEF PagesInv
<1>20. EndInv'
  <2>1. \A q \in Files : q # p => mem'[q][End(q)] = mem[q][End(q)] /\ End(q)' = End(q)
    BY <1>7, <1>13, <1>16
  <2>2. First <= end /\ end < Border /\ mem'[p][end].len = 0
    BY <1>1, <1>2, <1>7 DEF Places, First
  <2>3. \A q \in Files : /\ First <= End(q) /\ End(q) < Border
                         /\ mem[q][End(q)].len = 0 \/ (mem[q][End(q)].tag = PageEnd /\ ~ Newest(q))
    BY <1>1 DEF Inv1, EndInv
  <2>4. SUFFICES ASSUME NEW q \in Files
                 PROVE  /\ First <= End(q)' /\ End(q)' < Border
                        /\ \/ mem'[q][End(q)'].len = 0
                           \/ mem'[q][End(q)'].tag = PageEnd /\ ~ Newest(q)
    BY <1>13 DEF EndInv
  <2>5. CASE q = p
    BY <2>2, <2>5, <1>16
  <2>6. CASE q # p
    BY <2>1, <2>3, <2>6
  <2> QED BY <2>5, <2>6
<1>21. LastInv'
  <2>1. lastpos[p] <= at /\ lastpos[p] + mem[p][lastpos[p]].len <= at
    BY <1>2 DEF IInv, LastInv
  <2>2. lastpos[p] \in Places /\ lastpos[p] \in Int
    BY <1>1, <1>2, Types DEF Inv1, Places
  <2>3. mem[p][lastpos[p]].len \in Nat
    BY <1>1, <1>2, <2>2, Types DEF Inv1
  <2>4. lastpos[p] + mem'[p][lastpos[p]].len <= end
    <3>1. CASE lastpos[p] = at
      BY <3>1, <1>3, <1>8, <1>2
    <3>2. CASE lastpos[p] # at
      BY <3>2, <2>1, <2>2, <2>3, <1>2, <1>7
    <3> QED BY <3>1, <3>2
  <2>5. lastpos[p] <= end
    BY <2>1, <2>2, <1>2
  <2>6. \A q \in Files : Newest(q) => q = p
    BY <1>13
  <2>7. pc'[Writer] \notin {"turned", "ended"} /\ pc'[Writer] = "published"
    BY <1>6
  <2> QED BY <2>4, <2>5, <2>6, <2>7, <1>5, <1>13, <1>16 DEF LastInv
<1>22. CursorInv'
  <2>1. SUFFICES ASSUME NEW r \in Readers, pc[r] \in Seeking \/ pc[r] = "ready"
                 PROVE  /\ AtFrame(r)'
                        /\ pc[r] = "seekPage" => seen[r] = base[cur[r].page]
    BY <1>5, <1>6 DEF CursorInv, CursorOK, Procs, Seeking
  <2>2. AtFrame(r) /\ (pc[r] = "seekPage" => seen[r] = base[cur[r].page])
    BY <2>1 DEF IInv, CursorInv, CursorOK, Procs
  <2>3. /\ cur[r].page \in Files /\ seen[r] \in Nat /\ base[cur[r].page] \in Nat
        /\ Top(cur[r].page) \in Nat
    BY <2>2, <1>1, Types, WriterThere DEF AtFrame, Inv1
  <2>4. seen[r] \in base[cur[r].page] .. Top(cur[r].page)
    BY <2>2, <2>3 DEF AtFrame
  <2>5. PlaceAfter(cur[r].page, seen[r])' = PlaceAfter(cur[r].page, seen[r])
    BY <2>3, <2>4, <1>5, <1>15
  <2>6. seen[r] <= Top(cur[r].page)'
    BY <2>2, <2>3, <2>4, <1>4, <1>5, <1>14 DEF AtFrame
  <2> QED BY <2>2, <2>5, <2>6, <1>5, <1>13 DEF AtFrame
<1>23. ReaderInv'
  <2>1. SUFFICES ASSUME NEW r \in Readers PROVE ReaderOK(r)'
    BY DEF ReaderInv
  <2>2. ReaderOK(r)
    BY DEF IInv, ReaderInv
  <2>3. \A i \in 1 .. Len(got[r]) : Entry(log'[first[r] + i - 1]) = Entry(log[first[r] + i - 1])
    BY <1>11, ReaderIndex DEF Entry
  <2>4. pc'[r] = pc[r] /\ seen'[r] = seen[r] /\ first' = first /\ got' = got
    BY <1>5, <1>6
  <2>5. \A i \in 1 .. Len(got[r]) : got'[r][i] = Entry(log'[first'[r] + i - 1])
    BY <2>2, <2>3, <2>4 DEF ReaderOK
  <2> QED BY <2>2, <2>4, <2>5 DEF ReaderOK, Entry
<1>24. WriterInv'
  <2>1. /\ Newest(W.page)' /\ n + 1 > base[p] /\ n = (n + 1) - 1 /\ at = e.pos
        /\ W' = W
    BY <1>2, <1>4, <1>5, <1>13, <1>14 DEF W
  <2> QED BY <2>1, <1>2, <1>5, <1>6, <1>11 DEF WriterInv, Writing, Seeking
<1>25. GenInv'
  <2>1. \A k \in Pages, u \in Places : mem'[k][u].gen = mem[k][u].gen
    BY <1>1, <1>7, <1>8
  <2> QED BY <2>1, <1>5, <1>6 DEF GenInv, IInv, Coming, Seeking
<1>26. ListedInv'
  BY ListedStays, WriterThere DEF PublishFrame, Goto, IInv, TypeOK, Files
<1> QED BY <1>12, <1>17, <1>18, <1>19, <1>20, <1>21, <1>22, <1>23, <1>24, <1>25, <1>26 DEF IInv

----------------------------------------------------------------------------
(* A process that only moves its cursor.                                    *)

\* A step that only moves a cursor keeps the invariant.
LEMMA CursorStep ==
  ASSUME IInv, NEW p \in Procs, TypeOK',
         UNCHANGED <<mem, lastpos, clock, req, crashes, log, base>>, listed \subseteq listed',
         \A q \in Procs \ {p} : /\ pc'[q] = pc[q] /\ cur'[q] = cur[q]
                                /\ seen'[q] = seen[q] /\ from'[q] = from[q],
         \A r \in Readers \ {p} : first'[r] = first[r] /\ got'[r] = got[r],
         p = Writer => /\ pc[p] \notin Writing \cup {"published"}
                       /\ pc'[p] \notin Writing \cup {"published"}
                       /\ WriterInv' /\ GenInv'
                       /\ pc'[p] \in {"none", "made"} => Files \subseteq {1},
         CursorOK(p)',
         p \in Readers => ReaderOK(p)'
  PROVE  IInv'
<1>1. Inv1 /\ Files' = Files
  BY DEF IInv, Inv1, Files
<1>2. FilesInv' /\ LogInv' /\ PagesInv' /\ EndInv'
  BY <1>1, QuietStep
<1>3. p # Writer => /\ pc'[Writer] = pc[Writer] /\ cur'[Writer] = cur[Writer]
                    /\ seen'[Writer] = seen[Writer] /\ from'[Writer] = from[Writer]
  BY WriterThere
<1>4. LastInv'
  <2>1. \A k \in Files : Newest(k) => mem'[k][End(k)].len = 0
    BY <1>1 DEF Inv1, EndInv
  <2> QED BY <1>1, <1>3, <2>1, LastStep DEF IInv, Writing
<1>5. CursorInv'
  <2>1. ASSUME NEW q \in Procs, q # p PROVE CursorOK(q)'
    <3>1. CursorOK(q)
      BY DEF IInv, CursorInv
    <3> QED BY <3>1, <2>1, <1>1, Shape DEF CursorOK, AtFrame
  <2> QED BY <2>1 DEF CursorInv
<1>6. ReaderInv'
  <2>1. ASSUME NEW r \in Readers, r # p PROVE ReaderOK(r)'
    <3>1. ReaderOK(r)
      BY DEF IInv, ReaderInv
    <3> QED BY <3>1, <2>1, WriterThere DEF ReaderOK, Entry
  <2> QED BY <2>1 DEF ReaderInv
<1>7. WriterInv' /\ GenInv'
  <2>1. CASE p = Writer
    BY <2>1
  <2>2. CASE p # Writer
    <3>1. W' = W /\ Behind' = Behind /\ pc'[Writer] = pc[Writer] /\ seen'[Writer] = seen[Writer]
      BY <2>2, <1>3 DEF W, Behind
    <3>2. Newest(W.page)' <=> Newest(W.page)
      BY <1>1, <3>1, Shape
    <3>3. End(W.page)' = End(W.page)
      BY <1>1, <3>1, Shape
    <3>4. WriterInv'
      BY <3>1, <3>2, <3>3 DEF IInv, WriterInv
    <3>5. GenInv'
      BY <2>2, <1>3 DEF IInv, GenInv
    <3> QED BY <3>4, <3>5
  <2> QED BY <2>1, <2>2
<1>8. ListedInv'
  BY <1>1, <1>3 DEF IInv, ListedInv
<1> QED BY <1>2, <1>4, <1>5, <1>6, <1>7, <1>8 DEF IInv

\* The clock advances: memory grows older, nothing else.
LEMMA TickStep ==
  ASSUME IInv, Tick
  PROVE  IInv'
<1>1. /\ clock' = clock + 1 /\ clock \in Nat
      /\ UNCHANGED <<mem, lastpos, listed, pc, cur, from, req, crashes, log, base, seen, first, got>>
  BY DEF Tick, IInv, TypeOK
<1>2. Inv1 /\ Files' = Files
  BY <1>1 DEF IInv, Inv1, Files
<1>3. TypeOK'
  <2>1. clock + 1 \in Nat
    BY <1>1
  <2> QED BY <1>1, <2>1 DEF IInv, TypeOK
<1>4. FilesInv' /\ LogInv' /\ PagesInv' /\ EndInv'
  BY <1>1, <1>2, QuietStep
<1>5. LastInv'
  <2>1. \A k \in Files : Newest(k) => mem'[k][End(k)].len = 0
    BY <1>1, <1>2 DEF Inv1, EndInv
  <2> QED BY <1>1, <1>2, <2>1, LastStep DEF IInv
<1>6. CursorInv' /\ ReaderInv'
  <2>1. CursorInv'
    BY <1>1, <1>2, Shape DEF IInv, CursorInv, CursorOK, AtFrame
  <2> QED BY <1>1, <2>1 DEF IInv, ReaderInv, ReaderOK, Coming, Seeking, Entry
<1>7. WriterInv'
  <2>1. W' = W /\ Behind' = Behind
    BY <1>1 DEF W, Behind
  <2>2. (Newest(W.page)' <=> Newest(W.page)) /\ End(W.page)' = End(W.page)
    BY <1>1, <1>2, <2>1, Shape
  <2> QED BY <1>1, <2>1, <2>2 DEF IInv, WriterInv
<1>8. GenInv'
  <2>1. \A q \in Pages, u \in Places : mem[q][u].gen \in Nat
    BY <1>2, Types DEF Inv1
  <2>2. req.gen \in Nat /\ from[Writer] \in Nat
    BY WriterThere DEF IInv, TypeOK
  <2> QED BY <1>1, <2>1, <2>2 DEF IInv, GenInv
<1>9. ListedInv'
  BY <1>1, <1>2, ListedStays DEF IInv
<1> QED BY <1>3, <1>4, <1>5, <1>6, <1>7, <1>8, <1>9 DEF IInv

\* Crash keeps the invariant.
LEMMA CrashStep ==
  ASSUME IInv, Crash, NoCrashAtPublished
  PROVE  IInv'
<1>1. /\ clock' = clock + 1 /\ clock \in Nat /\ crashes \in Nat /\ pc \in [Procs -> PCs]
      /\ pc[Writer] # "published" /\ crashes' = crashes + 1
      /\ pc' = [pc EXCEPT ![Writer] = "off"]
      /\ UNCHANGED <<mem, lastpos, listed, cur, from, req, log, base, seen, first, got>>
  BY DEF Crash, IInv, TypeOK, NoCrashAtPublished, Goto
<1>2. /\ pc'[Writer] = "off" /\ \A r \in Readers : pc'[r] = pc[r]
      /\ pc' \in [Procs -> PCs]
  BY <1>1, WriterThere DEF PCs
<1>3. Inv1 /\ Files' = Files
  BY <1>1 DEF IInv, Inv1, Files
<1>4. TypeOK'
  <2>1. clock + 1 \in Nat /\ crashes + 1 \in Nat
    BY <1>1
  <2> QED BY <1>1, <1>2, <2>1 DEF IInv, TypeOK
<1>5. FilesInv' /\ LogInv' /\ PagesInv' /\ EndInv'
  BY <1>1, <1>3, QuietStep
<1>6. LastInv'
  <2>1. \A k \in Files : Newest(k) => mem'[k][End(k)].len = 0
    BY <1>1, <1>3 DEF Inv1, EndInv
  <2> QED BY <1>1, <1>2, <1>3, <2>1, LastStep DEF IInv
<1>7. CursorInv' /\ ReaderInv'
  BY <1>1, <1>2, <1>3, CursorsStay DEF IInv, Seeking
<1>8. WriterInv'
  BY <1>2 DEF WriterInv, Writing, Seeking
<1>9. GenInv'
  <2>1. \A q \in Pages, u \in Places : mem[q][u].gen \in Nat
    BY <1>3, Types DEF Inv1
  <2>2. req.gen \in Nat /\ from[Writer] \in Nat
    BY WriterThere DEF IInv, TypeOK
  <2> QED BY <1>1, <1>2, <2>1, <2>2 DEF IInv, GenInv, Coming, Seeking
<1>10. ListedInv'
  BY <1>1, <1>2, <1>3, ListedStays DEF IInv
<1> QED BY <1>4, <1>5, <1>6, <1>7, <1>8, <1>9, <1>10 DEF IInv

\* CloseFrame keeps the invariant.
LEMMA CloseFrameStep ==
  ASSUME IInv, CloseFrame
  PROVE  IInv'
<1> SUFFICES ASSUME NEW p, NEW at, NEW n, p = W.page, at = W.pos, n = Len(log)
             PROVE  IInv'
  OBVIOUS
<1>1. /\ Inv1 /\ pc[Writer] = "published" /\ Newest(p) /\ p \in Files /\ p \in Pages
      /\ n > base[p] /\ seen[Writer] = n - 1 /\ at = log[n].pos
  BY DEF CloseFrame, IInv, Inv1, WriterInv, Newest, Files
<1>2. /\ pc \in [Procs -> PCs] /\ lastpos \in [Pages -> 0 .. PageSize]
      /\ cur \in [Procs -> [page : Pages, pos : First .. Border - 1]]
      /\ seen \in [Procs -> Nat] /\ n \in Nat
  BY DEF IInv, TypeOK
<1>3. base[p] \in Nat /\ Top(p) = n
  BY <1>1, Types DEF Inv1, Top, Newest
<1>4. n \in 1 .. Len(log) /\ n \in base[p] + 1 .. Top(p)
  BY <1>1, <1>2, <1>3
<1>5. log[n].page = p
  BY <1>1, <1>4 DEF Inv1, PagesInv
<1>6. /\ mem[p][at] = [len |-> log[n].len, tag |-> Data, gen |-> log[n].gen, body |-> log[n].body]
      /\ at \in Places /\ at \in Nat /\ log[n].len \in Nat /\ at < End(p)
  BY <1>1, <1>4, <1>5, FramePlace DEF Inv1
<1>7. End(p) = at + log[n].len /\ LastFrame(p) = at
  BY <1>1, <1>2, <1>3 DEF End, PlaceAfter, LastFrame
<1>8. Frame(Writer).len = log[n].len
  BY <1>6 DEF Frame, W
<1>9. /\ lastpos' = [lastpos EXCEPT ![p] = at]
      /\ cur' = [cur EXCEPT ![Writer].pos = @ + Frame(Writer).len]
      /\ seen' = [seen EXCEPT ![Writer] = @ + 1]
      /\ pc' = [pc EXCEPT ![Writer] = "ready"]
      /\ UNCHANGED <<mem, listed, clock, from, req, crashes, log, base, first, got>>
  BY DEF CloseFrame, Goto
<1>10. /\ W'.page = p /\ W'.pos = End(p) /\ seen'[Writer] = n /\ pc'[Writer] = "ready"
       /\ cur' = [cur EXCEPT ![Writer] = [page |-> p, pos |-> End(p)]]
       /\ \A r \in Readers : pc'[r] = pc[r] /\ cur'[r] = cur[r] /\ seen'[r] = seen[r]
  <2>1. cur[Writer] = [page |-> p, pos |-> at]
    BY <1>2, WriterThere DEF W
  <2>2. cur' = [cur EXCEPT ![Writer] = [cur[Writer] EXCEPT !.pos = @ + log[n].len]]
    BY <1>8, <1>9
  <2>3. [cur[Writer] EXCEPT !.pos = @ + log[n].len] = [page |-> p, pos |-> End(p)]
    BY <2>1, <1>7
  <2>4. cur' = [cur EXCEPT ![Writer] = [page |-> p, pos |-> End(p)]]
    BY <2>2, <2>3
  <2>5. seen'[Writer] = n
    BY <1>1, <1>2, <1>9, WriterThere
  <2>6. cur'[Writer] = [page |-> p, pos |-> End(p)]
    BY <1>2, <2>4, WriterThere
  <2>7. /\ pc'[Writer] = "ready"
        /\ \A r \in Readers : pc'[r] = pc[r] /\ cur'[r] = cur[r] /\ seen'[r] = seen[r]
    BY <1>2, <1>9, <2>4, WriterThere
  <2> QED BY <2>4, <2>5, <2>6, <2>7 DEF W
<1>11. Files' = Files
  <2>1. at # 0 /\ \A q \in Pages : q # p => lastpos'[q] = lastpos[q]
    BY <1>2, <1>6, <1>9 DEF Places
  <2> QED BY <1>1, <1>2, <1>9, <2>1 DEF Files
<1>12. First <= End(p) /\ End(p) < Border /\ End(p) \in Int
  BY <1>1, EndType DEF Inv1, EndInv
<1>13. TypeOK'
  <2>1. at \in 0 .. PageSize /\ End(p) \in First .. Border - 1
    BY <1>6, <1>12, Sizes DEF Places, First
  <2>2. /\ lastpos' \in [Pages -> 0 .. PageSize] /\ pc' \in [Procs -> PCs]
        /\ seen' \in [Procs -> Nat]
    <3>1. lastpos' \in [Pages -> 0 .. PageSize] /\ pc' \in [Procs -> PCs]
      BY <1>2, <1>9, <2>1 DEF PCs
    <3>2. \A q \in Procs : seen[q] + 1 \in Nat
      BY <1>2
    <3> QED BY <1>2, <1>9, <3>1, <3>2, WriterThere
  <2>3. cur' \in [Procs -> [page : Pages, pos : First .. Border - 1]]
    BY <1>1, <1>2, <1>10, <2>1
  <2> QED BY <1>9, <2>2, <2>3 DEF IInv, TypeOK
<1>14. FilesInv' /\ LogInv' /\ PagesInv' /\ EndInv'
  BY <1>1, <1>9, <1>11, QuietStep
<1>15. LastInv'
  <2>1. \A k \in Files : Newest(k) => k = p
    <3>1. \A k \in Files : Newest(k) => k <= p /\ p <= k /\ k \in Pages
      BY <1>1, NewestIsLast DEF Inv1, Files
    <3> QED BY <1>1, <3>1 DEF Pages
  <2>2. lastpos'[p] = at /\ at <= End(p) /\ at + mem[p][at].len <= End(p)
    BY <1>1, <1>2, <1>6, <1>7, <1>9, <1>12
  <2> QED BY <1>7, <1>9, <1>10, <1>11, <2>1, <2>2, Shape DEF LastInv
<1>16. CursorInv' /\ ReaderInv'
  BY <1>1, <1>9, <1>10, <1>11, CursorsStay DEF IInv, Seeking
<1>17. WriterInv'
  <2>1. Newest(W.page)' /\ W'.pos = End(W.page)'
    BY <1>1, <1>9, <1>10, <1>11, Shape
  <2> QED BY <1>9, <1>10, <2>1 DEF WriterInv, Writing, Seeking
<1>18. GenInv'
  BY <1>9, <1>10 DEF IInv, GenInv, Coming, Seeking
<1>19. ListedInv'
  BY <1>9, <1>10, <1>11, ListedStays DEF IInv
<1> QED BY <1>13, <1>14, <1>15, <1>16, <1>17, <1>18, <1>19 DEF IInv

\* Start keeps the invariant.
LEMMA StartStep ==
  ASSUME IInv, NEW p \in Procs, Start(p)
  PROVE  IInv'
<1>1. /\ pc[p] = "off" /\ pc \in [Procs -> PCs] /\ from \in [Procs -> Nat] /\ clock \in Nat
      /\ from' = [from EXCEPT ![p] = clock] /\ pc' = [pc EXCEPT ![p] = "join"]
      /\ UNCHANGED <<mem, lastpos, listed, clock, cur, req, crashes, log, base, seen, first, got>>
  BY DEF Start, Goto, IInv, TypeOK
<1>2. /\ pc'[p] = "join" /\ from'[p] = clock
      /\ \A q \in Procs \ {p} : pc'[q] = pc[q] /\ from'[q] = from[q]
  BY <1>1
<1>3. TypeOK'
  BY <1>1 DEF IInv, TypeOK, PCs
<1>4. CursorOK(p)'
  BY <1>2 DEF CursorOK, Seeking
<1>5. p \in Readers => ReaderOK(p)'
  BY <1>1, <1>2 DEF IInv, ReaderInv, ReaderOK, Coming, Seeking, Entry
<1>6. p = Writer => WriterInv' /\ GenInv'
  <2>1. p = Writer => WriterInv'
    BY <1>2 DEF WriterInv, Writing, Seeking
  <2>2. p = Writer => GenInv'
    BY <1>1, <1>2 DEF IInv, GenInv, Coming, Seeking
  <2> QED BY <2>1, <2>2
<1> QED BY <1>1, <1>2, <1>3, <1>4, <1>5, <1>6, CursorStep DEF Writing

\* SeekDone keeps the invariant.
LEMMA SeekDoneStep ==
  ASSUME IInv, NEW p \in Procs, SeekDone(p)
  PROVE  IInv'
<1>1. /\ pc[p] = "seekFrame" /\ pc \in [Procs -> PCs] /\ first \in [Readers -> Nat]
      /\ seen \in [Procs -> Nat] /\ pc' = [pc EXCEPT ![p] = "ready"]
      /\ first' = IF p \in Readers THEN [first EXCEPT ![p] = seen[p] + 1] ELSE first
      /\ UNCHANGED <<mem, lastpos, listed, clock, cur, from, req, crashes, log, base, seen, got>>
  BY DEF SeekDone, Goto, IInv, TypeOK
<1>2. /\ pc'[p] = "ready" /\ \A q \in Procs \ {p} : pc'[q] = pc[q]
      /\ \A r \in Readers \ {p} : first'[r] = first[r]
      /\ p \in Readers => first'[p] = seen[p] + 1
  BY <1>1
<1>3. TypeOK'
  <2>1. seen[p] + 1 \in Nat
    BY <1>1
  <2>2. first' \in [Readers -> Nat] /\ pc' \in [Procs -> PCs]
    BY <1>1, <2>1 DEF PCs
  <2> QED BY <1>1, <2>2 DEF IInv, TypeOK
<1>4. Files' = Files /\ Inv1
  BY <1>1 DEF IInv, Inv1, Files
<1>5. AtFrame(p) /\ AtFrame(p)'
  <2>1. AtFrame(p)
    BY <1>1 DEF IInv, CursorInv, CursorOK, Seeking
  <2> QED BY <1>1, <1>4, <2>1, Shape DEF AtFrame
<1>6. CursorOK(p)'
  BY <1>2, <1>5 DEF CursorOK
<1>7. p \in Readers => ReaderOK(p)'
  <2>1. SUFFICES ASSUME p \in Readers PROVE ReaderOK(p)'
    OBVIOUS
  <2>2. got[p] = <<>>
    BY <1>1, <2>1 DEF IInv, ReaderInv, ReaderOK
  <2> QED BY <1>1, <1>2, <2>1, <2>2 DEF ReaderOK, Coming, Seeking
<1>8. p = Writer => WriterInv' /\ GenInv'
  <2>1. SUFFICES ASSUME p = Writer PROVE WriterInv' /\ GenInv'
    OBVIOUS
  <2>2. /\ Newest(W.page) /\ W.page \in Files /\ W.page \in Pages /\ W' = W
        /\ seen[Writer] <= Top(W.page) /\ base[W.page] <= seen[Writer]
        /\ W.pos = PlaceAfter(W.page, seen[Writer])
    BY <1>1, <1>5, <2>1 DEF IInv, WriterInv, Seeking, Newest, Files, AtFrame, W
  <2>3. Top(W.page) = Len(log) /\ Len(log) \in Nat /\ base[W.page] \in Nat
    BY <1>4, <2>2, Types DEF Newest, Top, Inv1
  <2>4. seen[Writer] = Len(log)
    <3>1. SUFFICES ASSUME seen[Writer] # Len(log) PROVE FALSE
      OBVIOUS
    <3> DEFINE i == seen[Writer] + 1
    <3>2. /\ i \in 1 .. Len(log) /\ i \in base[W.page] + 1 .. Top(W.page)
          /\ i - 1 = seen[Writer]
      BY <3>1, <2>1, <2>2, <2>3, <1>1
    <3>3. log[i].page = W.page
      BY <3>2, <2>2, <1>4 DEF Inv1, PagesInv
    <3>4. /\ mem[W.page][W.pos] = [len |-> log[i].len, tag |-> Data,
                                   gen |-> log[i].gen, body |-> log[i].body]
          /\ log[i].len \in Nat
      BY <3>2, <3>3, <2>2, <1>4, FramePlace DEF Inv1
    <3>5. log[i].len >= HeaderLen
      BY <3>2, <3>3, <2>2, <1>4 DEF Inv1, LogInv, FrameOn
    <3>6. HasData(mem[W.page][W.pos])
      BY <3>4, <3>5, Sizes DEF HasData, Data, PageEnd
    <3>7. ~ (mem[W.page][W.pos].gen <= from[Writer])
      BY <3>6, <2>1 DEF SeekDone, IsPassed, Frame, W
    <3>8. mem[W.page][W.pos].gen < from[Writer]
      BY <1>1, <2>1, <2>2, <1>4, Types, WriterThere DEF IInv, GenInv, Inv1, W, Coming, Seeking
    <3>9. mem[W.page][W.pos].gen \in Nat /\ from[Writer] \in Nat
      BY <2>2, <1>4, Types, WriterThere DEF IInv, TypeOK, Inv1, W
    <3> QED BY <3>7, <3>8, <3>9
  <2>5. Newest(W.page)' /\ W.pos = End(W.page)'
    BY <1>1, <1>4, <2>2, <2>3, <2>4, Shape DEF End
  <2>6. WriterInv'
    BY <1>1, <1>2, <2>1, <2>2, <2>4, <2>5 DEF WriterInv, Writing, Seeking
  <2>7. GenInv'
    BY <1>1, <1>2, <2>1 DEF IInv, GenInv, Coming, Seeking
  <2> QED BY <2>6, <2>7
<1>9. /\ \A q \in Procs \ {p} : /\ pc'[q] = pc[q] /\ cur'[q] = cur[q]
                                /\ seen'[q] = seen[q] /\ from'[q] = from[q]
      /\ \A r \in Readers \ {p} : first'[r] = first[r] /\ got'[r] = got[r]
  BY <1>1, <1>2
<1> QED BY <1>1, <1>2, <1>3, <1>6, <1>7, <1>8, <1>9, CursorStep DEF Writing

\* Journal::next on a frame with data: the cursor passes the next frame of the log.
LEMMA NextPasses ==
  ASSUME IInv, NEW p \in Procs, AtFrame(p), HasData(Frame(p)), JournalNext(p),
         UNCHANGED <<mem, log, base>>
  PROVE  /\ lastpos' = lastpos /\ listed' = listed
         /\ cur' \in [Procs -> [page : Pages, pos : First .. Border - 1]]
         /\ seen' \in [Procs -> Nat] /\ seen'[p] = seen[p] + 1
         /\ cur'[p].page = cur[p].page /\ AtFrame(p)'
         /\ \A q \in Procs \ {p} : cur'[q] = cur[q] /\ seen'[q] = seen[q]
         /\ seen[p] + 1 \in 1 .. Len(log)
         /\ [gen |-> Frame(p).gen, body |-> Frame(p).body] = Entry(log[seen[p] + 1])
<1> SUFFICES ASSUME NEW q, NEW n, q = cur[p].page, n = seen[p]
             PROVE  /\ lastpos' = lastpos /\ listed' = listed
                    /\ cur' \in [Procs -> [page : Pages, pos : First .. Border - 1]]
                    /\ seen' \in [Procs -> Nat] /\ seen'[p] = n + 1
                    /\ cur'[p].page = q /\ AtFrame(p)'
                    /\ \A k \in Procs \ {p} : cur'[k] = cur[k] /\ seen'[k] = seen[k]
                    /\ n + 1 \in 1 .. Len(log)
                    /\ [gen |-> Frame(p).gen, body |-> Frame(p).body] = Entry(log[n + 1])
  OBVIOUS
<1>1. /\ Inv1 /\ cur \in [Procs -> [page : Pages, pos : First .. Border - 1]]
      /\ seen \in [Procs -> Nat]
  BY DEF IInv, Inv1, TypeOK
<1>2. /\ q \in Files /\ q \in Pages /\ n \in Nat /\ base[q] \in Nat /\ Top(q) \in Nat
      /\ cur[p] = [page |-> q, pos |-> PlaceAfter(q, n)]
      /\ base[q] <= n /\ n <= Top(q)
  <2>1. /\ cur[p].page \in Files /\ cur[p].pos = PlaceAfter(cur[p].page, seen[p])
        /\ base[cur[p].page] <= seen[p] /\ seen[p] <= Top(cur[p].page)
    BY DEF AtFrame
  <2> QED BY <2>1, <1>1, Types DEF Inv1
<1>3. n \in base[q] .. Top(q) /\ HasData(mem[q][PlaceAfter(q, n)])
  BY <1>2 DEF Frame
<1>4. /\ n + 1 \in 1 .. Len(log) /\ n + 1 <= Top(q)
      /\ Frame(p) = [len |-> log[n + 1].len, tag |-> Data,
                     gen |-> log[n + 1].gen, body |-> log[n + 1].body]
      /\ PlaceAfter(q, n + 1) = PlaceAfter(q, n) + log[n + 1].len
      /\ First <= PlaceAfter(q, n + 1) /\ PlaceAfter(q, n + 1) < Border
  BY <1>1, <1>2, <1>3, NextFrame DEF Inv1, Frame
<1>5. Frame(p).tag # PageEnd /\ Frame(p).len = log[n + 1].len
  BY <1>4 DEF Data, PageEnd
<1>6. /\ cur' = [cur EXCEPT ![p].pos = @ + Frame(p).len]
      /\ seen' = [seen EXCEPT ![p] = @ + 1] /\ lastpos' = lastpos /\ listed' = listed
  BY <1>5 DEF JournalNext, MoveToNext
<1>7. cur' = [cur EXCEPT ![p] = [page |-> q, pos |-> PlaceAfter(q, n + 1)]]
  <2>1. cur' = [cur EXCEPT ![p] = [cur[p] EXCEPT !.pos = @ + log[n + 1].len]]
    BY <1>5, <1>6
  <2>2. [cur[p] EXCEPT !.pos = @ + log[n + 1].len] = [page |-> q, pos |-> PlaceAfter(q, n + 1)]
    BY <1>2, <1>4
  <2> QED BY <2>1, <2>2
<1>8. PlaceAfter(q, n + 1) \in First .. Border - 1
  <2>1. n + 1 # base[q] /\ n + 1 \in base[q] .. Top(q)
    BY <1>2, <1>4
  <2>2. PlaceAfter(q, n + 1) \in Int
    BY <2>1, <1>1, <1>2, PlaceType DEF Inv1
  <2> QED BY <2>2, <1>4, Sizes DEF First
<1>9. /\ cur' \in [Procs -> [page : Pages, pos : First .. Border - 1]]
      /\ cur'[p] = [page |-> q, pos |-> PlaceAfter(q, n + 1)]
      /\ \A k \in Procs \ {p} : cur'[k] = cur[k]
  BY <1>1, <1>2, <1>7, <1>8
<1>10. /\ seen' \in [Procs -> Nat] /\ seen'[p] = n + 1
       /\ \A k \in Procs \ {p} : seen'[k] = seen[k]
  <2>1. seen[p] + 1 \in Nat
    BY <1>1
  <2> QED BY <2>1, <1>1, <1>6
<1>11. Files' = Files
  BY <1>6 DEF Files
<1>12. AtFrame(p)'
  <2>1. Top(q)' = Top(q) /\ PlaceAfter(q, n + 1)' = PlaceAfter(q, n + 1) /\ base[q] <= n + 1
    BY <1>2, <1>11, Shape
  <2> QED BY <2>1, <1>2, <1>4, <1>9, <1>10, <1>11 DEF AtFrame
<1>13. [gen |-> Frame(p).gen, body |-> Frame(p).body] = Entry(log[n + 1])
  BY <1>4 DEF Entry
<1> QED BY <1>4, <1>6, <1>9, <1>10, <1>12, <1>13

\* SeekFrame keeps the invariant.
LEMMA SeekFrameStep ==
  ASSUME IInv, NEW p \in Procs, SeekFrame(p)
  PROVE  IInv'
<1>1. /\ pc[p] = "seekFrame" /\ HasData(Frame(p)) /\ JournalNext(p)
      /\ UNCHANGED <<mem, clock, pc, from, req, crashes, log, base, first, got>>
  BY DEF SeekFrame, IsPassed
<1>2. AtFrame(p)
  BY <1>1 DEF IInv, CursorInv, CursorOK, Seeking
<1>3. /\ lastpos' = lastpos /\ listed' = listed
      /\ cur' \in [Procs -> [page : Pages, pos : First .. Border - 1]]
      /\ seen' \in [Procs -> Nat]
      /\ cur'[p].page = cur[p].page /\ AtFrame(p)'
      /\ \A q \in Procs \ {p} : cur'[q] = cur[q] /\ seen'[q] = seen[q]
  BY <1>1, <1>2, NextPasses
<1>4. TypeOK'
  BY <1>1, <1>3 DEF IInv, TypeOK
<1>5. CursorOK(p)'
  BY <1>1, <1>3 DEF CursorOK
<1>6. p \in Readers => ReaderOK(p)'
  BY <1>1 DEF IInv, ReaderInv, ReaderOK, Coming, Seeking, Entry
<1>7. p = Writer => WriterInv' /\ GenInv'
  <2>1. SUFFICES ASSUME p = Writer PROVE WriterInv' /\ GenInv'
    OBVIOUS
  <2>2. Newest(W.page) /\ W'.page = W.page
    BY <1>1, <1>3, <2>1 DEF IInv, WriterInv, Seeking, W
  <2>3. Newest(W.page)'
    BY <1>3, <2>2 DEF Newest, Files
  <2> QED BY <1>1, <2>1, <2>3 DEF IInv, WriterInv, GenInv, Writing, Coming, Seeking
<1> QED BY <1>1, <1>3, <1>4, <1>5, <1>6, <1>7, CursorStep DEF Writing

\* Deliver keeps the invariant.
LEMMA DeliverStep ==
  ASSUME IInv, NEW r \in Readers, Deliver(r)
  PROVE  IInv'
<1>1. /\ pc[r] = "ready" /\ HasData(Frame(r)) /\ JournalNext(r) /\ r \in Procs /\ r # Writer
      /\ got' = [got EXCEPT ![r] = Append(@, [gen |-> Frame(r).gen, body |-> Frame(r).body])]
      /\ UNCHANGED <<mem, clock, pc, from, req, crashes, log, base, first>>
  BY WriterThere DEF Deliver
<1>2. AtFrame(r) /\ ReaderOK(r)
  BY <1>1 DEF IInv, CursorInv, CursorOK, ReaderInv
<1>3. /\ lastpos' = lastpos /\ listed' = listed
      /\ cur' \in [Procs -> [page : Pages, pos : First .. Border - 1]]
      /\ seen' \in [Procs -> Nat] /\ seen'[r] = seen[r] + 1
      /\ cur'[r].page = cur[r].page /\ AtFrame(r)'
      /\ \A q \in Procs \ {r} : cur'[q] = cur[q] /\ seen'[q] = seen[q]
      /\ seen[r] + 1 \in 1 .. Len(log)
      /\ [gen |-> Frame(r).gen, body |-> Frame(r).body] = Entry(log[seen[r] + 1])
  BY <1>1, <1>2, NextPasses
<1>4. /\ got \in [Readers -> Seq([gen : Nat, body : Bodies \cup {NoBody}])]
      /\ first \in [Readers -> Nat] /\ seen \in [Procs -> Nat]
  BY DEF IInv, TypeOK
<1>5. Entry(log[seen[r] + 1]) \in [gen : Nat, body : Bodies \cup {NoBody}]
  BY <1>3, Types DEF IInv, Entry
<1> DEFINE new == Append(got[r], Entry(log[seen[r] + 1]))
<1>6. /\ got' = [got EXCEPT ![r] = new] /\ got'[r] = new
      /\ new \in Seq([gen : Nat, body : Bodies \cup {NoBody}])
      /\ Len(got[r]) \in Nat /\ Len(new) = Len(got[r]) + 1
      /\ \A i \in 1 .. Len(got[r]) : new[i] = got[r][i]
      /\ new[Len(got[r]) + 1] = Entry(log[seen[r] + 1])
  <2> DEFINE E == [gen : Nat, body : Bodies \cup {NoBody}]
             x == Entry(log[seen[r] + 1])
  <2>1. got[r] \in Seq(E) /\ x \in E
    BY <1>4, <1>5
  <2>2. got' = [got EXCEPT ![r] = new]
    BY <1>1, <1>3
  <2>3. got'[r] = new
    BY <2>2, <1>4
  <2> HIDE DEF E, x
  <2>4. /\ Append(got[r], x) \in Seq(E)
        /\ Len(got[r]) \in Nat /\ Len(Append(got[r], x)) = Len(got[r]) + 1
        /\ \A i \in 1 .. Len(got[r]) : Append(got[r], x)[i] = got[r][i]
        /\ Append(got[r], x)[Len(got[r]) + 1] = x
    BY <2>1
  <2> QED BY <2>2, <2>3, <2>4 DEF E, x
<1>7. /\ got' \in [Readers -> Seq([gen : Nat, body : Bodies \cup {NoBody}])]
      /\ \A q \in Readers \ {r} : got'[q] = got[q]
  BY <1>4, <1>6
<1>8. TypeOK'
  BY <1>1, <1>3, <1>7 DEF IInv, TypeOK
<1>9. CursorOK(r)'
  BY <1>1, <1>3 DEF CursorOK
<1>10. ReaderOK(r)'
  <2>1. /\ first[r] > 0 /\ seen[r] = first[r] - 1 + Len(got[r])
        /\ \A i \in 1 .. Len(got[r]) : got[r][i] = Entry(log[first[r] + i - 1])
    BY <1>1, <1>2 DEF ReaderOK
  <2>2. seen[r] + 1 = first[r] + (Len(got[r]) + 1) - 1
    BY <2>1, <1>4, <1>6
  <2>3. \A i \in 1 .. Len(got[r]) + 1 : new[i] = Entry(log[first[r] + i - 1])
    <3>1. SUFFICES ASSUME NEW i \in 1 .. Len(got[r]) + 1
                   PROVE  new[i] = Entry(log[first[r] + i - 1])
      OBVIOUS
    <3>2. CASE i = Len(got[r]) + 1
      BY <3>2, <2>2, <1>6
    <3>3. CASE i \in 1 .. Len(got[r])
      BY <3>3, <2>1, <1>6
    <3> QED BY <3>1, <3>2, <3>3, <1>6
  <2>4. seen'[r] = first[r] - 1 + Len(new)
    <3> HIDE DEF new
    <3>1. seen[r] \in Nat /\ first[r] \in Nat
      BY <1>1, <1>4
    <3>2. Len(new) = Len(got[r]) + 1 /\ Len(got[r]) \in Nat
      BY <1>6
    <3>3. seen'[r] = seen[r] + 1
      BY <1>3
    <3> QED BY <3>1, <3>2, <3>3, <2>1
  <2> HIDE DEF new
  <2> QED BY <2>1, <2>3, <2>4, <1>1, <1>6 DEF ReaderOK, Entry
<1> QED BY <1>1, <1>3, <1>7, <1>8, <1>9, <1>10, CursorStep

\* SeekPage keeps the invariant.
LEMMA SeekPageStep ==
  ASSUME IInv, NEW p \in Procs, SeekPage(p)
  PROVE  IInv'
<1> SUFFICES ASSUME NEW q, q = cur[p].page PROVE IInv'
  OBVIOUS
<1>1. /\ pc[p] = "seekPage" /\ Inv1 /\ LastInv /\ pc \in [Procs -> PCs]
      /\ cur \in [Procs -> [page : Pages, pos : First .. Border - 1]] /\ seen \in [Procs -> Nat]
      /\ UNCHANGED <<mem, clock, from, req, crashes, log, base, first, got>>
  BY DEF SeekPage, IInv, Inv1, TypeOK
<1>2. /\ AtFrame(p) /\ q \in Files /\ q \in Pages
      /\ p = Writer => Newest(q)
  BY <1>1, Types DEF IInv, CursorInv, CursorOK, Seeking, AtFrame, Inv1, WriterInv, W
<1>3. CASE IsFull(q) /\ EndTime(q) <= from[p]
  <2>1. q + 1 \in Files /\ q + 1 \in Pages /\ p # Writer
    BY <1>1, <1>2, <1>3, FullIsClosed DEF Inv1, Newest, Files
  <2>2. LoadPage(p, q + 1) /\ pc' = pc
    BY <1>3 DEF SeekPage
  <2>3. lastpos' = lastpos /\ listed' = listed \cup {q + 1}
    BY <2>1, <2>2 DEF LoadPage, Files
  <2>4. /\ cur' = [cur EXCEPT ![p] = [page |-> q + 1, pos |-> First]]
        /\ seen' = [seen EXCEPT ![p] = base[q + 1]]
    BY <2>2 DEF LoadPage
  <2>5. base[q + 1] \in Nat /\ Top(q + 1) \in Nat /\ base[q + 1] <= Top(q + 1)
    BY <2>1, <1>1, Types DEF Inv1, FilesInv
  <2>6. /\ cur'[p] = [page |-> q + 1, pos |-> First] /\ seen'[p] = base[q + 1]
        /\ cur' \in [Procs -> [page : Pages, pos : First .. Border - 1]]
        /\ seen' \in [Procs -> Nat]
        /\ \A k \in Procs \ {p} : cur'[k] = cur[k] /\ seen'[k] = seen[k]
    <3>1. First \in First .. Border - 1
      BY Sizes DEF First
    <3> QED BY <3>1, <1>1, <2>1, <2>4, <2>5
  <2>7. TypeOK'
    BY <1>1, <2>1, <2>2, <2>3, <2>6 DEF IInv, TypeOK
  <2>8. CursorOK(p)'
    <3>1. Files' = Files
      BY <2>3 DEF Files
    <3>2. Top(q + 1)' = Top(q + 1) /\ PlaceAfter(q + 1, base[q + 1])' = First
      BY <1>1, <3>1, Shape DEF PlaceAfter
    <3> QED BY <1>1, <2>1, <2>2, <2>5, <2>6, <3>1, <3>2 DEF CursorOK, AtFrame
  <2>9. p \in Readers => ReaderOK(p)'
    BY <1>1, <2>2 DEF IInv, ReaderInv, ReaderOK, Coming, Seeking, Entry
  <2> QED BY <1>1, <2>1, <2>2, <2>3, <2>6, <2>7, <2>8, <2>9, CursorStep
<1>4. CASE ~ (IsFull(q) /\ EndTime(q) <= from[p])
  <2>1. pc' = [pc EXCEPT ![p] = "seekFrame"] /\ UNCHANGED <<lastpos, listed, cur, seen>>
    BY <1>4 DEF SeekPage, Goto
  <2>2. pc'[p] = "seekFrame" /\ \A k \in Procs \ {p} : pc'[k] = pc[k]
    BY <1>1, <2>1
  <2>3. TypeOK'
    <3>1. pc' \in [Procs -> PCs]
      BY <1>1, <2>1 DEF PCs
    <3> QED BY <3>1, <1>1, <2>1 DEF IInv, TypeOK
  <2>4. Files' = Files
    BY <2>1 DEF Files
  <2>5. CursorOK(p)'
    BY <1>1, <1>2, <2>1, <2>2, <2>4, Shape DEF CursorOK, AtFrame
  <2>6. p \in Readers => ReaderOK(p)'
    BY <1>1, <2>2 DEF IInv, ReaderInv, ReaderOK, Coming, Seeking, Entry
  <2>7. p = Writer => WriterInv' /\ GenInv'
    <3>1. SUFFICES ASSUME p = Writer PROVE WriterInv' /\ GenInv'
      OBVIOUS
    <3>2. Newest(W.page)'
      BY <3>1, <1>2, <2>1, <2>4 DEF Newest, W
    <3> QED BY <3>1, <3>2, <1>1, <2>2 DEF IInv, WriterInv, GenInv, Writing, Coming, Seeking
  <2> QED BY <1>1, <2>1, <2>2, <2>3, <2>5, <2>6, <2>7, CursorStep DEF Writing
<1> QED BY <1>3, <1>4

\* A process that loads the page it found: the writer has found the newest.
LEMMA SeekLoadStep ==
  ASSUME IInv, NEW p \in Procs, pc[p] \in Coming, NEW q \in Pages, LoadPage(p, q),
         Goto(p, "seekPage"),
         UNCHANGED <<mem, clock, from, req, crashes, log, base, first, got>>,
         q \notin Files => q = 1,
         p = Writer => \A k \in Files : k <= q
  PROVE  IInv'
<1>1. LoadPage(p, q)
  OBVIOUS
<1>2. /\ pc[p] \in Coming /\ Inv1 /\ pc \in [Procs -> PCs] /\ from \in [Procs -> Nat]
      /\ cur \in [Procs -> [page : Pages, pos : First .. Border - 1]] /\ seen \in [Procs -> Nat]
      /\ lastpos \in [Pages -> 0 .. PageSize] /\ base \in [Pages -> Nat]
      /\ listed \in SUBSET Pages
      /\ pc' = [pc EXCEPT ![p] = "seekPage"]
      /\ UNCHANGED <<mem, clock, from, req, crashes, log, base, first, got>>
  BY DEF Goto, IInv, Inv1, TypeOK
<1>3. /\ cur' = [cur EXCEPT ![p] = [page |-> q, pos |-> First]]
      /\ seen' = [seen EXCEPT ![p] = base[q]]
      /\ lastpos' = IF lastpos[q] = 0 THEN [lastpos EXCEPT ![q] = First] ELSE lastpos
      /\ listed' = listed \cup {q}
  BY <1>1 DEF LoadPage
<1>4. /\ pc'[p] = "seekPage" /\ cur'[p] = [page |-> q, pos |-> First] /\ seen'[p] = base[q]
      /\ \A k \in Procs \ {p} : pc'[k] = pc[k] /\ cur'[k] = cur[k] /\ seen'[k] = seen[k]
  BY <1>2, <1>3
<1>5. TypeOK'
  <2>1. First \in First .. Border - 1 /\ First \in 0 .. PageSize
    BY Sizes DEF First, Places
  <2>2. cur' \in [Procs -> [page : Pages, pos : First .. Border - 1]]
    BY <2>1, <1>2, <1>3
  <2>3. lastpos' \in [Pages -> 0 .. PageSize]
    BY <2>1, <1>2, <1>3
  <2>4. seen' \in [Procs -> Nat] /\ pc' \in [Procs -> PCs]
    BY <1>2, <1>3 DEF PCs
  <2> QED BY <1>2, <1>3, <2>2, <2>3, <2>4 DEF IInv, TypeOK
<1>6. p \in Readers => ReaderOK(p)'
  BY <1>2, <1>4 DEF IInv, ReaderInv, ReaderOK, Coming, Seeking, Entry
<1>7. p = Writer => GenInv'
  BY <1>2, <1>4 DEF IInv, GenInv, Coming, Seeking
<1>8. /\ \A k \in Procs \ {p} : /\ pc'[k] = pc[k] /\ cur'[k] = cur[k]
                                /\ seen'[k] = seen[k] /\ from'[k] = from[k]
      /\ \A r \in Readers \ {p} : first'[r] = first[r] /\ got'[r] = got[r]
  BY <1>2, <1>4
<1>9. CASE q \in Files
  <2>1. lastpos' = lastpos /\ Files' = Files
    BY <1>3, <1>9 DEF Files
  <2>2. CursorOK(p)'
    <3>1. base[q] <= Top(q)' /\ PlaceAfter(q, base[q])' = First
      BY <1>2, <1>9, <2>1, Shape DEF PlaceAfter, Inv1, FilesInv
    <3>2. base[q] <= base[q]
      BY <1>2
    <3> QED BY <1>2, <1>4, <1>9, <2>1, <3>1, <3>2 DEF CursorOK, AtFrame
  <2>3. p = Writer => WriterInv'
    <3>1. SUFFICES ASSUME p = Writer PROVE WriterInv'
      OBVIOUS
    <3>5. q + 1 \notin Files
      <4>1. SUFFICES ASSUME q + 1 \in Files PROVE FALSE
        OBVIOUS
      <4> QED BY <4>1, <3>1 DEF Pages
    <3>6. Newest(W.page)' /\ pc'[Writer] = "seekPage"
      BY <1>4, <1>9, <2>1, <3>1, <3>5 DEF Newest, W
    <3> QED BY <3>6 DEF WriterInv, Writing, Seeking
  <2> QED BY <1>2, <1>4, <1>5, <1>3, <1>6, <1>7, <1>8, <2>1, <2>2, <2>3, CursorStep DEF Writing, Coming
<1>10. CASE q \notin Files
  <2>1. q = 1 /\ Files = {}
    <3>1. q = 1
      BY <1>10
    <3>2. \A k \in Files : k \in Pages /\ (k = 1 \/ 1 < k)
      BY DEF Files, Pages
    <3> QED BY <3>1, <3>2, <1>1, <1>2, <1>10 DEF Inv1, FilesInv
  <2>2. Len(log) = 0
    <3>1. Len(log) \in Nat /\ \A i \in 1 .. Len(log) : FALSE
      BY <2>1, <1>2, Types DEF Inv1, LogInv
    <3>2. Len(log) # 0 => 1 \in 1 .. Len(log)
      BY <3>1
    <3> QED BY <3>1, <3>2
  <2>3. lastpos' = [lastpos EXCEPT ![1] = First] /\ Files' = {1} /\ lastpos'[1] = First
    BY <2>1, <1>1, <1>2, <1>3 DEF Files, First
  <2>4. Top(1)' = 0 /\ base[1] = 0 /\ Newest(1)' /\ End(1)' = First /\ LastFrame(1)' = First
    <3>1. base[1] = 0
      BY <1>2 DEF Inv1, FilesInv
    <3>2. Top(1)' = 0 /\ Newest(1)'
      BY <2>2, <2>3, <1>2 DEF Top, Newest
    <3> QED BY <3>1, <3>2, <1>2 DEF End, PlaceAfter, LastFrame
  <2>5. mem[1][First].len = 0
    BY <1>1, <2>1, <1>2 DEF Inv1, FilesInv
  <2>6. FilesInv'
    <3>1. \A k \in Pages : ~ (k < 1)
      BY DEF Pages
    <3>2. \A k \in Pages : mem[k][First].len = 0
      BY <1>2, <2>1 DEF Inv1, FilesInv
    <3>3. \A k \in Files' : base[k] <= Top(k)' /\ Top(k)' <= Len(log)
      BY <2>2, <2>3, <2>4
    <3> QED BY <3>1, <3>2, <3>3, <1>2, <2>3, <2>4 DEF FilesInv
  <2>7. LogInv' /\ PagesInv'
    <3>1. LogInv'
      BY <1>2, <2>2 DEF LogInv
    <3>2. PagesInv'
      BY <1>2, <2>3, <2>4 DEF PagesInv
    <3> QED BY <3>1, <3>2
  <2>8. EndInv' /\ LastInv'
    <3>1. First <= First /\ First < Border /\ First + 0 <= First
      BY Sizes DEF First
    <3>2. EndInv'
      BY <3>1, <1>2, <2>3, <2>4, <2>5 DEF EndInv
    <3> QED BY <3>1, <3>2, <1>2, <2>3, <2>4, <2>5 DEF LastInv
  <2>9. pc[Writer] \notin Seeking \cup Writing \cup {"ready", "making", "published"}
    BY <2>1 DEF IInv, WriterInv, Newest
  <2>10. CursorInv'
    <3>1. ASSUME NEW k \in Procs, k # p PROVE CursorOK(k)'
      BY <3>1, <1>4, <2>1 DEF CursorOK, AtFrame, IInv, CursorInv
    <3>2. CursorOK(p)'
      BY <1>2, <1>4, <2>1, <2>3, <2>4 DEF CursorOK, AtFrame, PlaceAfter
    <3> QED BY <3>1, <3>2 DEF CursorInv
  <2>11. ReaderInv'
    <3>1. ASSUME NEW r \in Readers, r # p PROVE ReaderOK(r)'
      <4>1. ReaderOK(r)
        BY DEF IInv, ReaderInv
      <4>2. pc'[r] = pc[r] /\ seen'[r] = seen[r] /\ first' = first /\ got' = got /\ log' = log
        BY <3>1, <1>2, <1>4, WriterThere
      <4> QED BY <4>1, <4>2 DEF ReaderOK, Entry
    <3> QED BY <3>1, <1>6 DEF ReaderInv
  <2>12. WriterInv' /\ GenInv'
    <3>1. CASE p = Writer
      <4>1. Newest(W.page)' /\ pc'[Writer] = "seekPage"
        BY <3>1, <1>4, <2>1, <2>4 DEF W
      <4> QED BY <3>1, <4>1, <1>7 DEF WriterInv, Writing, Seeking
    <3>2. CASE p # Writer
      <4>1. pc'[Writer] = pc[Writer]
        BY <3>2, <1>4, WriterThere
      <4>2. WriterInv'
        BY <4>1, <2>9 DEF WriterInv, Writing
      <4> QED BY <4>1, <4>2, <1>2 DEF IInv, GenInv
    <3> QED BY <3>1, <3>2
  <2>13. ListedInv'
    BY <2>1, <2>3, <1>3 DEF IInv, ListedInv
  <2> QED BY <1>5, <2>6, <2>7, <2>8, <2>10, <2>11, <2>12, <2>13 DEF IInv
<1> QED BY <1>9, <1>10


\* find_page_id takes the writer to the newest page.
LEMMA SeekFindStep ==
  ASSUME IInv, NEW p \in Procs, SeekFind(p)
  PROVE  IInv'
<1>1. PICK q \in Pages : FoundPage(q, from[p]) /\ LoadPage(p, q)
  BY DEF SeekFind
<1>2. /\ pc[p] \in Coming /\ Inv1 /\ from \in [Procs -> Nat] /\ Goto(p, "seekPage")
      /\ UNCHANGED <<mem, clock, from, req, crashes, log, base, first, got>>
  BY DEF SeekFind, IInv, Inv1, TypeOK, Coming
<1>3. q \notin Files => q = 1
  BY <1>1 DEF FoundPage
<1>4. ASSUME p = Writer, NEW k \in Files PROVE k <= q
  <2>1. \A j \in Files : BeginTime(j) < from[p]
    <3>1. \A j \in Files : mem[j][First].gen < from[Writer]
      BY <1>2, <1>4, Sizes DEF IInv, GenInv, Files
    <3> QED BY <3>1, <1>4 DEF BeginTime
  <2>2. from[p] # 0
    <3>1. BeginTime(k) \in Nat /\ BeginTime(k) < from[p] /\ from[p] \in Nat
      BY <1>2, <1>4, <2>1, Types, Sizes DEF BeginTime, Inv1
    <3> QED BY <3>1
  <2> QED BY <1>1, <1>4, <2>1, <2>2 DEF FoundPage
<1> QED BY <1>1, <1>2, <1>3, <1>4, SeekLoadStep

\* Where no page file was listed, page 1 is loaded; it is still the only one when
\* the process that loads it is the writer.
LEMMA LoadFirstStep ==
  ASSUME IInv, NEW p \in Procs, LoadFirst(p)
  PROVE  IInv'
<1>1. /\ pc[p] \in Coming /\ LoadPage(p, 1) /\ Goto(p, "seekPage")
      /\ UNCHANGED <<mem, clock, from, req, crashes, log, base, first, got>>
      /\ 1 \in Pages
  BY Sizes DEF LoadFirst, Coming
<1>2. p = Writer => \A k \in Files : k <= 1
  BY DEF LoadFirst, IInv, ListedInv
<1> QED BY <1>1, <1>2, SeekLoadStep

\* Before a process has its page, a step of its code that moves no cursor.
LEMMA ComingStep ==
  ASSUME IInv, NEW p \in Procs, pc[p] \in Coming, NEW at \in {"none", "made", "faulted"},
         Goto(p, at), listed \subseteq listed', listed' \subseteq Pages,
         UNCHANGED <<mem, lastpos, clock, cur, from, req, crashes, log, base, seen, first, got>>,
         p = Writer /\ at # "faulted" => Files \subseteq {1}
  PROVE  IInv'
<1>1. /\ pc \in [Procs -> PCs] /\ pc' = [pc EXCEPT ![p] = at]
      /\ pc'[p] = at /\ \A q \in Procs \ {p} : pc'[q] = pc[q]
  BY DEF Goto, IInv, TypeOK
<1>2. TypeOK'
  BY <1>1 DEF IInv, TypeOK, PCs
<1>3. CursorOK(p)'
  BY <1>1 DEF CursorOK, Seeking
<1>4. p \in Readers => ReaderOK(p)'
  BY <1>1 DEF IInv, ReaderInv, ReaderOK, Coming, Seeking, Entry
<1>5. p = Writer => WriterInv' /\ GenInv'
  <2>1. p = Writer => WriterInv'
    BY <1>1 DEF WriterInv, Writing, Seeking
  <2>2. p = Writer => GenInv'
    BY <1>1 DEF IInv, GenInv, Coming, Seeking
  <2> QED BY <2>1, <2>2
<1>6. p = Writer => pc[p] \notin Writing \cup {"published"} /\ at \notin Writing \cup {"published"}
  BY DEF Coming, Writing
<1> QED BY <1>1, <1>2, <1>3, <1>4, <1>5, <1>6, CursorStep

\* SeekFault, SeekNone and MakeFirst keep the invariant.
LEMMA LookStep ==
  ASSUME IInv, NEW p \in Procs, SeekFault(p) \/ SeekNone(p) \/ MakeFirst(p)
  PROVE  IInv'
<1>1. listed \in SUBSET Pages /\ 1 \in Pages
  BY Sizes DEF IInv, TypeOK
<1>2. CASE SeekFault(p)
  BY <1>1, <1>2, ComingStep DEF SeekFault, Coming
<1>3. CASE SeekNone(p)
  BY <1>1, <1>3, ComingStep DEF SeekNone, Coming, IInv, ListedInv
<1>4. CASE MakeFirst(p)
  BY <1>1, <1>4, ComingStep DEF MakeFirst, Coming, IInv, ListedInv
<1> QED BY <1>2, <1>3, <1>4

----------------------------------------------------------------------------
(* The theorems.                                                            *)

\* The invariant holds in the initial states.
LEMMA InitInv == Init => IInv
<1> SUFFICES ASSUME Init PROVE IInv
  OBVIOUS
<1>1. /\ mem = [q \in Pages |-> [u \in Places |-> Zeroed]]
      /\ lastpos = [q \in Pages |-> 0] /\ listed = {} /\ clock = 1
      /\ pc = [p \in Procs |-> "off"]
      /\ cur = [p \in Procs |-> [page |-> 1, pos |-> First]]
      /\ from = [p \in Procs |-> 0] /\ req = [body |-> NoBody, dlen |-> 0, gen |-> 0]
      /\ crashes = 0 /\ log = <<>> /\ base = [q \in Pages |-> 0]
      /\ seen = [p \in Procs |-> 0] /\ first = [r \in Readers |-> 0]
      /\ got = [r \in Readers |-> <<>>]
  BY DEF Init
<1>2. Zeroed \in Headers /\ Zeroed.len = 0 /\ Zeroed.gen = 0
  BY DEF Zeroed, Headers, PageEnd
<1>3. First \in First .. Border - 1 /\ 1 \in Pages /\ First \in Places
  BY Sizes DEF First
<1>4. TypeOK
  <2>1. /\ mem \in [Pages -> [Places -> Headers]] /\ lastpos \in [Pages -> 0 .. PageSize]
        /\ pc \in [Procs -> PCs]
        /\ cur \in [Procs -> [page : Pages, pos : First .. Border - 1]]
    BY <1>1, <1>2, <1>3, Sizes DEF PCs
  <2> QED BY <1>1, <2>1 DEF TypeOK
<1>5. Files = {} /\ Len(log) = 0
  BY <1>1 DEF Files
<1>6. pc[Writer] = "off" /\ \A p \in Procs : pc[p] = "off"
  BY <1>1, WriterThere
<1>7. FilesInv
  BY <1>1, <1>2, <1>3, <1>5 DEF FilesInv
<1>8. LogInv /\ PagesInv /\ EndInv /\ LastInv
  BY <1>5 DEF LogInv, PagesInv, EndInv, LastInv
<1>9. WriterInv
  BY <1>6 DEF WriterInv, Writing, Seeking
<1>10. GenInv
  <2>1. \A q \in Pages, u \in Places : mem[q][u].gen = 0
    BY <1>1, <1>2
  <2> QED BY <2>1, <1>1, <1>6, WriterThere DEF GenInv, Coming, Seeking
<1>11. CursorInv
  BY <1>6 DEF CursorInv, CursorOK, Seeking
<1>12. ReaderInv
  BY <1>1, <1>6, WriterThere DEF ReaderInv, ReaderOK
<1>13. ListedInv
  BY <1>5, <1>6 DEF ListedInv
<1> QED BY <1>4, <1>7, <1>8, <1>9, <1>10, <1>11, <1>12, <1>13 DEF IInv

\* Every step keeps the invariant: one lemma per action.
LEMMA NextInv ==
  ASSUME NoCrashAtPublished, IInv, [Next]_vars
  PROVE  IInv'
<1>1. CASE Tick
  BY <1>1, TickStep
<1>2. ASSUME NEW p \in Procs, Seek(p) PROVE IInv'
  BY <1>2, StartStep, LookStep, LoadFirstStep, SeekFindStep, SeekPageStep, SeekFrameStep,
     SeekDoneStep DEF Seek, SeekOn
<1>3. CASE Write
  BY <1>3, OpenFrameStep, MakePageStep, TurnPageStep, WritePageEndStep, OpenInNewPageStep,
     WriteDataStep, ZeroNextStep, StampFrameStep, PublishFrameStep, CloseFrameStep DEF Write
<1>4. CASE Crash
  BY <1>4, CrashStep
<1>5. ASSUME NEW r \in Readers, Deliver(r) PROVE IInv'
  BY <1>5, DeliverStep
<1>6. CASE UNCHANGED vars
  <2>1. UNCHANGED <<mem, lastpos, listed, clock, pc, cur, from, req, crashes, log, base, seen, first, got>>
    BY <1>6 DEF vars
  <2>2. Files' = Files /\ W' = W /\ Behind' = Behind
    BY <2>1 DEF Files, W, Behind
  <2>3. TypeOK'
    BY <2>1 DEF IInv, TypeOK
  <2>4. WriterInv' /\ GenInv'
    <3>1. (Newest(W.page)' <=> Newest(W.page)) /\ End(W.page)' = End(W.page)
      BY <2>1, <2>2, Shape
    <3> QED BY <2>1, <2>2, <3>1 DEF IInv, WriterInv, GenInv
  <2>5. FilesInv' /\ LogInv' /\ PagesInv' /\ EndInv'
    BY <2>1, <2>2, QuietStep DEF IInv, Inv1
  <2>6. LastInv'
    <3>1. \A k \in Files : Newest(k) => mem'[k][End(k)].len = 0
      BY <2>1 DEF IInv, EndInv
    <3> QED BY <2>1, <3>1, LastStep DEF IInv, Inv1
  <2>7. CursorInv' /\ ReaderInv'
    <3>1. CursorInv'
      BY <2>1, <2>2, Shape DEF IInv, CursorInv, CursorOK, AtFrame
    <3> QED BY <3>1, <2>1 DEF IInv, ReaderInv, ReaderOK, Coming, Seeking, Entry
  <2>8. ListedInv'
    BY <2>1, <2>2, ListedStays DEF IInv
  <2> QED BY <2>3, <2>4, <2>5, <2>6, <2>7, <2>8 DEF IInv
<1> QED BY <1>1, <1>2, <1>3, <1>4, <1>5, <1>6 DEF Next

\* The inductive invariant holds of every behaviour in which the writer does not
\* die between the store of the length and that of last_frame_position.
THEOREM Invariant ==
  ASSUME NoCrashAtPublished
  PROVE  Spec => []IInv
<1>1. Init => IInv
  BY InitInv
<1>2. IInv /\ [Next]_vars => IInv'
  BY NextInv
<1> QED BY <1>1, <1>2, PTL DEF Spec

\* Every variable keeps its type, and every cursor stays below address_border.
THEOREM TypeCorrect ==
  ASSUME NoCrashAtPublished
  PROVE  Spec => []TypeOK
<1>1. IInv => TypeOK
  BY DEF IInv
<1> QED BY <1>1, Invariant, PTL

\* A published frame is never overwritten.
THEOREM FramesStay ==
  ASSUME NoCrashAtPublished
  PROVE  Spec => []PublishedStays
<1>1. IInv => PublishedStays
  <2>1. SUFFICES ASSUME IInv, NEW i \in DOMAIN log
                 PROVE  mem[log[i].page][log[i].pos] = [len |-> log[i].len, tag |-> Data,
                                                       gen |-> log[i].gen, body |-> log[i].body]
    BY DEF PublishedStays
  <2>2. DOMAIN log = 1 .. Len(log)
    BY <2>1 DEF IInv, TypeOK
  <2> QED BY <2>1, <2>2, FramePlace DEF IInv
<1> QED BY <1>1, Invariant, PTL

\* A reader is handed whole frames, once and in the order they were published.
THEOREM Delivery ==
  ASSUME NoCrashAtPublished
  PROVE  Spec => []DeliveredInOrder
<1>1. IInv => DeliveredInOrder
  <2>1. SUFFICES ASSUME IInv, NEW r \in Readers, first[r] # 0
                 PROVE  /\ first[r] + Len(got[r]) <= Len(log) + 1
                        /\ \A i \in 1 .. Len(got[r]) : got[r][i] = Entry(log[first[r] + i - 1])
    BY DEF DeliveredInOrder
  <2>2. ReaderOK(r)
    BY <2>1 DEF IInv, ReaderInv
  <2> QED BY <2>1, <2>2, ReaderIndex DEF ReaderOK
<1> QED BY <1>1, Invariant, PTL

\* A writer that is ready stands behind the last frame, in the newest page.
THEOREM WriterResumes ==
  ASSUME NoCrashAtPublished
  PROVE  Spec => []WriterAtTheEnd
<1>1. IInv => WriterAtTheEnd
  <2>1. SUFFICES ASSUME IInv, pc[Writer] = "ready"
                 PROVE  (\A q \in Files : q <= W.page) /\ W.pos = PlaceAfter(W.page, Len(log))
    BY DEF WriterAtTheEnd
  <2>2. Newest(W.page) /\ W.page \in Files /\ W.pos = End(W.page)
    BY <2>1 DEF IInv, WriterInv, Newest
  <2>3. \A q \in Files : q <= W.page
    BY <2>1, <2>2, NewestIsLast DEF IInv
  <2>4. Top(W.page) = Len(log)
    BY <2>2 DEF Newest, Top
  <2> QED BY <2>2, <2>3, <2>4 DEF End
<1> QED BY <1>1, Invariant, PTL

----------------------------------------------------------------------------
(* The journal implements the log of module JournalLog.                     *)

\* What the log looks like to those who read it.
Published == [i \in 1 .. Len(log) |-> Entry(log[i])]

\* The abstract log, entry by entry.
LEMMA PublishedLen ==
  ASSUME TypeOK
  PROVE  Len(Published) = Len(log) /\ \A i \in 1 .. Len(log) : Published[i] = Entry(log[i])
BY DEF TypeOK, Published

\* PublishFrame appends one entry to the abstract log.
LEMMA AbstractPublish ==
  ASSUME IInv, IInv', PublishFrame
  PROVE  Abstract!Publish
<1> DEFINE e == [page |-> W.page, pos |-> W.pos, len |-> HeaderLen + req.dlen,
                 gen |-> req.gen, body |-> req.body]
           n == Len(log)
<1>1. log' = Append(log, e) /\ UNCHANGED <<first, got>>
  BY DEF PublishFrame
<1>2. pc[Writer] \in Writing
  BY DEF PublishFrame, Writing
<1>3. e \in Frames
  BY <1>2, InFrame, Sizes DEF Frames
<1>4. n \in Nat /\ log \in Seq(Frames)
  BY DEF IInv, TypeOK
<1>5. Len(log') = n + 1 /\ log'[n + 1] = e /\ \A i \in 1 .. n : log'[i] = log[i]
  BY <1>1, <1>3, <1>4
<1>6. TypeOK /\ TypeOK'
  BY DEF IInv
<1>7. /\ Len(Published) = n /\ \A i \in 1 .. n : Published[i] = Entry(log[i])
  BY <1>6, PublishedLen
<1>8. Len(Published)' = n + 1
  BY <1>5, <1>6 DEF TypeOK, Published
<1>9. \A i \in 1 .. n + 1 : Published'[i] = [gen |-> log'[i].gen, body |-> log'[i].body]
  BY <1>5 DEF Published, Entry
<1>10. \A i \in 1 .. n : Published'[i] = Published[i]
  <2>1. SUFFICES ASSUME NEW i \in 1 .. n PROVE Published'[i] = Published[i]
    OBVIOUS
  <2>2. i \in 1 .. n + 1
    BY <1>4
  <2>3. Published'[i] = [gen |-> log[i].gen, body |-> log[i].body]
    BY <2>2, <1>5, <1>9
  <2> QED BY <2>3, <1>7 DEF Entry
<1>11. Published'[n + 1] \in [gen : Nat, body : Bodies \cup {NoBody}]
  <2>1. n + 1 \in 1 .. n + 1
    BY <1>4
  <2>2. Published'[n + 1] = [gen |-> req.gen, body |-> req.body]
    BY <2>1, <1>5, <1>9
  <2> QED BY <2>2, <1>2, InFrame
<1> QED BY <1>1, <1>7, <1>8, <1>10, <1>11 DEF Abstract!Publish, Published

\* Deliver hands over the next entry of the abstract log.
LEMMA AbstractDeliver ==
  ASSUME IInv, NEW r \in Readers, Deliver(r)
  PROVE  Abstract!Deliver(r)
<1>1. /\ pc[r] = "ready" /\ HasData(Frame(r)) /\ JournalNext(r)
      /\ got' = [got EXCEPT ![r] = Append(@, [gen |-> Frame(r).gen, body |-> Frame(r).body])]
      /\ UNCHANGED <<mem, log, base, first>>
  BY DEF Deliver
<1>2. AtFrame(r) /\ ReaderOK(r) /\ r \in Procs
  BY <1>1, WriterThere DEF IInv, CursorInv, CursorOK, ReaderInv
<1>3. /\ seen[r] + 1 \in 1 .. Len(log)
      /\ [gen |-> Frame(r).gen, body |-> Frame(r).body] = Entry(log[seen[r] + 1])
  BY <1>1, <1>2, NextPasses
<1>4. first[r] > 0 /\ seen[r] = first[r] - 1 + Len(got[r])
  BY <1>1, <1>2 DEF ReaderOK
<1>5. first[r] \in Nat /\ Len(got[r]) \in Nat /\ Len(log) \in Nat
  BY ReaderIndex, Types DEF IInv
<1>6. first[r] + Len(got[r]) = seen[r] + 1 /\ first[r] # 0
  BY <1>4, <1>5
<1>7. /\ Len(Published) = Len(log)
      /\ Published[first[r] + Len(got[r])] = Entry(log[seen[r] + 1])
  BY <1>3, <1>6, PublishedLen DEF IInv
<1>8. first[r] + Len(got[r]) <= Len(Published)
  BY <1>3, <1>6, <1>7
<1>9. got' = [got EXCEPT ![r] = Append(@, Published[first[r] + Len(got[r])])]
  BY <1>1, <1>3, <1>7
<1>10. Published' = Published
  BY <1>1 DEF Published, Entry
<1> QED BY <1>1, <1>6, <1>8, <1>9, <1>10 DEF Abstract!Deliver, Published

\* SeekDone takes a place in the abstract log.
LEMMA AbstractJoin ==
  ASSUME IInv, NEW r \in Readers, SeekDone(r)
  PROVE  \E i \in 1 .. Len(Published) + 1 : Abstract!JoinAt(r, i)
<1>1. /\ pc[r] = "seekFrame" /\ r \in Procs
      /\ first' = [first EXCEPT ![r] = seen[r] + 1] /\ UNCHANGED <<log, got>>
  BY WriterThere DEF SeekDone
<1>2. first[r] = 0 /\ AtFrame(r)
  BY <1>1 DEF IInv, ReaderInv, ReaderOK, CursorInv, CursorOK, Seeking
<1>3. seen[r] <= Len(log) /\ seen[r] \in Nat /\ Len(log) \in Nat
  <2>1. /\ seen[r] \in Nat /\ Len(log) \in Nat /\ Top(cur[r].page) \in Nat
        /\ seen[r] <= Top(cur[r].page) /\ Top(cur[r].page) <= Len(log)
    BY <1>1, <1>2, Types DEF IInv, FilesInv, AtFrame
  <2> QED BY <2>1
<1>4. Len(Published) = Len(log)
  BY PublishedLen DEF IInv
<1>5. seen[r] + 1 \in 1 .. Len(Published) + 1
  BY <1>3, <1>4
<1>6. Published' = Published
  BY <1>1 DEF Published, Entry
<1>7. Abstract!JoinAt(r, seen[r] + 1)
  BY <1>1, <1>2, <1>6 DEF Abstract!JoinAt, Published
<1> QED BY <1>5, <1>7

\* Every step of Journal is a step of the abstract log or a stutter.
LEMMA AbstractNext ==
  ASSUME IInv, IInv', [Next]_vars
  PROVE  [Abstract!Next]_Abstract!vars
<1> DEFINE Stutter == UNCHANGED <<log, first, got>>
<1>1. ASSUME Stutter PROVE UNCHANGED Abstract!vars
  <2>1. Published' = Published
    BY <1>1 DEF Published, Entry
  <2> QED BY <1>1, <2>1 DEF Abstract!vars, Published
<1>2. CASE Tick \/ Crash \/ UNCHANGED vars
  BY <1>1, <1>2 DEF Tick, Crash, vars
<1>3. ASSUME NEW p \in Procs, Seek(p) PROVE [Abstract!Next]_Abstract!vars
  <2>1. CASE \/ Start(p) \/ SeekFault(p) \/ SeekNone(p) \/ MakeFirst(p) \/ LoadFirst(p)
             \/ SeekFind(p) \/ SeekPage(p) \/ SeekFrame(p)
    BY <1>1, <2>1 DEF Start, SeekFault, SeekNone, MakeFirst, LoadFirst, SeekFind, SeekPage,
                      SeekFrame
  <2>2. CASE SeekDone(p) /\ p \in Readers
    BY <2>2, AbstractJoin DEF Abstract!Next, Published
  <2>3. CASE SeekDone(p) /\ p \notin Readers
    BY <1>1, <2>3 DEF SeekDone
  <2> QED BY <1>3, <2>1, <2>2, <2>3 DEF Seek, SeekOn
<1>4. CASE Write
  <2>1. CASE PublishFrame
    BY <2>1, AbstractPublish DEF Abstract!Next
  <2>2. ASSUME NEW b \in Bodies, NEW d \in DataLens, OpenFrame(b, d) \/ MakePage(b, d)
        PROVE  [Abstract!Next]_Abstract!vars
    BY <1>1, <2>2 DEF OpenFrame, MakePage
  <2>3. CASE \/ TurnPage \/ WritePageEnd \/ OpenInNewPage
             \/ WriteData \/ ZeroNext \/ StampFrame \/ CloseFrame
    BY <1>1, <2>3 DEF TurnPage, WritePageEnd, OpenInNewPage, WriteData, ZeroNext, StampFrame, CloseFrame
  <2> QED BY <1>4, <2>1, <2>2, <2>3 DEF Write
<1>5. ASSUME NEW r \in Readers, Deliver(r) PROVE [Abstract!Next]_Abstract!vars
  BY <1>5, AbstractDeliver DEF Abstract!Next
<1> QED BY <1>2, <1>3, <1>4, <1>5 DEF Next

\* Whatever the writer is in the middle of, its readers see an append-only log.
THEOREM Refinement ==
  ASSUME NoCrashAtPublished
  PROVE  Spec => ImplementsLog
<1>1. Init => Abstract!Init
  <2>1. Init => [i \in 1 .. Len(log) |-> Entry(log[i])] = <<>>
    BY DEF Init
  <2> QED BY <2>1 DEF Init, Abstract!Init
<1>2. IInv /\ IInv' /\ [Next]_vars => [Abstract!Next]_Abstract!vars
  BY AbstractNext
<1> QED BY <1>1, <1>2, Invariant, PTL DEF Spec, Abstract!Spec, ImplementsLog
============================================================================
