-------------------------- MODULE EventLoopProofs --------------------------
(***************************************************************************)
(* Proofs about module EventLoop, for every set of journals and every bound:*)
(* the merge hands over the oldest frame of those sort() could see, and no  *)
(* wake-up is lost. The argument is the invariant of EventLoopInv: what the *)
(* reader may have missed since it began to sort is signalled, or will be.  *)
(***************************************************************************)
EXTENDS EventLoopInv, TLAPS

USE DEF None, Interrupt

----------------------------------------------------------------------------
(* The initial states. *)

\* The invariant holds before the process is constructed.
LEMMA InitKeeps == ASSUME Init PROVE IInv
<1>1. WritersTyped
  BY BoundsAreNatural DEF Init, WritersTyped, Gens
<1>2. LoopTyped
  <2>1. 0 \in Gens
    BY BoundsAreNatural DEF Gens
  <2> QED BY <2>1 DEF Init, LoopTyped, PCs
<1>3. CursorsTyped
  BY DEF Init, CursorsTyped, Nothing
<1>4. ClockInv
  BY DEF Init, ClockInv
<1>5. PlaceInv /\ PostInv /\ NewsInv
  BY DEF Init, PlaceInv, PostInv, NewsInv
<1>6. LookInv /\ TestInv /\ MergeOrder /\ NoWakeupLost
  BY DEF Init, LookInv, TestInv, MergeOrder, NoWakeupLost
<1>7. ReaderInv /\ StopInv
  BY DEF Init, ReaderInv, StopInv
<1> QED BY <1>1, <1>2, <1>3, <1>4, <1>5, <1>6, <1>7 DEF IInv, TypeOK

----------------------------------------------------------------------------
(* The steps. *)

\* A frame there is to read is a frame, and not of the future.
LEMMA Readable ==
  ASSUME IInv, NEW k \in Journals
  PROVE  /\ pos[k] \in Nat /\ snap[k] \in Nat /\ Len(log[k]) \in Nat
         /\ Offered(k) => HasData(k)
         /\ HasData(k) => /\ pos[k] + 1 \in 1 .. Len(log[k])
                          /\ Current(k) \in Frames /\ Current(k).gen \in Int
                          /\ Current(k).gen <= clock
<1>1. /\ log[k] \in Seq(Frames) /\ pos[k] \in Nat /\ snap[k] \in Nat /\ snap[k] <= Len(log[k])
  BY DEF IInv, TypeOK, WritersTyped, CursorsTyped
<1>2. Len(log[k]) \in Nat
  BY <1>1
<1>3. Offered(k) => HasData(k)
  BY DEF Offered
<1>4. ASSUME HasData(k)
      PROVE  /\ pos[k] + 1 \in 1 .. Len(log[k])
             /\ Current(k) \in Frames /\ Current(k).gen \in Int
             /\ Current(k).gen <= clock
  <2>1. pos[k] + 1 \in 1 .. Len(log[k])
    BY <1>1, <1>2, <1>4 DEF Offered, HasData, Current
  <2>2. Current(k) \in Frames
    BY <1>1, <2>1 DEF Current
  <2>3. Current(k).gen \in Int
    BY <2>2, BoundsAreNatural DEF Frames, Gens
  <2>4. Current(k).gen <= clock
    BY <2>1 DEF IInv, ClockInv, Current
  <2> QED BY <2>1, <2>2, <2>3, <2>4
<1> QED BY <1>1, <1>2, <1>3, <1>4

\* What is already published stays when another frame is.
LEMMA Appended ==
  ASSUME IInv, NEW j \in Journals, Publish(j)
  PROVE  /\ log' \in [Journals -> Seq(Frames)]
         /\ \A k \in Journals :
              /\ Len(log[k]) \in Nat /\ Len(log[k])' >= Len(log[k]) /\ owed[k]' >= owed[k]
              /\ \A i \in 1 .. Len(log[k]) : log[k][i]' = log[k][i]
              /\ HasData(k) => HasData(k)' /\ Current(k)' = Current(k)
              /\ Offered(k)' = Offered(k)
              /\ k # j => log[k]' = log[k]
         /\ owed[j]' > 0
<1>1. PICK f \in draft[j] : log' = [log EXCEPT ![j] = Append(@, f)]
  BY DEF Publish
<1>2. f \in Frames /\ log \in [Journals -> Seq(Frames)] /\ pos \in [Journals -> Nat]
      /\ owed \in [Journals -> Nat] /\ owed' = [owed EXCEPT ![j] = @ + 1] /\ pos' = pos /\ rpage' = rpage
  BY <1>1 DEF IInv, TypeOK, WritersTyped, CursorsTyped, Publish, loop
<1>3. /\ \A k \in Journals : log[k] \in Seq(Frames) /\ Len(log[k]) \in Nat /\ owed[k] \in Nat
      /\ log'[j] = Append(log[j], f) /\ \A k \in Journals \ {j} : log'[k] = log[k]
  BY <1>1, <1>2
<1>4. /\ Append(log[j], f) \in Seq(Frames) /\ Len(Append(log[j], f)) = Len(log[j]) + 1
      /\ \A i \in 1 .. Len(log[j]) : Append(log[j], f)[i] = log[j][i]
  BY <1>2, <1>3
<1>5. /\ log' \in [Journals -> Seq(Frames)]
  BY <1>1, <1>2, <1>3, <1>4
<1>6. \A k \in Journals :
        /\ Len(log[k])' >= Len(log[k]) /\ owed[k]' >= owed[k]
        /\ \A i \in 1 .. Len(log[k]) : log[k][i]' = log[k][i]
        /\ k # j => log[k]' = log[k]
  <2>1. SUFFICES ASSUME NEW k \in Journals
                 PROVE  /\ Len(log'[k]) >= Len(log[k]) /\ owed'[k] >= owed[k]
                        /\ \A i \in 1 .. Len(log[k]) : log'[k][i] = log[k][i]
                        /\ k # j => log'[k] = log[k]
    OBVIOUS
  <2>2. owed'[k] >= owed[k]
    BY <1>2, <1>3
  <2>3. CASE k = j
    BY <1>3, <1>4, <2>2, <2>3
  <2>4. CASE k # j
    BY <1>3, <2>2, <2>4
  <2> QED BY <2>3, <2>4
<1>7. \A k \in Journals : HasData(k) => HasData(k)' /\ Current(k)' = Current(k)
  <2>1. SUFFICES ASSUME NEW k \in Journals, HasData(k) PROVE HasData(k)' /\ Current(k)' = Current(k)
    OBVIOUS
  <2>2. pos[k] + 1 \in 1 .. Len(log[k])
    BY <2>1, <1>2, <1>3 DEF Offered, HasData, Current
  <2> QED BY <2>1, <2>2, <1>2, <1>3, <1>6 DEF Offered, HasData, Current
<1>10. \A k \in Journals : Offered(k)' = Offered(k)
  <2>1. SUFFICES ASSUME NEW k \in Journals PROVE Offered(k)' = Offered(k)
    OBVIOUS
  <2>2. /\ snap[k] <= Len(log[k]) /\ snap[k] \in Nat /\ pos[k] \in Nat
        /\ UNCHANGED <<pos, rpage, snap>>
    BY DEF IInv, TypeOK, CursorsTyped, Publish, loop
  <2>3. CASE pos[k] < snap[k]
    <3>1. pos[k] + 1 \in 1 .. Len(log[k]) /\ pos[k] < Len(log[k]) /\ pos[k] < Len(log[k])'
      BY <1>3, <1>6, <2>2, <2>3
    <3>2. log[k][pos[k] + 1]' = log[k][pos[k] + 1]
      BY <1>6, <2>2, <3>1
    <3> QED BY <2>2, <2>3, <3>1, <3>2 DEF Offered, HasData, Current
  <2>4. CASE ~ (pos[k] < snap[k])
    BY <2>2, <2>4 DEF Offered
  <2> QED BY <2>3, <2>4
<1>8. owed[j]' > 0
  BY <1>2
<1>9. \A k \in Journals :
        /\ Len(log[k]) \in Nat /\ Len(log[k])' >= Len(log[k]) /\ owed[k]' >= owed[k]
        /\ \A i \in 1 .. Len(log[k]) : log[k][i]' = log[k][i]
        /\ HasData(k) => HasData(k)' /\ Current(k)' = Current(k)
        /\ Offered(k)' = Offered(k)
        /\ k # j => log[k]' = log[k]
  BY <1>3, <1>6, <1>7, <1>10
<1> QED BY <1>5, <1>8, <1>9

\* Time passes, and nothing is of the future.
LEMMA TickSteps == ASSUME IInv, Tick PROVE WritersTyped' /\ ClockInv'
<1>1. /\ clock \in Gens /\ clock' = clock + 1 /\ clock' \in Gens /\ begin \in Gens
  BY BoundsAreNatural DEF IInv, TypeOK, WritersTyped, LoopTyped, Gens, Tick
<1>2. UNCHANGED <<log, draft, owed, counted, begin>>
  BY DEF Tick, writers, loop
<1>3. WritersTyped'
  BY <1>1, <1>2 DEF IInv, TypeOK, WritersTyped
<1>4. \A j \in Journals : /\ \A i \in 1 .. Len(log[j]) : log[j][i].gen \in Gens
                          /\ \A f \in draft[j] : f.gen \in Gens
  <2>1. SUFFICES ASSUME NEW j \in Journals
                 PROVE  /\ \A i \in 1 .. Len(log[j]) : log[j][i].gen \in Gens
                        /\ \A f \in draft[j] : f.gen \in Gens
    OBVIOUS
  <2>2. log[j] \in Seq(Frames) /\ (draft[j] = {} \/ \E f \in draft[j] : f \in Frames /\ draft[j] = {f})
    BY DEF IInv, TypeOK, WritersTyped
  <2>3. \A i \in 1 .. Len(log[j]) : log[j][i] \in Frames
    BY <2>2
  <2>4. \A f \in Frames : f.gen \in Gens
    BY DEF Frames
  <2> QED BY <2>2, <2>3, <2>4
<1>5. ClockInv'
  <2>1. \A g \in Gens : g <= clock => g <= clock'
    BY <1>1, BoundsAreNatural DEF Gens
  <2>2. /\ begin <= clock
        /\ \A j \in Journals : /\ \A i \in 1 .. Len(log[j]) : log[j][i].gen <= clock
                               /\ \A f \in draft[j] : f.gen <= clock
    BY DEF ClockInv, IInv
  <2>3. /\ begin <= clock'
        /\ \A j \in Journals : /\ \A i \in 1 .. Len(log[j]) : log[j][i].gen <= clock'
                               /\ \A f \in draft[j] : f.gen <= clock'
    BY <1>1, <1>4, <2>1, <2>2
  <2> QED BY <1>2, <2>3 DEF ClockInv
<1> QED BY <1>3, <1>5

\* The invariant is kept when the clock ticks.
LEMMA TickKeeps ==
  ASSUME IInv, Tick
  PROVE  IInv'
<1>1. LoopTyped' /\ CursorsTyped'
  BY DEF IInv, TypeOK, LoopTyped, CursorsTyped, Tick, writers, loop
<1>2. PlaceInv' /\ PostInv' /\ NewsInv' /\ LookInv' /\ TestInv' /\ MergeOrder'
      /\ NoWakeupLost' /\ ReaderInv' /\ StopInv'
  BY DEF IInv, PlaceInv, PostInv, NewsInv, LookInv, TestInv, MergeOrder, NoWakeupLost, ReaderInv,
         StopInv, Signalled, Oldest, Offered, HasData, Current, Available, Tick, writers, loop
<1>3. WritersTyped' /\ ClockInv'
  BY TickSteps
<1> QED BY <1>1, <1>2, <1>3 DEF IInv, TypeOK

\* The frame being closed is a frame.
LEMMA StampSteps == ASSUME IInv, NEW j \in Journals, Stamp(j) PROVE WritersTyped' /\ ClockInv'
<1>1. PICK tag \in Tags, p \in Pages : draft' = [draft EXCEPT ![j] = {[gen |-> clock, tag |-> tag, page |-> p,
        knows |-> IF Traced THEN [k \in Journals |-> Len(log[k])] ELSE Nothing]}]
  BY DEF Stamp
<1> DEFINE f == [gen |-> clock, tag |-> tag, page |-> p,
                 knows |-> IF Traced THEN [k \in Journals |-> Len(log[k])] ELSE Nothing]
<1>2. f \in Frames
  BY TracedOrNot DEF IInv, TypeOK, WritersTyped, Frames, Tags, Nothing
<1> HIDE DEF f
<1>3. draft' = [draft EXCEPT ![j] = {f}] /\ UNCHANGED <<clock, log, owed, counted>>
  BY <1>1 DEF f, Stamp
<1>4. draft' = [k \in Journals |-> draft'[k]]
  BY <1>3 DEF IInv, TypeOK, WritersTyped
<1>5. \A k \in Journals : draft'[k] = {} \/ \E g \in draft'[k] : g \in Frames /\ draft'[k] = {g}
  BY <1>2, <1>3 DEF IInv, TypeOK, WritersTyped
<1>6. WritersTyped'
  BY <1>3, <1>4, <1>5 DEF IInv, TypeOK, WritersTyped
<1>7. ClockInv'
  <2>1. f.gen <= clock
    BY DEF f, IInv, TypeOK, WritersTyped, Gens
  <2>2. \A k \in Journals : \A g \in draft'[k] : g.gen <= clock
    BY <1>3, <2>1 DEF IInv, TypeOK, WritersTyped, ClockInv
  <2> QED BY <1>3, <2>2 DEF IInv, ClockInv, Stamp, loop
<1> QED BY <1>6, <1>7

\* The invariant is kept when a writer takes the time.
LEMMA StampKeeps ==
  ASSUME IInv, NEW j \in Journals, Stamp(j)
  PROVE  IInv'
<1>1. LoopTyped' /\ CursorsTyped'
  BY DEF IInv, TypeOK, LoopTyped, CursorsTyped, Stamp, loop, Tags
<1>2. PlaceInv' /\ PostInv' /\ NewsInv' /\ LookInv' /\ TestInv' /\ MergeOrder'
      /\ NoWakeupLost' /\ ReaderInv' /\ StopInv'
  BY DEF IInv, PlaceInv, PostInv, NewsInv, LookInv, TestInv, MergeOrder, NoWakeupLost, ReaderInv,
         StopInv, Signalled, Oldest, Offered, HasData, Current, Available, Stamp, loop, Tags
<1>3. WritersTyped' /\ ClockInv'
  BY StampSteps
<1> QED BY <1>1, <1>2, <1>3 DEF IInv, TypeOK

\* Publishing changes nothing of what sort() and the sleeper rely on.
LEMMA PublishRest ==
  ASSUME IInv, NEW j \in Journals, Publish(j)
  PROVE  WritersTyped' /\ CursorsTyped' /\ PostInv' /\ NewsInv' /\ LookInv' /\ TestInv' /\ MergeOrder' /\ NoWakeupLost'
<1>1. /\ UNCHANGED <<clock, counted, ready, pc, ret, joined, pos, rpage, cur, min, todo, watched, first, got, snap>>
      /\ draft' = [draft EXCEPT ![j] = {}] /\ owed' = [owed EXCEPT ![j] = @ + 1]
  BY DEF Publish, loop
<1>2. WritersTyped'
  <2>1. /\ draft' = [k \in Journals |-> draft'[k]] /\ owed' \in [Journals -> Nat]
        /\ \A k \in Journals : draft'[k] = {} \/ \E f \in draft'[k] : f \in Frames /\ draft'[k] = {f}
    <3>1. /\ draft = [k \in Journals |-> draft[k]] /\ owed \in [Journals -> Nat]
          /\ \A k \in Journals : draft[k] = {} \/ \E f \in draft[k] : f \in Frames /\ draft[k] = {f}
      BY DEF IInv, TypeOK, WritersTyped
    <3>2. draft' = [k \in Journals |-> draft'[k]] /\ owed' \in [Journals -> Nat]
      BY <1>1, <3>1
    <3>3. draft'[j] = {} /\ \A k \in Journals \ {j} : draft'[k] = draft[k]
      BY <1>1, <3>1
    <3> QED BY <3>1, <3>2, <3>3
  <2> QED BY <1>1, <2>1, Appended DEF IInv, TypeOK, WritersTyped
<1>3. CursorsTyped'
  <2>1. \A k \in Journals : pos[k] <= Len(log[k])' /\ snap[k] <= Len(log[k])'
    <3>1. SUFFICES ASSUME NEW k \in Journals PROVE pos[k] <= Len(log[k])' /\ snap[k] <= Len(log[k])'
      OBVIOUS
    <3>2. /\ pos[k] \in Nat /\ snap[k] \in Nat /\ pos[k] <= Len(log[k]) /\ snap[k] <= Len(log[k])
      BY DEF IInv, TypeOK, CursorsTyped
    <3>3. Len(log[k]) \in Nat /\ Len(log[k])' \in Nat /\ Len(log[k])' >= Len(log[k])
      BY Appended
    <3> QED BY <3>2, <3>3
  <2> QED BY <1>1, <2>1 DEF IInv, TypeOK, CursorsTyped
<1>4. \A k \in Journals : Signalled(k) => Signalled(k)'
  BY <1>1, Appended DEF Signalled, IInv, TypeOK, WritersTyped
<1>5. Signalled(j)'
  BY Appended DEF Signalled
<1>6. PostInv' /\ NewsInv'
  BY <1>1, <1>4, <1>5, Appended DEF PostInv, NewsInv, IInv
<1>7. ASSUME NEW k \in Journals, Offered(k) PROVE HasData(k) /\ HasData(k)' /\ Current(k)' = Current(k)
  BY <1>7, Appended, Readable
<1>8. LookInv'
  <2>1. SUFFICES ASSUME pc = "look" PROVE Oldest(cur, min, todo)'
    BY <1>1 DEF LookInv
  <2>2. joined \subseteq Journals /\ cur \in joined \cup {None}
    BY DEF IInv, TypeOK, LoopTyped
  <2>3. CASE /\ cur # None /\ cur \notin todo /\ HasData(cur) /\ Current(cur).gen = min
             /\ \A k \in joined \ todo : Offered(k) => min <= Current(k).gen
    <3>1. HasData(cur)' /\ Current(cur)' = Current(cur)
      BY <1>1, <2>2, <2>3, Appended DEF Offered, HasData, Current
    <3>2. \A k \in joined \ todo : Offered(k)' => min <= Current(k)'.gen
      BY <1>7, <2>2, <2>3, Appended
    <3> QED BY <1>1, <2>3, <3>1, <3>2 DEF Oldest
  <2>4. CASE /\ \A k \in joined \ todo : ~ Offered(k)
             /\ \A k \in joined : Offered(k) => Current(k).gen <= min
    <3>1. \A k \in joined : Offered(k)' => Current(k)'.gen <= min
      BY <1>7, <2>2, <2>4, Appended
    <3> QED BY <1>1, <2>2, <2>4, <3>1, Appended DEF Oldest
  <2> QED BY <2>1, <2>3, <2>4 DEF IInv, LookInv, Oldest
<1>9. TestInv'
  BY <1>1, Appended DEF TestInv, Available, Offered, HasData, Current, IInv, TypeOK, LoopTyped
<1>10. MergeOrder'
  <2>1. SUFFICES ASSUME pc = "test", Available', NEW k \in Journals, Offered(k)'
                 PROVE  Current(cur)'.gen <= Current(k)'.gen
    BY <1>1 DEF MergeOrder
  <2>7. Offered(k)
    BY <2>1, Appended
  <2>2. Available
    BY <2>1, <2>7 DEF IInv, TestInv
  <2>3. cur \in Journals /\ HasData(cur)
    BY <2>2 DEF Available, IInv, TypeOK, LoopTyped
  <2>4. Current(cur)' = Current(cur)
    BY <1>1, <2>3, Appended DEF Offered, HasData, Current
  <2>5. Current(k)' = Current(k)
    BY <2>7, <1>7
  <2>6. Current(cur).gen <= Current(k).gen
    BY <2>1, <2>2, <2>7 DEF IInv, MergeOrder
  <2> QED BY <1>1, <2>4, <2>5, <2>6
<1>11. NoWakeupLost'
  <2>1. SUFFICES ASSUME pc = "wait", NEW k \in Journals, HasData(k)' PROVE k \in ready \/ owed[k]' > 0
    BY <1>1 DEF NoWakeupLost
  <2>2. CASE k = j
    BY <2>2, Appended
  <2>3. CASE k # j
    <3>1. HasData(k)
      BY <1>1, <2>1, <2>3, Appended DEF Offered, HasData, Current
    <3>2. k \in ready \/ owed[k] > 0
      BY <2>1, <3>1 DEF IInv, NoWakeupLost
    <3> QED BY <1>1, <2>3, <3>2 DEF IInv, TypeOK, WritersTyped
  <2> QED BY <2>2, <2>3
<1> QED BY <1>2, <1>3, <1>6, <1>8, <1>9, <1>10, <1>11

\* The invariant is kept when a writer publishes.
LEMMA PublishKeeps ==
  ASSUME IInv, NEW j \in Journals, Publish(j)
  PROVE  IInv'
<1>1. LoopTyped' /\ PlaceInv' /\ ReaderInv' /\ StopInv'
  BY DEF IInv, TypeOK, LoopTyped, PlaceInv, ReaderInv, StopInv, Publish, loop
<1>2. WritersTyped' /\ CursorsTyped' /\ PostInv' /\ NewsInv' /\ LookInv' /\ TestInv'
      /\ MergeOrder' /\ NoWakeupLost'
  BY PublishRest
<1>3. ClockInv'
  BY DEF IInv, ClockInv, Publish, loop
<1> QED BY <1>1, <1>2, <1>3 DEF IInv, TypeOK

\* What was owed was counted.
LEMMA PostWriters ==
  ASSUME IInv, NEW j \in Journals, Post(j)
  PROVE  WritersTyped'
<1>1. /\ owed[j] > 0 /\ owed' = [owed EXCEPT ![j] = @ - 1] /\ counted' = counted \cup {j}
      /\ UNCHANGED <<clock, log, draft>>
  BY DEF Post
<1>2. owed \in [Journals -> Nat] /\ counted \subseteq Journals
  BY DEF IInv, TypeOK, WritersTyped
<1>3. owed' \in [Journals -> Nat] /\ counted' \subseteq Journals
  BY <1>1, <1>2
<1> QED BY <1>1, <1>3 DEF IInv, TypeOK, WritersTyped

\* The invariant is kept when a writer posts.
LEMMA PostKeeps ==
  ASSUME IInv, NEW j \in Journals, Post(j)
  PROVE  IInv'
<1>1. CursorsTyped' /\ ClockInv' /\ PlaceInv' /\ LookInv' /\ TestInv' /\ MergeOrder'
      /\ ReaderInv' /\ StopInv'
  BY DEF IInv, TypeOK, CursorsTyped, ClockInv, PlaceInv, LookInv, TestInv, MergeOrder, ReaderInv,
         StopInv, Oldest, Offered, HasData, Current, Available, Post, loop, Signal
<1>2. WritersTyped'
  BY PostWriters
<1>3. LoopTyped'
  BY DEF IInv, LoopTyped, Gens, PCs, Post, loop, Signal, TypeOK
<1>4. PostInv'
  BY DEF IInv, PostInv, Signalled, Post, loop, Signal
<1>5. NewsInv'
  BY DEF IInv, NewsInv, Signalled, Post, loop, Signal
<1>6. NoWakeupLost'
  BY DEF IInv, NoWakeupLost, Signalled, Offered, HasData, Current, Post, loop, Signal, TypeOK, WritersTyped,
         LoopTyped, CursorsTyped, Gens, PlaceInv, Current, Available
<1> QED BY <1>1, <1>2, <1>3, <1>4, <1>5, <1>6 DEF IInv, TypeOK

\* sort() begins with the present, and no frame is newer.
LEMMA EnterSortLook == ASSUME IInv, EnterSort PROVE LookInv'
<1>1. /\ min' = clock /\ todo' = joined /\ snap' = [j \in Journals |-> Len(log[j])]
      /\ UNCHANGED <<log, pos, rpage, joined>>
  BY DEF EnterSort, writers
<1>2. \A k \in Journals : pos[k] < Len(log[k]) => Current(k).gen <= clock
  <2>1. SUFFICES ASSUME NEW k \in Journals, pos[k] < Len(log[k]) PROVE Current(k).gen <= clock
    OBVIOUS
  <2>2. pos[k] + 1 \in 1 .. Len(log[k])
    BY <2>1 DEF IInv, TypeOK, WritersTyped, CursorsTyped
  <2> QED BY <2>2 DEF IInv, ClockInv, Current
<1>3. joined \subseteq Journals
  BY DEF IInv, TypeOK, LoopTyped
<1>4. \A k \in joined : Offered(k)' => Current(k)'.gen <= min'
  BY <1>1, <1>2, <1>3 DEF Offered, Current
<1> QED BY <1>1, <1>3, <1>4 DEF LookInv, Oldest

\* The invariant is kept when sort() is entered.
LEMMA EnterSortKeeps ==
  ASSUME IInv, EnterSort
  PROVE  IInv'
<1>1. WritersTyped' /\ ClockInv' /\ PostInv' /\ ReaderInv'
  BY DEF IInv, TypeOK, WritersTyped, ClockInv, PostInv, ReaderInv, Signalled, EnterSort, writers
<1>2. LookInv'
  BY EnterSortLook
<1>3. LoopTyped'
  BY DEF IInv, LoopTyped, Gens, PCs, EnterSort, writers, TypeOK, WritersTyped, CursorsTyped
<1>4. CursorsTyped'
  BY DEF IInv, CursorsTyped, EnterSort, writers, TypeOK
<1>5. PlaceInv'
  BY DEF IInv, PlaceInv, EnterSort, writers
<1>6. NewsInv'
  BY DEF IInv, NewsInv, Signalled, EnterSort, writers
<1>7. TestInv'
  BY DEF IInv, TestInv, Available, Offered, HasData, Current, EnterSort, writers
<1>8. MergeOrder'
  BY DEF IInv, MergeOrder, Available, Offered, HasData, Current, EnterSort, writers
<1>9. NoWakeupLost'
  BY DEF IInv, NoWakeupLost, Signalled, Offered, HasData, Current, EnterSort, writers
<1>10. StopInv'
  BY DEF IInv, StopInv, EnterSort, writers
<1> QED BY <1>1, <1>2, <1>3, <1>4, <1>5, <1>6, <1>7, <1>8, <1>9, <1>10 DEF IInv, TypeOK

\* What a look at journal j does to the choice.
LEMMA LookChooses ==
  ASSUME IInv, NEW j \in Journals, Look(j)
  PROVE  \E c \in joined \cup {None}, m \in Gens :
           /\ cur' = c /\ todo' = todo \ {j}
           /\ min' = IF todo' = {} THEN 0 ELSE m
           /\ pc' = IF todo' = {} THEN ret ELSE "look"
           /\ Oldest(c, m, todo \ {j})
<1>1. /\ pc = "look" /\ j \in todo
      /\ IF HasData(j) /\ Current(j).gen <= min
           THEN cur' = j /\ Keep(j, Current(j).gen)
           ELSE cur' = cur /\ Keep(j, min)
  BY DEF Look
<1>2. /\ cur \in joined \cup {None} /\ min \in Gens /\ min \in Int /\ todo \subseteq joined
      /\ joined \subseteq Journals /\ j \in joined
  BY <1>1, BoundsAreNatural DEF IInv, TypeOK, LoopTyped, Gens
<1>3. Oldest(cur, min, todo)
  BY <1>1 DEF IInv, LookInv
<1>4. CASE HasData(j) /\ Current(j).gen <= min
  <2>1. Current(j).gen \in Gens /\ Current(j).gen \in Int
    BY <1>4, Readable DEF Frames
  <2>2. ASSUME NEW k \in joined \ (todo \ {j}), Offered(k)
        PROVE  Current(j).gen <= Current(k).gen
    <3>1. CASE k = j
      BY <3>1, <2>1
    <3>2. CASE k # j
      <4>1. k \in joined \ todo /\ Current(k).gen \in Int /\ pos[k] \in Nat /\ snap[k] \in Nat
        BY <2>2, <3>2, <1>2, Readable
      <4>2. min <= Current(k).gen
        BY <1>3, <2>2, <4>1 DEF Oldest
      <4> QED BY <1>2, <1>4, <2>1, <4>1, <4>2
    <3> QED BY <3>1, <3>2
  <2>3. Oldest(j, Current(j).gen, todo \ {j})
    BY <1>4, <2>2, NamesAreFree DEF Oldest
  <2> QED BY <1>1, <1>2, <1>4, <2>1, <2>3 DEF Keep
<1>5. CASE ~ (HasData(j) /\ Current(j).gen <= min)
  <2>1. ASSUME Offered(j) PROVE min < Current(j).gen
    BY <2>1, <1>2, <1>5, Readable
  <2>2. Oldest(cur, min, todo \ {j})
    <3>1. CASE /\ cur # None /\ cur \notin todo /\ HasData(cur) /\ Current(cur).gen = min
               /\ \A k \in joined \ todo : Offered(k) => min <= Current(k).gen
      <4>1. ASSUME NEW k \in joined \ (todo \ {j}), Offered(k)
            PROVE  min <= Current(k).gen
        <5>1. CASE k = j
          BY <5>1, <4>1, <2>1, <1>2, Readable
        <5>2. CASE k # j
          BY <5>2, <4>1, <3>1
        <5> QED BY <5>1, <5>2
      <4> QED BY <3>1, <4>1 DEF Oldest
    <3>2. CASE /\ \A k \in joined \ todo : ~ Offered(k)
               /\ \A k \in joined : Offered(k) => Current(k).gen <= min
      <4>1. ~ Offered(j)
        BY <3>2, <2>1, <1>2, Readable
      <4> QED BY <3>2, <4>1 DEF Oldest
    <3> QED BY <1>3, <3>1, <3>2 DEF Oldest
  <2> QED BY <1>1, <1>2, <1>5, <2>2 DEF Keep
<1> QED BY <1>4, <1>5

\* After the last look the choice is the answer of sort().
LEMMA LookSteps ==
  ASSUME IInv, NEW j \in Journals, Look(j)
  PROVE  LoopTyped' /\ LookInv' /\ TestInv' /\ MergeOrder'
<1>1. PICK c \in joined \cup {None}, m \in Gens :
           /\ cur' = c /\ todo' = todo \ {j}
           /\ min' = IF todo' = {} THEN 0 ELSE m
           /\ pc' = IF todo' = {} THEN ret ELSE "look"
           /\ Oldest(c, m, todo \ {j})
  BY LookChooses
<1>2. /\ UNCHANGED <<clock, log, ready, kind, ret, begin, joined, pos, rpage, live, watched, snap, status, caller>>
      /\ pc = "look" /\ ret \in {"join", "check", "test"}
      /\ ret \in {"check", "test"} => joined = Journals
  BY DEF Look, writers, IInv, PlaceInv
<1>3. LoopTyped'
  <2>1. min' \in Gens
    BY <1>1, BoundsAreNatural DEF Gens
  <2>2. pc' \in PCs
    BY <1>1, <1>2 DEF PCs
  <2> QED BY <1>1, <1>2, <2>1, <2>2 DEF IInv, TypeOK, LoopTyped, PCs
<1>4. LookInv'
  BY <1>1, <1>2 DEF LookInv, Oldest, Offered, HasData, Current
<1>5. ASSUME pc' = "test" PROVE todo' = {} /\ joined = Journals
  BY <1>1, <1>2, <1>5
<1>6. TestInv'
  <2>1. SUFFICES ASSUME pc' = "test", ~ (c # None /\ HasData(c))
                 PROVE  \A k \in Journals : ~ Offered(k)
    BY <1>1, <1>2 DEF TestInv, Available, Offered, HasData, Current
  <2> QED BY <1>1, <1>5, <2>1 DEF Oldest
<1>7. MergeOrder'
  <2>1. SUFFICES ASSUME pc' = "test", c # None, HasData(c), NEW k \in Journals, Offered(k)
                 PROVE  Current(c).gen <= Current(k).gen
    BY <1>1, <1>2 DEF MergeOrder, Available, Offered, HasData, Current
  <2>2. todo \ {j} = {} /\ k \in joined
    BY <1>1, <1>5, <2>1
  <2>3. pos[k] \in Nat /\ snap[k] \in Nat
    BY Readable
  <2> QED BY <1>1, <2>1, <2>2, <2>3 DEF Oldest
<1> QED BY <1>3, <1>4, <1>6, <1>7

\* The invariant is kept when sort() looks at a journal.
LEMMA LookKeeps ==
  ASSUME IInv, NEW j \in Journals, Look(j)
  PROVE  IInv'
<1>1. WritersTyped' /\ CursorsTyped' /\ ClockInv' /\ PostInv' /\ ReaderInv'
  BY DEF IInv, TypeOK, WritersTyped, CursorsTyped, ClockInv, PostInv, ReaderInv, Signalled, Look,
         writers, Keep
<1>2. LoopTyped' /\ LookInv' /\ TestInv' /\ MergeOrder'
  BY LookSteps
<1>3. PlaceInv'
  BY DEF IInv, PlaceInv, Look, writers, Keep
<1>4. NewsInv'
  BY DEF IInv, NewsInv, Signalled, Look, writers, Keep
<1>5. NoWakeupLost'
  BY DEF IInv, NoWakeupLost, Signalled, Offered, HasData, Current, Look, writers, Keep, TypeOK, WritersTyped,
         LoopTyped, CursorsTyped, Gens
<1>6. StopInv'
  BY DEF IInv, StopInv, Look, writers, Keep
<1> QED BY <1>1, <1>2, <1>3, <1>4, <1>5, <1>6 DEF IInv, TypeOK

\* The invariant is kept when the process starts.
LEMMA ConstructKeeps ==
  ASSUME IInv, Construct
  PROVE  IInv'
<1>1. WritersTyped' /\ CursorsTyped' /\ PostInv' /\ ReaderInv'
  BY DEF IInv, TypeOK, WritersTyped, CursorsTyped, PostInv, ReaderInv, Signalled, Construct, writers
<1>2. LoopTyped'
  BY DEF IInv, LoopTyped, Gens, PCs, Construct, writers, TypeOK, WritersTyped, CursorsTyped
<1>3. ClockInv'
  BY DEF IInv, ClockInv, Construct, writers, TypeOK, WritersTyped, LoopTyped, CursorsTyped, Gens
<1>4. PlaceInv'
  BY DEF IInv, PlaceInv, Construct, writers
<1>5. NewsInv'
  BY DEF IInv, NewsInv, Signalled, Construct, writers
<1>6. LookInv'
  BY DEF IInv, LookInv, Oldest, Offered, HasData, Current, Construct, writers
<1>7. TestInv'
  BY DEF IInv, TestInv, Available, Offered, HasData, Current, Construct, writers
<1>8. MergeOrder'
  BY DEF IInv, MergeOrder, Available, Offered, HasData, Current, Construct, writers
<1>9. NoWakeupLost'
  BY DEF IInv, NoWakeupLost, Signalled, Offered, HasData, Current, Construct, writers
<1>10. StopInv'
  BY DEF IInv, StopInv, Construct, writers
<1> QED BY <1>1, <1>2, <1>3, <1>4, <1>5, <1>6, <1>7, <1>8, <1>9, <1>10 DEF IInv, TypeOK

\* The cursor of a journal joined is in front of its first frame.
LEMMA JoinReader == ASSUME IInv, NEW j \in Journals, Join(j) PROVE ReaderInv'
<1>1. /\ j \notin joined /\ joined' = joined \cup {j} /\ UNCHANGED got
      /\ \E n \in 0 .. Len(log[j]) : pos' = [pos EXCEPT ![j] = n] /\ first' = [first EXCEPT ![j] = n + 1]
  BY DEF Join
<1>2. /\ pos \in [Journals -> Nat] /\ first \in [Journals -> Nat] /\ log[j] \in Seq(Frames)
  BY DEF IInv, TypeOK, WritersTyped, CursorsTyped
<1>3. got[j] = <<>>
  BY <1>1 DEF IInv, ReaderInv
<1>4. PICK n \in 0 .. Len(log[j]) : pos' = [pos EXCEPT ![j] = n] /\ first' = [first EXCEPT ![j] = n + 1]
  BY <1>1
<1>5. /\ pos'[j] = n /\ first'[j] = n + 1 /\ n \in Nat
      /\ \A k \in Journals \ {j} : pos'[k] = pos[k] /\ first'[k] = first[k]
  BY <1>2, <1>4
<1> QED BY <1>1, <1>3, <1>5 DEF ReaderInv, IInv

\* The invariant is kept when it joins a journal.
LEMMA JoinKeeps ==
  ASSUME IInv, NEW j \in Journals, Join(j)
  PROVE  IInv'
<1>1. WritersTyped' /\ ClockInv' /\ PostInv'
  BY DEF IInv, TypeOK, WritersTyped, ClockInv, PostInv, Signalled, Join, writers, Call
<1>2. ReaderInv'
  BY JoinReader
<1>3. LoopTyped'
  BY DEF IInv, LoopTyped, Gens, PCs, Join, writers, Call, TypeOK
<1>4. CursorsTyped'
  BY DEF IInv, CursorsTyped, Join, Begun, writers, Call, TypeOK
<1>5. PlaceInv'
  BY DEF IInv, PlaceInv, Join, writers, Call
<1>6. NewsInv'
  BY DEF IInv, NewsInv, Signalled, Join, writers, Call
<1>7. LookInv'
  BY DEF IInv, LookInv, Oldest, Offered, HasData, Current, Join, writers, Call
<1>8. TestInv'
  BY DEF IInv, TestInv, Available, Offered, HasData, Current, Join, writers, Call
<1>9. MergeOrder'
  BY DEF IInv, MergeOrder, Available, Offered, HasData, Current, Join, writers, Call
<1>10. NoWakeupLost'
  BY DEF IInv, NoWakeupLost, Signalled, Offered, HasData, Current, Join, writers, Call
<1>11. StopInv'
  BY DEF IInv, StopInv, Join, writers, Call
<1> QED BY <1>1, <1>2, <1>3, <1>4, <1>5, <1>6, <1>7, <1>8, <1>9, <1>10, <1>11 DEF IInv, TypeOK

\* What was posted before add_customer is reported by it.
LEMMA WatchWakeup == ASSUME IInv, Watch PROVE NoWakeupLost'
<1>1. /\ pc = "join" /\ joined = Journals /\ ready' = ready \cup counted /\ watched' = TRUE
      /\ UNCHANGED <<log, pos, rpage, owed>>
  BY DEF Watch, writers
<1>2. SUFFICES ASSUME NEW j \in Journals, HasData(j) PROVE j \in counted \/ j \in ready \/ owed[j] > 0
  BY <1>1 DEF NoWakeupLost, Offered, HasData, Current
<1>3. Len(log[j]) > 0
  BY <1>2 DEF Offered, HasData, Current, IInv, TypeOK, WritersTyped, CursorsTyped
<1>4. ~ watched
  BY <1>1 DEF IInv, PlaceInv
<1> QED BY <1>3, <1>4 DEF IInv, PostInv, Signalled

\* The invariant is kept when it adds the eventfds to the epoll instance.
LEMMA WatchKeeps ==
  ASSUME IInv, Watch
  PROVE  IInv'
<1>1. WritersTyped' /\ CursorsTyped' /\ ClockInv' /\ ReaderInv'
  BY DEF IInv, TypeOK, WritersTyped, CursorsTyped, ClockInv, ReaderInv, Watch, writers
<1>2. NoWakeupLost'
  BY WatchWakeup
<1>3. LoopTyped'
  BY DEF IInv, LoopTyped, Gens, PCs, Watch, writers, TypeOK, WritersTyped, CursorsTyped
<1>4. PlaceInv'
  BY DEF IInv, PlaceInv, Watch, writers
<1>5. PostInv'
  BY DEF IInv, PostInv, Signalled, Watch, writers
<1>6. NewsInv'
  BY DEF IInv, NewsInv, Signalled, Watch, writers
<1>7. LookInv'
  BY DEF IInv, LookInv, Oldest, Offered, HasData, Current, Watch, writers
<1>8. TestInv'
  BY DEF IInv, TestInv, Available, Offered, HasData, Current, Watch, writers
<1>9. MergeOrder'
  BY DEF IInv, MergeOrder, Available, Offered, HasData, Current, Watch, writers
<1>10. StopInv'
  BY DEF IInv, StopInv, Watch, writers
<1> QED BY <1>1, <1>2, <1>3, <1>4, <1>5, <1>6, <1>7, <1>8, <1>9, <1>10 DEF IInv, TypeOK

\* The invariant is kept when epoll_wait returns.
LEMMA WaitKeeps ==
  ASSUME IInv, Wait
  PROVE  IInv'
<1>1. WritersTyped' /\ CursorsTyped' /\ ClockInv' /\ ReaderInv'
  BY DEF IInv, TypeOK, WritersTyped, CursorsTyped, ClockInv, ReaderInv, Wait, writers, Call
<1>2. LoopTyped'
  BY DEF IInv, LoopTyped, Gens, PCs, Wait, writers, Call, TypeOK
<1>3. PlaceInv'
  BY JournalsAreFinite DEF IInv, PlaceInv, Wait, writers, Call
<1>4. PostInv'
  BY DEF IInv, PostInv, Signalled, Wait, writers, Call
<1>5. NewsInv'
  BY DEF IInv, NewsInv, Signalled, Wait, writers, Call
<1>6. LookInv'
  BY DEF IInv, LookInv, Oldest, Offered, HasData, Current, Wait, writers, Call
<1>7. TestInv'
  BY DEF IInv, TestInv, Available, Offered, HasData, Current, Wait, writers, Call
<1>8. MergeOrder'
  BY DEF IInv, MergeOrder, Available, Offered, HasData, Current, Wait, writers, Call
<1>9. NoWakeupLost'
  BY DEF IInv, NoWakeupLost, Signalled, Offered, HasData, Current, Wait, writers, Call
<1>10. StopInv'
  BY DEF IInv, StopInv, Wait, writers, Call
<1> QED BY <1>1, <1>2, <1>3, <1>4, <1>5, <1>6, <1>7, <1>8, <1>9, <1>10 DEF IInv, TypeOK

\* The invariant is kept when the loop looks at live_.
LEMMA CheckKeeps ==
  ASSUME IInv, Check
  PROVE  IInv'
<1>1. WritersTyped' /\ CursorsTyped' /\ ClockInv' /\ PostInv' /\ ReaderInv'
  BY DEF IInv, TypeOK, WritersTyped, CursorsTyped, ClockInv, PostInv, ReaderInv, Signalled, Check,
         writers, Call
<1>2. LoopTyped'
  BY DEF IInv, LoopTyped, Gens, PCs, Check, writers, Call, TypeOK
<1>3. PlaceInv'
  BY JournalsAreFinite DEF IInv, PlaceInv, Check, writers, Call
<1>4. NewsInv'
  BY DEF IInv, NewsInv, Signalled, Check, writers, Call
<1>5. LookInv'
  BY DEF IInv, LookInv, Oldest, Offered, HasData, Current, Check, writers, Call
<1>6. TestInv'
  BY DEF IInv, TestInv, Available, Offered, HasData, Current, Check, writers, Call
<1>7. MergeOrder'
  BY DEF IInv, MergeOrder, Available, Offered, HasData, Current, Check, writers, Call
<1>8. NoWakeupLost'
  BY DEF IInv, NoWakeupLost, Signalled, Offered, HasData, Current, Check, writers, Call
<1>9. StopInv'
  BY DEF IInv, StopInv, Check, writers, Call
<1> QED BY <1>1, <1>2, <1>3, <1>4, <1>5, <1>6, <1>7, <1>8, <1>9 DEF IInv, TypeOK

\* The cursor moves past the frame that is handed over.
LEMMA HandleCursors == ASSUME IInv, Handle PROVE CursorsTyped' /\ ReaderInv'
<1>1. /\ pc = "test" /\ cur \in joined /\ joined = Journals /\ HasData(cur)
      /\ got' = [got EXCEPT ![cur] = Append(@, Current(cur))]
      /\ pos' = [pos EXCEPT ![cur] = @ + 1] /\ snap' = Nothing
      /\ UNCHANGED <<log, rpage, first, joined>>
  BY DEF Handle, Available, writers, IInv, TypeOK, LoopTyped, PlaceInv
<1>2. Current(cur) \in Frames
  <2>1. pos[cur] + 1 \in 1 .. Len(log[cur]) /\ log[cur] \in Seq(Frames)
    BY <1>1 DEF Offered, HasData, Current, IInv, TypeOK, WritersTyped, CursorsTyped
  <2> QED BY <2>1 DEF Current
<1>3. /\ got' \in [Journals -> Seq(Frames)] /\ Len(got'[cur]) = Len(got[cur]) + 1
      /\ \A k \in Journals \ {cur} : got'[k] = got[k]
  <2>1. /\ got \in [Journals -> Seq(Frames)] /\ cur \in Journals
    BY <1>1 DEF IInv, TypeOK, CursorsTyped
  <2> QED BY <1>1, <1>2, <2>1
<1>4. /\ pos' \in [Journals -> Nat] /\ \A k \in Journals : pos'[k] <= Len(log[k])
  BY <1>1 DEF Offered, HasData, Current, IInv, TypeOK, WritersTyped, CursorsTyped
<1>5. snap' \in [Journals -> Nat] /\ \A k \in Journals : snap'[k] <= Len(log[k])
  BY <1>1 DEF Nothing, IInv, TypeOK, WritersTyped
<1>6. CursorsTyped'
  BY <1>1, <1>3, <1>4, <1>5 DEF CursorsTyped, IInv, TypeOK
<1>7. ReaderInv'
  <2>1. /\ pos'[cur] = pos[cur] + 1 /\ \A k \in Journals \ {cur} : pos'[k] = pos[k]
        /\ pos[cur] \in Nat /\ first[cur] \in Nat /\ Len(got[cur]) \in Nat
    BY <1>1 DEF IInv, TypeOK, CursorsTyped
  <2> QED BY <1>1, <1>3, <2>1 DEF ReaderInv, IInv
<1> QED BY <1>6, <1>7

\* The invariant is kept when a frame is handed over.
LEMMA HandleKeeps ==
  ASSUME IInv, Handle
  PROVE  IInv'
<1>1. WritersTyped' /\ ClockInv' /\ PostInv'
  BY DEF IInv, TypeOK, WritersTyped, ClockInv, PostInv, Signalled, Handle, writers, Call
<1>2. CursorsTyped' /\ ReaderInv'
  BY HandleCursors
<1>3. LoopTyped'
  BY DEF IInv, LoopTyped, Gens, PCs, Handle, writers, Call, TypeOK
<1>4. PlaceInv'
  BY JournalsAreFinite DEF IInv, PlaceInv, Handle, writers, Call
<1>5. NewsInv'
  BY DEF IInv, NewsInv, Signalled, Handle, writers, Call, Nothing
<1>6. LookInv'
  BY DEF IInv, LookInv, Oldest, Offered, HasData, Current, Handle, writers, Call
<1>7. TestInv'
  BY DEF IInv, TestInv, Available, Offered, HasData, Current, Handle, writers, Call, Nothing
<1>8. MergeOrder'
  BY DEF IInv, MergeOrder, Available, Offered, HasData, Current, Handle, writers, Call
<1>9. NoWakeupLost'
  BY DEF IInv, NoWakeupLost, Signalled, Offered, HasData, Current, Handle, writers, Call, Nothing
<1>10. StopInv'
  BY DEF IInv, StopInv, Handle, writers, Call
<1> QED BY <1>1, <1>2, <1>3, <1>4, <1>5, <1>6, <1>7, <1>8, <1>9, <1>10 DEF IInv, TypeOK

\* Going to sleep, the process has seen all there was when it began to sort, and
\* what came since is signalled.
LEMMA LeaveWakeup == ASSUME IInv, Leave PROVE NoWakeupLost'
<1>1. pc = "test" /\ UNCHANGED <<log, pos, rpage, owed, ready>> /\ (pc' = "wait" => ~ Available)
  BY DEF Leave, writers
<1>2. SUFFICES ASSUME ~ Available, NEW j \in Journals, HasData(j) PROVE j \in ready \/ owed[j] > 0
  BY <1>1 DEF NoWakeupLost, Offered, HasData, Current
<1>3. ~ Offered(j)
  BY <1>1, <1>2 DEF IInv, TestInv
<1>4. Len(log[j]) > snap[j]
  BY <1>2, <1>3, Readable DEF Offered, HasData
<1> QED BY <1>1, <1>4 DEF IInv, PlaceInv, NewsInv, Signalled

\* The invariant is kept when no frame is left.
LEMMA LeaveKeeps ==
  ASSUME IInv, Leave
  PROVE  IInv'
<1>1. WritersTyped' /\ ClockInv' /\ PostInv' /\ ReaderInv'
  BY DEF IInv, TypeOK, WritersTyped, ClockInv, PostInv, ReaderInv, Signalled, Leave, writers
<1>2. NoWakeupLost'
  BY LeaveWakeup
<1>3. LoopTyped'
  BY DEF IInv, LoopTyped, Gens, PCs, Leave, writers, TypeOK
<1>4. CursorsTyped'
  BY DEF IInv, CursorsTyped, Leave, writers, Nothing, TypeOK
<1>5. PlaceInv'
  BY DEF IInv, PlaceInv, Leave, writers
<1>6. NewsInv'
  BY DEF IInv, NewsInv, Signalled, Leave, writers, Nothing
<1>7. LookInv'
  BY DEF IInv, LookInv, Oldest, Offered, HasData, Current, Leave, writers
<1>8. TestInv'
  BY DEF IInv, TestInv, Available, Offered, HasData, Current, Leave, writers, Nothing
<1>9. MergeOrder'
  BY DEF IInv, MergeOrder, Available, Offered, HasData, Current, Leave, writers
<1>10. StopInv'
  BY DEF IInv, StopInv, Leave, writers
<1> QED BY <1>1, <1>2, <1>3, <1>4, <1>5, <1>6, <1>7, <1>8, <1>9, <1>10 DEF IInv, TypeOK

\* The invariant is kept when terminate is called.
LEMMA TerminateKeeps ==
  ASSUME IInv, Terminate
  PROVE  IInv'
<1>1. WritersTyped' /\ CursorsTyped'
  BY DEF IInv, TypeOK, WritersTyped, CursorsTyped, Terminate, writers, loop, Signal
<1>2. ClockInv' /\ PlaceInv' /\ LookInv' /\ TestInv' /\ MergeOrder' /\ ReaderInv' /\ StopInv'
  BY DEF IInv, ClockInv, PlaceInv, LookInv, TestInv, MergeOrder, ReaderInv, StopInv, Oldest,
         Offered, HasData, Current, Available, Terminate, writers, loop, Signal
<1>3. LoopTyped'
  BY DEF IInv, LoopTyped, Gens, PCs, Terminate, writers, loop, Signal, TypeOK
<1>4. PostInv'
  BY DEF IInv, PostInv, Signalled, Terminate, writers, loop, Signal
<1>5. NewsInv'
  BY DEF IInv, NewsInv, Signalled, Terminate, writers, loop, Signal
<1>6. NoWakeupLost'
  BY DEF IInv, NoWakeupLost, Signalled, Offered, HasData, Current, Terminate, writers, loop, Signal
<1> QED BY <1>1, <1>2, <1>3, <1>4, <1>5, <1>6 DEF IInv, TypeOK

\* The invariant is kept when nothing happens.
LEMMA StutterKeeps == ASSUME IInv, UNCHANGED vars PROVE IInv'
<1>1. WritersTyped' /\ ClockInv'
  BY DEF vars, writers, loop, IInv, TypeOK, WritersTyped, ClockInv
<1>2. LoopTyped' /\ CursorsTyped'
  BY DEF vars, writers, loop, IInv, TypeOK, LoopTyped, CursorsTyped
<1>3. PlaceInv' /\ PostInv' /\ NewsInv' /\ NoWakeupLost' /\ ReaderInv'
      /\ StopInv'
  BY DEF vars, writers, loop, IInv, PlaceInv, PostInv, NewsInv, NoWakeupLost, ReaderInv, StopInv,
         Signalled, Offered, HasData, Current
<1>4. LookInv' /\ TestInv' /\ MergeOrder'
  BY DEF vars, writers, loop, IInv, LookInv, Oldest, TestInv, MergeOrder, Available, Offered, HasData, Current,
         Current
<1> QED BY <1>1, <1>2, <1>3, <1>4 DEF IInv, TypeOK

\* Every step keeps the invariant.
LEMMA NextKeeps == ASSUME IInv, [Next]_vars PROVE IInv'
<1>1. CASE Tick
  BY <1>1, TickKeeps
<1>2. ASSUME NEW j \in Journals, Stamp(j) \/ Publish(j) \/ Post(j) PROVE IInv'
  BY <1>2, StampKeeps, PublishKeeps, PostKeeps
<1>3. ASSUME NEW j \in Journals, Join(j) \/ Look(j) PROVE IInv'
  BY <1>3, JoinKeeps, LookKeeps
<1>4. CASE Construct \/ Watch \/ Wait \/ EnterSort
  BY <1>4, ConstructKeeps, WatchKeeps, WaitKeeps, EnterSortKeeps
<1>5. CASE Check \/ Handle \/ Leave \/ Terminate
  BY <1>5, CheckKeeps, HandleKeeps, LeaveKeeps, TerminateKeeps
<1>6. CASE UNCHANGED vars
  BY <1>6, StutterKeeps
<1> QED BY <1>1, <1>2, <1>3, <1>4, <1>5, <1>6 DEF Next, Loop, Sort

\* The inductive invariant holds of every behaviour of the loop.
THEOREM Invariance == Spec => []IInv
<1>1. Init => IInv
  BY InitKeeps
<1>2. IInv /\ [Next]_vars => IInv'
  BY NextKeeps
<1> QED BY <1>1, <1>2, PTL DEF Spec

----------------------------------------------------------------------------
(* What follows. *)

\* The variables keep their types, and the reader never points past the frames
\* there are or to a journal it did not join (reader.cpp).
THEOREM TypeCorrect == Spec => []TypeOK
<1>1. IInv => TypeOK
  BY DEF IInv
<1> QED BY <1>1, Invariance, PTL

\* Reader::sort hands over no frame before an older one it could see.
THEOREM Merges == Spec => []MergeOrder
<1>1. IInv => MergeOrder
  BY DEF IInv
<1> QED BY <1>1, Invariance, PTL

\* A process never sleeps in JourObserver::wait over frames nobody will signal.
THEOREM Wakes == Spec => []NoWakeupLost
<1>1. IInv => NoWakeupLost
  BY DEF IInv
<1> QED BY <1>1, Invariance, PTL

\* After live_ was cleared no handler runs any more (eventengine.cpp drain).
THEOREM Stops == Spec => StopIsFinal
<1>1. IInv /\ [Next]_vars => (~ live => got' = got)
  <2>1. SUFFICES ASSUME IInv, [Next]_vars, ~ live, got' # got PROVE FALSE
    OBVIOUS
  <2>2. Handle
    BY <2>1 DEF Next, Loop, Sort, vars, writers, loop, Tick, Stamp, Publish, Post, EnterSort, Look,
       Construct, Join, Watch, Wait, Check, Leave, Terminate
  <2> QED BY <2>1, <2>2 DEF Handle, IInv, StopInv
<1> QED BY <1>1, Invariance, PTL DEF Spec, StopIsFinal

\* What a step of the system is to the log of journal j.
LEMMA LogStep ==
  ASSUME IInv, [Next]_vars, NEW j \in Journals
  PROVE  Log(j)!Next \/ UNCHANGED <<log[j], first[j], got[j]>>
<1>1. /\ log \in [Journals -> Seq(Frames)] /\ first \in [Journals -> Nat]
      /\ got \in [Journals -> Seq(Frames)] /\ pos \in [Journals -> Nat]
  BY DEF IInv, TypeOK, WritersTyped, CursorsTyped
<1>2. CASE UNCHANGED <<log, first, got>>
  BY <1>2
<1>3. ASSUME NEW k \in Journals, Publish(k)
      PROVE  Log(j)!Next \/ UNCHANGED <<log[j], first[j], got[j]>>
  <2>1. UNCHANGED <<first, got>>
    BY <1>3 DEF Publish, loop
  <2>2. CASE k # j
    BY <1>3, <2>1, <2>2, Appended
  <2>3. CASE k = j
    <3>1. PICK f \in draft[j] : log' = [log EXCEPT ![j] = Append(@, f)]
      BY <1>3, <2>3 DEF Publish
    <3>2. f \in Frames /\ log[j] \in Seq(Frames) /\ log'[j] = Append(log[j], f)
      BY <1>1, <3>1 DEF IInv, TypeOK, WritersTyped
    <3>3. Log(j)!Publish
      BY <2>1, <3>2 DEF Log!Publish
    <3> QED BY <3>3 DEF Log!Next
  <2> QED BY <2>2, <2>3
<1>4. ASSUME NEW k \in Journals, Join(k)
      PROVE  Log(j)!Next \/ UNCHANGED <<log[j], first[j], got[j]>>
  <2>1. PICK n \in 0 .. Len(log[k]) : first' = [first EXCEPT ![k] = n + 1]
    BY <1>4 DEF Join
  <2>2. UNCHANGED <<log, got>> /\ first[k] = 0
    BY <1>4 DEF Join, writers, IInv, ReaderInv
  <2>3. CASE k # j
    BY <1>1, <2>1, <2>2, <2>3
  <2>4. CASE k = j
    <3>1. n + 1 \in 1 .. Len(log[j]) + 1 /\ first'[j] = n + 1
      BY <1>1, <2>1, <2>4
    <3>2. Log(j)!JoinAt("loop", n + 1)
      BY <2>2, <2>4, <3>1 DEF Log!JoinAt
    <3> QED BY <3>1, <3>2 DEF Log!Next
  <2> QED BY <2>3, <2>4
<1>5. CASE Handle
  <2>1. /\ cur \in Journals /\ cur \in joined /\ HasData(cur) /\ UNCHANGED <<log, first>>
        /\ got' = [got EXCEPT ![cur] = Append(@, Current(cur))]
    BY <1>5 DEF Handle, Available, writers, IInv, TypeOK, LoopTyped
  <2>2. CASE cur # j
    BY <1>1, <2>1, <2>2
  <2>3. CASE cur = j
    <3>1. /\ first[j] > 0 /\ pos[j] = first[j] - 1 + Len(got[j])
      BY <2>1, <2>3 DEF IInv, ReaderInv
    <3>2. /\ first[j] \in Nat /\ Len(got[j]) \in Nat /\ Len(log[j]) \in Nat
          /\ first[j] + Len(got[j]) = pos[j] + 1 /\ first[j] + Len(got[j]) <= Len(log[j])
      BY <1>1, <2>1, <2>3, <3>1 DEF Offered, HasData, Current
    <3>3. got'[j] = Append(got[j], log[j][first[j] + Len(got[j])])
      BY <1>1, <2>1, <2>3, <3>2 DEF Current
    <3>4. Log(j)!Deliver("loop")
      <4>1. first[j] # 0
        BY <3>1, <3>2
      <4>2. [r \in {"loop"} |-> got'[j]]
            = [[r \in {"loop"} |-> got[j]] EXCEPT !["loop"] = Append(got[j], log[j][first[j] + Len(got[j])])]
        BY <3>3
      <4> QED BY <2>1, <3>2, <4>1, <4>2 DEF Log!Deliver
    <3> QED BY <3>4 DEF Log!Next
  <2> QED BY <2>2, <2>3
<1>6. CASE ~ (Handle \/ \E k \in Journals : Publish(k) \/ Join(k))
  <2>1. UNCHANGED <<log, first, got>>
    BY <1>6 DEF Next, Loop, Sort, vars, writers, loop, Tick, Stamp, Post, EnterSort, Look, Construct,
       Watch, Wait, Check, Leave, Terminate
  <2> QED BY <1>2, <2>1
<1> QED BY <1>3, <1>4, <1>5, <1>6

\* Every journal is, for the loop, the append-only log of JournalLog: a frame
\* published is handed over once and in order (journal.cpp, reader.cpp).
THEOREM Implements == Spec => ImplementsLogs
<1>1. Init => \A j \in Journals : Log(j)!Init
  BY DEF Init, Log!Init
<1>2. IInv /\ [Next]_vars
      => (\A j \in Journals : Log(j)!Next \/ UNCHANGED <<log[j], first[j], got[j]>>)
  BY LogStep
<1> QED BY <1>1, <1>2, Invariance, PTL DEF Spec, ImplementsLogs
============================================================================
