---------------------------- MODULE EventLoopInv ----------------------------
(***************************************************************************)
(* The inductive invariant of EventLoop: why a process that looks at its    *)
(* journals one after the other, and sleeps without a time-out, misses      *)
(* nothing.                                                                 *)
(***************************************************************************)
EXTENDS EventLoop

\* Nothing is of the future.
ClockInv ==
  /\ begin <= clock
  /\ \A j \in Journals :
       /\ \A i \in 1 .. Len(log[j]) : log[j][i].gen <= clock
       /\ \A f \in draft[j] : f.gen <= clock

\* Where the process stands in its life.
PlaceInv ==
  /\ pc \in {"sort", "look"} => ret \in {"join", "check", "test"}
  /\ pc \in {"wait", "check", "test"} \/ (pc \in {"sort", "look"} /\ ret \in {"check", "test"})
       => joined = Journals /\ watched
  /\ pc \in {"off", "join"} \/ (pc \in {"sort", "look"} /\ ret = "join") => ~ watched
  /\ pc \in {"sort", "look"} => joined # {}
  /\ pc = "look" => todo # {}
  /\ pc # "look" => todo = {}

\* A frame published was posted, or will be.
Signalled(j) == IF watched THEN j \in ready \/ owed[j] > 0 ELSE j \in counted \/ owed[j] > 0

PostInv == ~ watched => \A j \in Journals : Len(log[j]) > 0 => Signalled(j)

\* Once sort() has begun, whatever it may miss is signalled.
NewsInv ==
  pc \in {"look", "test"} /\ watched =>
    \A j \in Journals : Len(log[j]) > snap[j] => Signalled(j)

\* In the middle of sort(), with T still to look at: c has the oldest of the frames
\* looked at, taken at m; or there was none, and none that was there at the
\* beginning is of the future.
Oldest(c, m, T) ==
  \/ /\ c # None /\ c \notin T /\ HasData(c) /\ Current(c).gen = m
     /\ \A k \in joined \ T : Offered(k) => m <= Current(k).gen
  \/ /\ \A k \in joined \ T : ~ Offered(k)
     /\ \A k \in joined : Offered(k) => Current(k).gen <= m

LookInv == pc = "look" => Oldest(cur, min, todo)

\* After it: what data_available says of the reader holds of every journal.
TestInv ==
  pc = "test" => Available \/ \A k \in Journals : ~ Offered(k)

\* The cursor of a journal is past the frames it skipped and those handed over.
ReaderInv ==
  \A j \in Journals :
    IF j \in joined
      THEN first[j] > 0 /\ pos[j] = first[j] - 1 + Len(got[j])
      ELSE first[j] = 0 /\ pos[j] = 0 /\ got[j] = <<>>

\* A loop told to stop is on its way out, and runs no handler there.
StopInv == ~ live => pc \in {"check", "done"} \/ (pc \in {"sort", "look"} /\ ret = "check")

IInv ==
  /\ TypeOK /\ ClockInv /\ PlaceInv /\ PostInv /\ NewsInv /\ LookInv /\ TestInv
  /\ MergeOrder /\ NoWakeupLost /\ ReaderInv /\ StopInv
=============================================================================
