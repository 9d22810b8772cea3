---------------------------- MODULE JournalLog ----------------------------
(***************************************************************************)
(* What one journal promises to the engines that use it: an append-only   *)
(* log with one writer.  A reader joins at some place of the log and from  *)
(* there on is handed every entry, once and in the order of the log.       *)
(* Pages, headers, seeking and restarts of the writer are not visible.     *)
(***************************************************************************)
EXTENDS Naturals, Sequences

CONSTANTS
  Readers,   \* the readers joined to the journal
  Entries    \* what an entry of the log may be

VARIABLES
  log,       \* the entries published so far
  first,     \* first[r]: index of the first entry r is to read, 0 before it joined
  got        \* got[r]: the entries handed to r

vars == <<log, first, got>>

Init ==
  /\ log = <<>>
  /\ first = [r \in Readers |-> 0]
  /\ got = [r \in Readers |-> <<>>]

\* The writer publishes one entry, behind those already there.
Publish ==
  /\ Len(log') = Len(log) + 1
  /\ \A i \in 1 .. Len(log) : log'[i] = log[i]
  /\ log'[Len(log) + 1] \in Entries
  /\ UNCHANGED <<first, got>>

\* A reader takes its place in the log, possibly behind everything published.
JoinAt(r, i) ==
  /\ first[r] = 0
  /\ first' = [first EXCEPT ![r] = i]
  /\ UNCHANGED <<log, got>>

\* A reader is handed the next entry of the log.
Deliver(r) ==
  LET i == first[r] + Len(got[r])
  IN  /\ first[r] # 0
      /\ i <= Len(log)
      /\ got' = [got EXCEPT ![r] = Append(@, log[i])]
      /\ UNCHANGED <<log, first>>

Next ==
  \/ Publish
  \/ \E r \in Readers : \E i \in 1 .. Len(log) + 1 : JoinAt(r, i)
  \/ \E r \in Readers : Deliver(r)

Spec == Init /\ [][Next]_vars
===========================================================================
