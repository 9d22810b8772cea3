----------------------------- MODULE MCJournal -----------------------------
(***************************************************************************)
(* Instances of Journal for TLC.  A header is two units and a page nine,    *)
(* so that a page takes two frames and its PageEnd, and PageUnit::is_full   *)
(* holds of some closed pages (those with a longer frame) and not of others. *)
(***************************************************************************)
EXTENDS JournalInv, TLC

\* Readers and payloads are interchangeable.
Symmetric == Permutations(Readers) \cup Permutations(Bodies)
============================================================================
