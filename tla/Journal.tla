------------------------------ MODULE Journal ------------------------------
(***************************************************************************)
(* What a set of rotated files promises: one sequence of records, in the   *)
(* order in which they were written, to which records are added at the end *)
(* and from which records are lost at either end, never in the middle.     *)
(***************************************************************************)
EXTENDS Naturals, Sequences

VARIABLE journal   \* the numbers of the records that can be read, oldest first

JournalInit == journal = << >>

(* Records are numbered as they are saved.                                 *)
Add ==
  LET n == Len(journal) + 1
  IN  /\ Len(journal') = n
      /\ SubSeq(journal', 1, n - 1) = journal
      /\ \A i \in DOMAIN journal : journal[i] < journal'[n]

Lose ==
  \E first \in 1..(Len(journal) + 1) :
    LET last == first + Len(journal') - 1
    IN  last <= Len(journal) /\ journal' = SubSeq(journal, first, last)

JournalSpec == JournalInit /\ [][Add \/ Lose]_journal
=============================================================================
