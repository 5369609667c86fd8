---------------------------- MODULE AppendOnlyLog ----------------------------
(***************************************************************************)
(* What events.jsonl promises to the rest of the system: a history that    *)
(* only ever grows at its end, whose records are numbered without gaps and *)
(* linked to their predecessor, and that a restart continues.  A step that *)
(* harms it ends the promise.                                              *)
(***************************************************************************)
EXTENDS Naturals, Sequences

VARIABLES
  history,
  intact    \* nothing has harmed the log so far

\* The link of the first record (GENESIS_HASH).
Genesis == 0

\* The number and the link a record at the end of h must carry.
Continues(h, e) ==
  /\ e.seq = Len(h) + 1
  /\ e.prev = IF h = << >> THEN Genesis ELSE h[Len(h)].id

Extend ==
  /\ intact /\ intact'
  /\ Len(history') = Len(history) + 1
  /\ SubSeq(history', 1, Len(history)) = history
  /\ Continues(history, history'[Len(history) + 1])

Break == ~intact'

LogInit == history = << >> /\ intact = TRUE

LogSpec == LogInit /\ [][Extend \/ Break]_<< history, intact >>
=============================================================================
