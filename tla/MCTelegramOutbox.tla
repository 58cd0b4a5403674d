-------------------------- MODULE MCTelegramOutbox --------------------------
(* Instances of TelegramOutbox: a librarian who is also a teacher receives *)
(* messages about both cabinets.                                           *)
EXTENDS TelegramOutbox, TLC

CONSTANTS lib, w1, w2

TwoRows == 1..2
OneUser == {lib}
OneWorker == {w1}
TwoWorkers == {w1, w2}

(* The first row opens the teachers' cabinet, the second the librarians'. *)
ToOne == [r \in TwoRows |-> lib]
MixedPaths == [r \in TwoRows |-> IF r = 1 THEN "teacher" ELSE "librarian"]

Symmetry == Permutations(TwoWorkers)
=============================================================================
