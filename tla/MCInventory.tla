---------------------------- MODULE MCInventory ----------------------------
(***************************************************************************)
(* Instances of Inventory for TLC.                                         *)
(***************************************************************************)
EXTENDS Inventory, TLC

CONSTANTS OpeningCopies     \* copies a shelf may hold when the model starts

(* At most OpeningCopies copies of each title, all of them in the library. *)
MCOpening == [Slots -> {0}] \cup
    {[s \in Slots |-> IF s[2] = Library THEN n ELSE 0] : n \in {OpeningCopies}}

Symmetry == Permutations(Workers) \cup Permutations(Requests) \cup Permutations(Loans)
                \cup Permutations(Materials)
=============================================================================
