------------------------ MODULE MCMaterialRequests ------------------------
(***************************************************************************)
(* Instances of MaterialRequests for TLC.                                  *)
(***************************************************************************)
EXTENDS MaterialRequests, TLC

CONSTANTS Teacher, AskedOfEach

(* All orders are one teacher's, for AskedOfEach copies of every title. *)
MCTeacherOf == [o \in Orders |-> Teacher]
MCAsked == [o \in Orders |-> [m \in Materials |-> AskedOfEach]]

Symmetry == Permutations(Workers) \cup Permutations(Requests) \cup Permutations(Loans)
                \cup Permutations(Orders) \cup Permutations(Materials)
=============================================================================
