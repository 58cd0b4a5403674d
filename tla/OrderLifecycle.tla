--------------------------- MODULE OrderLifecycle ---------------------------
(***************************************************************************)
(* What a teacher is promised about an order of textbooks, without shelves,*)
(* reservations, loans or handlers: a quantity of each title is asked for, *)
(* the library promises part of it, hands over promised copies and may     *)
(* withdraw promises it has not kept.  An order with an unkept promise is  *)
(* prepared; once no promise is left it is over for good, served if        *)
(* anything was handed over and refused if nothing was.                    *)
(*                                                                         *)
(* MaterialRequests is shown to implement this specification.              *)
(***************************************************************************)
EXTENDS Integers

CONSTANTS Orders, Materials,
    Asked,      \* order -> title -> copies asked for
    MaxAsked    \* the largest quantity of a title an order may ask for

VARIABLES
    stage,      \* order -> "none" | "open" | "prepared" | "served" | "refused"
    promised,   \* order -> title -> copies promised so far, handed ones included
    handed      \* order -> title -> copies handed over

vars == <<stage, promised, handed>>

Nothing == [m \in Materials |-> 0]

Within(a, b) == \A m \in Materials : a[m] <= b[m]

TypeOK ==
    /\ stage \in [Orders -> {"none", "open", "prepared", "served", "refused"}]
    /\ promised \in [Orders -> [Materials -> Nat]]
    /\ handed \in [Orders -> [Materials -> Nat]]

Init ==
    /\ stage = [o \in Orders |-> "none"]
    /\ promised = [o \in Orders |-> Nothing]
    /\ handed = [o \in Orders |-> Nothing]

Place(o) ==
    /\ stage[o] = "none"
    /\ stage' = [stage EXCEPT ![o] = "open"]
    /\ UNCHANGED <<promised, handed>>

Refuse(o) ==
    /\ stage[o] = "open"
    /\ stage' = [stage EXCEPT ![o] = "refused"]
    /\ UNCHANGED <<promised, handed>>

(* Prepared or raised: a promise only grows here, up to what was asked. *)
Promise(o, p) ==
    /\ stage[o] \in {"open", "prepared"}
    /\ Within(promised[o], p) /\ Within(p, Asked[o])
    /\ p # promised[o]
    /\ promised' = [promised EXCEPT ![o] = p]
    /\ stage' = [stage EXCEPT ![o] = "prepared"]
    /\ UNCHANGED handed

HandOver(o, h) ==
    /\ stage[o] = "prepared"
    /\ Within(handed[o], h) /\ Within(h, promised[o])
    /\ h # handed[o]
    /\ handed' = [handed EXCEPT ![o] = h]
    /\ stage' = [stage EXCEPT ![o] = IF h = promised[o] THEN "served" ELSE "prepared"]
    /\ UNCHANGED promised

Withdraw(o, p) ==
    /\ stage[o] = "prepared"
    /\ Within(handed[o], p) /\ Within(p, promised[o])
    /\ p # promised[o]
    /\ promised' = [promised EXCEPT ![o] = p]
    /\ stage' = [stage EXCEPT ![o] = IF p # handed[o] THEN "prepared"
                                     ELSE IF p = Nothing THEN "refused" ELSE "served"]
    /\ UNCHANGED handed

Next == \E o \in Orders :
    \/ Place(o)
    \/ Refuse(o)
    \/ \E q \in [Materials -> 0..MaxAsked] : Promise(o, q) \/ HandOver(o, q) \/ Withdraw(o, q)

Spec == Init /\ [][Next]_vars
=============================================================================
