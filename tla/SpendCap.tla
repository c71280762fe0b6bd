------------------------------ MODULE SpendCap ------------------------------
(***************************************************************************)
(* What the monthly budget of Claude calls promises, whoever makes them.    *)
(* A caller passes the pre-call check against the ledger, may then have one *)
(* call outstanding, and records what the call cost.  The check and the     *)
(* record are a network request apart, so callers overlap.                  *)
(***************************************************************************)
EXTENDS Integers, FiniteSets

CONSTANTS
    Callers,    \* executions that may call the API
    Budget,     \* the highest monthly cap the operator sets
    Estimate,   \* what the check assumes the next call costs
    MaxCost     \* the most one call costs

VARIABLES
    ledger,     \* dollars recorded since the first of the month
    asking      \* callers past their check, with nothing recorded yet

spendVars == <<ledger, asking>>

Init == ledger = 0 /\ asking = {}

(* The check refuses the call that would take the ledger past the cap. *)
Pass(c) ==
    /\ c \in Callers \ asking
    /\ ledger + Estimate <= Budget
    /\ asking' = asking \cup {c}
    /\ UNCHANGED ledger

Record(c) ==
    /\ c \in asking
    /\ \E cost \in 0..MaxCost : ledger' = ledger + cost
    /\ asking' = asking \ {c}

(* A refused call, an unusable answer, a dead worker: nothing is recorded. *)
Drop(c) ==
    /\ c \in asking
    /\ asking' = asking \ {c}
    /\ UNCHANGED ledger

NewMonth ==
    /\ ledger' = 0
    /\ UNCHANGED asking

Next ==
    \/ \E c \in Callers : Pass(c) \/ Record(c) \/ Drop(c)
    \/ NewMonth

Spec == Init /\ [][Next]_spendVars

-----------------------------------------------------------------------------
(* However many callers overlap, the ledger passes the cap by less than one *)
(* call each.                                                               *)
OvershootBounded == ledger + Estimate <= Budget + Cardinality(Callers) * MaxCost \/ ledger = 0

=============================================================================
