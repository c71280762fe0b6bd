------------------------------- MODULE AICalls ------------------------------
(***************************************************************************)
(* The calls to the Claude API and the ledger they are recorded in          *)
(* (ai/spend.py, ai/recipe_picker.py).  Dollars are small integers.         *)
(***************************************************************************)
EXTENDS Integers, FiniteSets, Functions

CONSTANTS
    Budget,     \* the cap the operator sets; the other setting is zero
    Estimate,   \* estimate_call: what the check assumes the next call costs
    MaxCost,    \* the most one call costs
    Costs       \* what the ledger may count for an answer: nothing when the
                \* model has no listed price, whatever the API bills for it

ASSUME CallAssumption ==
    /\ Budget \in Nat /\ Estimate \in Nat /\ MaxCost \in Nat
    /\ Costs \subseteq 0..MaxCost

VARIABLES
    month,      \* the ledger: dollars recorded this month
    cap,        \* app_settings: monthly_budget_usd
    key,        \* app_settings: an API key is stored and enabled
    unrecorded  \* history: a call was billed that left no ledger row

callVars == <<month, cap, key, unrecorded>>

CallInit == month = 0 /\ cap = Budget /\ key = TRUE /\ unrecorded = FALSE

CallTypeOK == month \in Nat /\ cap \in {0, Budget} /\ key \in BOOLEAN /\ unrecorded \in BOOLEAN

(* Defect: the call about to be made does not count. *)
LedgerOnly(budget) == month <= budget

(* check_budget: the sum of the month's rows plus the estimate, against the *)
(* cap of the configuration the run loaded.                                 *)
WithinBudget(budget) == month + Estimate <= budget

(* record and the commit that follows it. *)
RecordCall(cost) ==
    /\ month' = month + cost
    /\ UNCHANGED <<cap, key, unrecorded>>

(* _ask and post_messages fail in three ways: a billed answer that cannot be *)
(* used, raised without its usage; a refusal after the retries; a refusal   *)
(* every further call will meet (no credit, a bad key).                     *)
Failures == {"unusable", "refused", "fatal"}

(* What a failed call leaves behind: no dollars, whatever the API billed. *)
FailCall(kind) ==
    /\ unrecorded' = (unrecorded \/ kind = "unusable")
    /\ UNCHANGED <<month, cap, key>>

(* The worker dies, or its transaction fails, between a call and its record. *)
LoseCall(made) ==
    /\ unrecorded' = (unrecorded \/ made)
    /\ UNCHANGED <<month, cap, key>>

(* update_ai_settings: zero pauses every call without removing the key. *)
SetCap ==
    /\ cap' \in {0, Budget} \ {cap}
    /\ UNCHANGED <<month, key, unrecorded>>

SetKey ==
    /\ key' = ~key
    /\ UNCHANGED <<month, cap, unrecorded>>

(* month_start: the sum starts again on the first. *)
TurnMonth ==
    /\ month > 0
    /\ month' = 0
    /\ UNCHANGED <<cap, key, unrecorded>>

=============================================================================
