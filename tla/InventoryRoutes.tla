-------------------------- MODULE InventoryRoutes --------------------------
(***************************************************************************)
(* What the components of routes.py (app/inventory/api) have in common:    *)
(* the objectives a store is analysed for, and the events that are rare.   *)
(***************************************************************************)
EXTENDS Integers

CONSTANTS
    Objective,
    None,       \* no value
    Budget      \* bound: requests, failures, sales, decisions, delays of 24 hours

ASSUME BudgetAssumption == Budget \in Nat

VARIABLE
    budget      \* what is left of Budget

Spend == budget > 0 /\ budget' = budget - 1
=============================================================================
