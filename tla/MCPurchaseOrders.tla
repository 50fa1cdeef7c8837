-------------------------- MODULE MCPurchaseOrders --------------------------
(***************************************************************************)
(* Small instances of PurchaseOrders.  Rows are interchangeable, so the    *)
(* runs that check no liveness take them up to permutation.                *)
(***************************************************************************)
EXTENDS PurchaseOrders, TLC

\* The suggested quantity is 1 and the supplier's minimum raises the order to
\* 2, so that a count of 1 is a partial reception.
MCMoq == 2

OrderSymmetry == Permutations(PO)
=============================================================================
