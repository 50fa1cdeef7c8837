--------------------------- MODULE MCSalesCycle ---------------------------
(***************************************************************************)
(* A small instance of SalesCycle: the cron goes through two stores.      *)
(***************************************************************************)
EXTENDS SalesCycle

MCstore_ids == <<"I63", "S01">>
=============================================================================
