---------------------------- MODULE MCStoreLive ----------------------------
(***************************************************************************)
(* A small instance of StoreLive: a store with its POS id and an alias,    *)
(* and another store.                                                      *)
(***************************************************************************)
EXTENDS StoreLive

MCmap_store_id ==
    [i \in {"I63", "store-lac2", "S01"} |-> IF i = "S01" THEN "S01" ELSE "I63"]
=============================================================================
