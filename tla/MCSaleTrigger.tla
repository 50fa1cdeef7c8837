--------------------------- MODULE MCSaleTrigger ---------------------------
(***************************************************************************)
(* A small instance of SaleTrigger.  Between the three analyses each kind  *)
(* of material change occurs: urgency, feasibility, gap.                   *)
(***************************************************************************)
EXTENDS SaleTrigger

MCAnalyses ==
    {[urgency |-> 0, feasibility |-> 1, gap |-> 0],
     [urgency |-> 1, feasibility |-> 1, gap |-> 0],
     [urgency |-> 0, feasibility |-> 3, gap |-> 5]}
=============================================================================
