---------------------------- MODULE POLifecycle ----------------------------
(***************************************************************************)
(* What ALLOWED_TRANSITIONS promises of one purchase order at a time: a    *)
(* card appears as a suggestion or a draft, moves only along the table,    *)
(* and units are booked for it only by a move into a received statut.      *)
(* PurchaseOrders implements this module where a single worker writes.     *)
(***************************************************************************)
EXTENDS Integers

CONSTANTS PO, Statut, Allowed, Received

VARIABLES statut, journal

Init ==
    /\ statut = [p \in PO |-> "ABSENT"]
    /\ journal = [p \in PO |-> 0]

Appear(p) ==
    /\ statut[p] = "ABSENT"
    /\ \E st \in {"SUGGERE", "BROUILLON"} : statut' = [statut EXCEPT ![p] = st]
    /\ UNCHANGED journal

Move(p, to) ==
    /\ statut[p] # "ABSENT" /\ to \in Allowed[statut[p]] \ Received
    /\ statut' = [statut EXCEPT ![p] = to]
    /\ UNCHANGED journal

Receive(p, to, q) ==
    /\ statut[p] # "ABSENT" /\ to \in Allowed[statut[p]] \cap Received
    /\ statut' = [statut EXCEPT ![p] = to]
    /\ journal' = [journal EXCEPT ![p] = @ + q]

\* The auto-confirmation loop confirms several orders with one statement.
ConfirmAll(S) ==
    /\ \A p \in S : statut[p] = "SOUMIS"
    /\ statut' = [p \in PO |-> IF p \in S THEN "CONFIRME" ELSE statut[p]]
    /\ UNCHANGED journal

Next ==
    \/ \E p \in PO : \/ Appear(p)
                     \/ \E to \in Statut : Move(p, to)
                     \/ \E to \in Statut : \E q \in 0..journal'[p] : Receive(p, to, q)
    \/ \E S \in SUBSET PO : ConfirmAll(S)

Spec == Init /\ [][Next]_<<statut, journal>>
=============================================================================
